# Verification of rt_charger

rt_charger is the firmware of a charging station on RT-Thread (one Cortex-M
core, strict priorities): load detection, an RFID reader, lights and sound,
relays, and an Air302 modem that is spoken to with AT commands. This directory
holds TLA+ models of the parts whose correctness depends on interleaving,
timing and failure, their TLC configurations, and TLAPS proofs.

## 1. Inventory

Priorities that matter (a smaller number preempts a larger one): soft timer
thread 4, AT parser 9, `main` 10, `tshell` 20, and the executor presets of
`configs/os.hxx` (`High` 2, `Middle` 8, `Low` 10). Interrupts preempt all.

| Component | State | Operations | Talks to | Hard behaviour | What makes it correct |
|---|---|---|---|---|---|
| `os/queue.hxx`, `os/event.*` | `std::queue`, `rt_mutex`, event bit | `push`, `pop`, `empty` | executor | unlock before wait, stale bits | FIFO, no lost wakeup |
| `os/event_allocator.*`, `compacted_event_set.*` | sets of 32 bits, a list of weak pointers | `alloc`, `free`, `dispose` | every `Event` | a bitset written outside the lock that guards it elsewhere | a bit has one owner; full and empty sets |
| `os/task.*`, `post.*`, `deliver*` | mailbox, unlocked `std::list delivers`, `ctxQueue` of each Deliver | `exec`, `post`, `poll`, `invoke`, `dispose` | any thread to a polling thread | preemption inside `push_back`, blocking jobs, `exec` from inside a job | each job once, in order, in the end; no leak |
| AT client (`rt-thread/components/net/at/src/at_client.c`, `net/at*.{cxx,hxx}`) | `lock`, `resp`, `resp_notice`, `resp_status` | `exec`, `wait_connect`, the parser | threads and modem | late answers, timeouts, errors | an answer goes to its own command; callers do not hang |
| `net/cplx_at*`, `at_comp*` | list of weak pointers to components, `clsInited` | `make`, `init`, look-up by a URC | threads and parser | make is not atomic: a second maker, or a component that dies between `expired` and `lock` | one component per type, URCs added once |
| URC table (`at_client.c`) and `net/at_urc_builder*` | a reallocated array of prefixes and handlers; fields of a line | `addUrc`, look-up, splitting, handler of a line | any thread that makes a component; the parser | the parser reads the array without a lock; no memory; missing fields; argument order | a type added stays; no freed entry is read; a field reaches its parameter |
| `devices/air302/http.*` | slots of weak pointers, `EventSet`, response | `createFlow`, `send`, `~Flow`, URC callbacks | AT client | late and partial answers, throwing destructor | a slot has one user, an answer is whole, `send` ends |
| `devices/air302/mqtt*` | slots, events, `onMessage` | `createClient`, `login`, ... | AT client | as Http | as Http |
| `devices/load_detector.*` | ring of 10 ticks, `rear`, `fulled` | interrupt, timer callback | relay/app by an Observable | interrupt inside the callback, tick wrap | on only with pulses, no missed load |
| `devices/rc522.*` | `cardId`, `contiReqFailedCnt`, chip registers | timer callback, transceive, anticollision | app by an Observable | time limits, errors, shared timer thread | a card is reported while it is there |
| `devices/ws2812.*`, `wtn6.*` | colours; line level | `flush`, `write` | executor | lifetime, bit timing | jobs run in order |
| `os/timer.*`, `os/signals.hxx` over `rt-thread/src/timer.c` | `running`; a vector of handlers; the kernel's list of soft timers and its thread | constructor, `start`, `stop`, `run`; `rt_timer_start`/`stop`, `rt_soft_timer_check` | devices; one thread for all soft timers | one-shot timer firing inside `start`, a handler added during a walk, tick wrap, a list that changes while the thread sleeps | never early, never forgotten, `running` tells the truth |
| `os/observable.hxx`, `timeout.*` | a value; a start tick | assign; remaining time | devices, UART | each is used by one thread | - |
| `devices/relay.*`, `output_pin.*` | three chained Observables, a pin | assign | Observable | pin mode set before the level | the pin follows the last value |
| `hal/uart.*` | receive counter | `read`, `write` | interrupt | counter against the interrupt | no byte is lost |
| `termios/*`, `hal/port*`, `configs/*`, `hlw8112*` | argv; constants | run a command | | sequential, or without run-time state | |

## 2. Modules

| Module | Models | Composition |
|---|---|---|
| `Mailbox` | what `Queue<T>` promises: a FIFO channel of several producers and one consumer | abstract specification |
| `Queue` | `push` and `pop` with one step at each place where another thread can run | implements `Mailbox` (`MB == INSTANCE Mailbox WITH chan <- q`) |
| `Executor` | `Task`, `Post`, `Deliver`: clients, the polling thread, the list with its links | uses the mailbox as a FIFO, which `Queue` justifies |
| `EventAllocator` | `alloc`, `free`, `dispose` on the bitsets and the list of sets | |
| `ExecutorEvents` | the executor and the event bits of its Delivers | composes `Executor` (EXTENDS) and `EventAllocator` (INSTANCE); it has all behaviours of `Executor`, so the run `Executor` checks the properties of all three on it |
| `CommandChannel` | what the AT client promises the callers of `exec` and `waitConnect`: one call at a time, a result that is settled once, whose result can be relied on, and that every call returns | abstract specification |
| `AtClient` | `at_obj_exec_cmd`, `at_client_obj_wait_connect`, `client_parser`, the modem | implements `CommandChannel` (`CC == INSTANCE CommandChannel WITH holder <- lock, todo <- pend, result <- Result, ...`) |
| `CplxAt` | `CplxAt::make`, `AtCompBase::init`, the URC handler's look-up | |
| `Http` | `Http::send`, `createFlow`, `~Flow`, the URC callback, slots and events | takes commands to end as `CommandChannel` allows them to |
| `Mqtt` | `MqttFactory::createAli`, `Client::connect`, `~Client`, the two URCs | as `Http` |
| `Urc` | `at_obj_set_urc_table` with `rt_realloc`, `get_urc_obj`, the handler that the URC builder makes of a callback | the table that `CplxAt`'s `AddUrc` adds to, in detail |
| `SoftTimer` | `Timer` and its handlers, `rt_timer_start`/`stop`, the timer thread | what `LoadDetector` and `Rc522` are called by |
| `LoadDetector` | the interrupt and the timer callback | |
| `Rc522` | `init`, the timer callback, reset and transceive, the chip, the cards, the timer thread | |
| `MC*` | small instances for TLC | each EXTENDS one module above |
| `Queue_proofs`, `Executor_proofs`, `AtClient_proofs`, `CplxAt_proofs`, `Urc_proofs`, `Http_proofs`, `SoftTimer_proofs`, `Devices_proofs` | TLAPS proofs | each EXTENDS the module it is about; `Queue_proofs` is about `Mailbox` too, `Executor_proofs` about `Executor` and `ExecutorEvents`, and `Devices_proofs` about `Rc522`, `LoadDetector` and `Mqtt`, whose definitions have names of their own for that |

A definition whose comment begins with *Mutant* is no part of a specification.
It is a faulty form of the action after it; with it in place of that action one
property of a run is violated, which shows that the property depends on the code.

Granularity. The core has one CPU and strict priorities. A step is a stretch of
code at whose end another thread or an interrupt may run with an effect that the
properties can see. Where a higher priority makes a stretch uninterrupted for the
threads in question it is one step (the parser's handling of a line, the polling
thread ahead of its clients), and where nothing does, each access to shared state
is a step (links of the list, the word of a bitset, `fulled` and `rear`).

### How state and actions correspond to the code

- **Queue.** `q`, `owner`, `bit` are the `std::queue`, the mutex and the event
  bit. `PushLock`, `PushItem`, `PushSet`, `PushUnlock` are the four statements of
  `push`; `PopLock`, `PopSeesEmpty`, `PopWait`, `PopFront`, `PopUnlock` those of
  `pop`. `PushSet` has both cases of `rt_event_send`: a suspended consumer gets
  the bit, otherwise it stays set. `Init` allows a set bit, because `~Event`
  returns its bit without clearing it.
- **Executor.** `PushBackNode/Link/Close` are `delivers.push_back` with its three
  writes, `PushArgs` the `ctxQueue.push`, `Enqueue` the `queue.push`. On the
  polling thread `Pop`, `Invoke`, `Dispose`, `Drop` are the loop of `Post::poll`;
  `Invoke` runs jobs that call `exec` on the spot (`isCurrent`), and a job in
  `Sleeps` blocks until `Wake`. `torn` records that one thread has written the
  list amid the `push_back` of another.
- **EventAllocator, ExecutorEvents.** `FreeRead` and `FreeWrite` are the two halves
  of `bits.reset`, `FreeDispose` the removal of an empty set. A Deliver's Event
  is allocated by `MakeDeliver` and freed by whichever thread drops the last
  reference (`ReturnFrees`, `DropFrees`). `raced` records a change of a bitset
  under an open free.
- **AtClient.** One place for every statement of `at_obj_exec_cmd` and
  `at_client_obj_wait_connect` between which a line may arrive. `DataLine` and
  `EndLine` are a line arriving and all the parser does with it; `pend` is what
  the modem has been asked and not answered. `clean`, `answer`, `late`, `wild`
  are history. In `CommandChannel` (`ImplementsChannel`) a caller's places shrink to the
  state of its call: *new* until `client->resp` is set, *open* until a token was taken
  or the time is over, then its result; `clean` is there the promise that the result
  is what the modem said (`fresh`).
- **CplxAt.** One round of the loop of `make` is `ScanExpired` (line 15), then `ScanErase`
  (16) or `ScanLock` (20), `ScanThrow` or `ScanNext` (21-24) and `Release`, the end of
  `currComp` (25); another thread may come between any two. `Live` is what the `shared_ptr`s
  of users and the `currComp`s of walkers keep alive. If the component dies
  between 15 and 20, `curr` is 0 and the comparison of types, undefined in C++, goes
  either way (`null`). `Construct`, `ClsInited`, `SetInited`, `AddUrc`, `Push`
  follow the rest of `make` and `init`; `Drop` is a user letting go of a component.
  `overlap`, `died`, `wild`, `null` are history.
- **Urc.** `Enter` to `FillIn` are the statements of `at_obj_set_urc_table`, each a
  step, because the parser preempts the thread anywhere; `Realloc`, `ReallocInPlace`
  and `ReallocFails` are what `rt_realloc` can do. `heap` remembers which blocks are
  freed, `Entry` what a read finds, `Torn` that the parser would read what is not
  an entry. `Line` is `get_urc_obj` with the handler it finds: `Split`, `Index` and
  `Argument` follow `split` and `ArgProvider`. `order` is the order in which the
  build evaluates the pack expansion of `at_urc_builder.hxx:285`; C++ leaves it open,
  so `Init` chooses it once. `overlap`, `lost`, `done` are history.
- **SoftTimer.** `Look`, `Suspend`, `Delay` are one round of the timer thread,
  `Take`, `Call`, `Again`, `NothingDue` `rt_soft_timer_check`; `Tick` the interrupt,
  which ends a delay. `Start`, `Resume`, `Mark` are `Timer::start` with the two
  halves of `rt_timer_start` (the second one may switch threads), `Stop` and `Mark`
  are `Timer::stop`; `Grow` and `Grown` are the constructor that adds a handler.
  Instants are compared by their difference modulo `Mod`, as the code does.
  `since`, `late`, `inStart`, `atMax` are history.
- **Http, Mqtt.** The places of a caller are the statements of `send` or
  `createAli`; a command is `ExecBegin` and `ExecOk` or `ExecFail`, with the lock
  of the AT client held in between. The modem carries commands out, in their
  order, at any time or never. `Urc` and `UrcConn` are the handler of a line: the
  slot is acquired, the callback runs, the event is set, or the line is dropped
  because the slot has expired. `crossed`, `wrongOk`, `failed`, `tidy` are history.
- **LoadDetector.** `Pulse` is the interrupt; `ReadFulled`, `ReadRear`, `ReadNow`,
  `Visit`, `Publish` are the callback, between any two of which a `Pulse` fits.
- **Rc522.** `Send`, `Poll`, `PollTimeout` are `pcdComMF522`; `NoAnswer`,
  `RequestError`, `Answered`, `CardNumber` the ways the callback goes on;
  `StartReset` and `ResetEnds` are `pcdReset`. `due` is the thread of the soft
  timers. The chip and the cards (`ChipReady`, `Answer`, `Silence`, `AnswerLost`,
  `AnswerGarbled`, `Hang`, `Move`) are external: what the driver relies on.

## 3. Runs

| Run | Bounds | Distinct states | Shows |
|---|---|---|---|
| `Queue` | 2 producers, 2 pushes each | 1 334 | The inductive invariant holds; the consumer never sleeps on an item; order; `Queue` implements `Mailbox` with its fairness |
| `Executor` | `ExecutorEvents`: 2 clients, 4 jobs, one of which blocks and calls `exec` from inside, 4 sets of 3 bits | 60 863 | Each job is served once, in order and in the end, even with a torn list; the list is sound and nothing leaks while it is not torn; bits are handed out and taken back exactly unless a free overlaps, and that takes two clients |
| `AtClient` | `main` 2 calls, `tshell` 1; 2 probes, 1 data line, a buffer of 1 line | 66 090 | Who may be written to, what a clean call returns; the client implements `CommandChannel` with its fairness, so calls end |
| `AtClientStale` | the same | until violated | a finding, section 4 |
| `LoadDetector` | ring of 4, window 3, 60 %, 7 pulses, 6 ticks | 3 778 357 | *On* needs pulses; a load is missed at most once |
| `LoadDetectorWrap` | the same ring, counter modulo 8, 12 ticks, 4 pulses | until violated | a finding |
| `CplxAt` | 3 threads, 3 types, 3 components | 4 529 468 | What makes the walk of `make` use an erased node or a null `currComp`; as long as no two threads are inside `make`: one component of a type, which the handler finds, and its URCs once |
| `Urc` | 2 threads, 3 types, memory found or not at every call, lines of 1 to 6 pieces | 890 616 | When the parser can meet a freed or unwritten entry; what loses a type; each field of a line reaches its parameter |
| `Http` | the one slot, `main` 2 sends, `tshell` 1; 2 lines, 2 commands behind | 356 889 | One Flow for a slot, whole answers, what leaves a stale bit behind, every `send` ends |
| `Mqtt` | the one slot, `main` 2 makes, `tshell` 1; 2 commands behind | 1 141 319 | `connect` returns its own result; messages meet a living Client, their own |
| `SoftTimer` | a periodic timer (2 ticks) shared by two objects, a one-shot timer (1 tick), the tick modulo 10, up to 1 tick while the timer thread does a round or a user is about to resume it | 486 588 | The timer thread sleeps no longer than it may, no timer is early or forgotten, `running` tells the truth, what tears the handlers |
| `Rc522` | 2 cards, 3 moves, 2 faults, counter up to 2 | 60 284 | A steady card stays, reports are true, a gone card is dropped, the other timers run |

`SoftTimer` and `Urc` check that there is no deadlock: ticks and lines go on for
ever. The other runs switch the check off for one reason: calls, ticks, faults and
moves are bounded, and when all are used up the system has nothing to do.

### Why the bounds are enough

- *Queue*: a lost wakeup needs one item pushed at one of `pop`'s places; two
  producers with two pushes put a second item and a second owner of the mutex
  anywhere. The proofs drop both bounds.
- *Executor*: two clients tear the list in every way two can (two `push_back`s,
  a `push_back` and a `remove`); a client's second job uses what is left of it. The
  mailbox and two Delivers fill a set of three bits, a third Deliver makes a second
  set, which empties, is disposed of and made again; 32 bits would need 33 Events. With
  two bits to a set no Event would be allocated in a set that has an open free.
- *AtClient*: a stale token takes one call that times out, its victim a second
  one, and the third comes from another thread. One data line and one line of
  buffer make an answer that does not fit.
- *LoadDetector*: the threshold of ring 4 at 60 % is 2, as 6 is that of ring 10
  at 60 %; seven pulses fill the ring once and nearly twice, and six ticks are
  twice the window. `OldTicks` is what the array may hold before it is written.
- *CplxAt*: three threads let a component of another type live, expire and be
  erased while two threads walk. Three components are a dead one under the iterator, a
  living one of the wanted type behind it, and the maker's own. Symmetry is taken over the threads, and over the
  two types with URCs, which nothing distinguishes; the run checks invariants only.
- *Urc*: three types are a first table, one reallocation and a second one, so that a
  block is freed that was itself the result of a reallocation; two threads overlap
  in every pair of places. The lines have one piece fewer, as many and one more
  than the callbacks have parameters, with and without numbers, and a single piece.
- *SoftTimer*: two timers with different periods pass each other on the list, and
  ten ticks are five periods, so that every order of due times meets the wrap and
  the tick `MaxTick`; sharing is between two objects in the code as well.
- *Http, Mqtt*: the code has one slot. A stale bit takes one send that fails and
  one that suffers; the third comes from another thread. A modem two commands
  behind can be late for a command across the end of its call; when it falls
  further behind the next command is lost (`MaxCmds`).
- The safety properties were also checked once on larger instances, without a
  violation: `Http` with three threads and with two slots, `Mqtt` with two slots,
  `AtClient` with three threads and a longer answer, `SoftTimer` with other periods and a
  slower timer thread, `LoadDetector` with a ring of 5. They take too long to be runs.
- *Rc522*: dropping a card takes two failures, mistaking one takes two cards; a
  third move puts the first card back. `MaxFails` 2 is beyond the only value
  (1) that the count is compared with.

## 4. Findings

Two runs are expected to be violated: what the code does disagrees with what a
comment beside it says.

1. **`AtClientStale` / `SuccessMeansAnswered`** - `at_client.c:279-281` promises 0
   for success. When a call has timed out and its answer comes before
   `client->resp` is cleared, the token stays in `resp_notice`, and the next
   call takes it for its own answer (`at_client.c:322`) and returns 0 before its
   command was answered.
2. **`LoadDetectorWrap` / `OnNeedsPulses`** - after the 32-bit tick counter wraps,
   `now - ticks[i]` (`load_detector.cxx:26`) is a negative 64-bit number for
   every older tick, which counts as recent: the load is reported with no pulse
   in the window, against `load_detector.hxx:17`.
Observed while modelling, and covered by the condition of a property:

- Two threads inside `make` at once make two components of one type, against
  `at_comp.hxx:10`: a component is looked for at the beginning and listed at the end
  (`cplx_at.hxx:13-29`), and no lock keeps the other thread out in between; one may also
  erase the node at the other's iterator. `OneInstancePerTurn` and `WalkNeedsQuiet` say
  what holds otherwise.
- `make` can dereference a null pointer with one thread inside: the user of a listed component
  drops it after the walk has asked `expired()` (`cplx_at.hxx:15`) and before it calls
  `lock()` (20). The model goes on from there in either way; `WalkNeedsQuiet` names
  the component that dies during a walk as the only cause.
- A Flow of `Mqtt` whose `createAli` was left by an exception outlives its Client while the
  exception unwinds (`mqtt_factory.cxx:11-18`), and its callback holds a plain pointer to the
  Client. `MessagesGoHome` shows that no message can come then unless `exec` has lied about
  the disconnection or two threads share the slot.
- `rt_timer_list_next_timeout` returns `RT_TICK_MAX` for an empty list
  (`rt-thread/src/timer.c:118`, tested at 692 under the comment *no software timer
  exist*). A first timer due at exactly that tick, which comes once in 2^32 ticks, is
  taken for none: the timer thread suspends itself without a time to wake, and
  the timers stand still until somebody starts one. Nothing in the firmware does
  after start-up. `atMax` in `SleepsUntilDue` and `IsCalled` names the case.
- A one-shot timer that fires inside `start`, before `running = true`
  (`os/timer.cxx:11-16`), counts as running although it is over; `inStart` in
  `RunningIsListed`. The repository's own timers are periodic.
- The second `LoadDetector` adds its handler to a timer that already runs
  (`TornNeedsLateUser`).
- `at_obj_set_urc_table` assigns the result of `rt_realloc` to `urc_table` before it
  looks at it (`at_client.c:577`): without memory all URCs are lost, while
  `urc_table_size` stays. `lost` in `AddedIsListed`.
- The fields of a URC reach their parameters only if the build evaluates the pack
  expansion from left to right (`at_urc_builder.hxx:285`), which C++ leaves open for
  the arguments of a call; `FieldsFindParameters` is about such a build.

Many invariants are therefore conditional, and it matters what that means. The bad states
are in the models and are reached; no property forbids what the code does.

- Some name the *cause*: `WalkNeedsQuiet`, `RaceNeedsTwoClients`, `WildWriteNeedsTimeout`,
  `LeftoverNeedsFailure`, `TornNeedsCause`, `TornNeedsLateUser` say that nothing but a
  given event leads to the bad state. They would catch a second way into it, not the
  known one.
- Some say what holds *until* it happens: `ListSound` and `NoDeliverLeak` (`~torn`),
  `BitsAreOwned` and `ListNamesLivingSets` (`~raced`), `OneFlowPerSlot` (`~crossed`),
  `OneInstancePerTurn` and `UrcsAddedOnce` (`~overlap`), `AddedIsListed` (`~overlap`,
  `~lost`), `RunningIsListed` (`inStart`), `SleepsUntilDue` and `IsCalled` (`atMax`),
  `FieldsFindParameters` (a build from left to right, well-formed lines).
- Some are about calls that *start well*: `ResponseIsWhole` and `ResultIsOwn` (`tidy`),
  `CleanExecIsExact` (`clean`). A call that starts with a left-over bit or token is what
  the finding `AtClientStale` is about, or is named by `LeftoverNeedsFailure`. That an answer too
  long for the buffer is cut short and returned as success is no violation of
  `CleanExecIsExact`.
- Three liveness properties have an *exception*: `SendEnds` takes a thread in the terminate
  handler for the end, `OtherTimersRun` and `GoneCardIsDropped` name a chip stuck in its
  reset, and faults of the chip are finite.

The notes of the hazards in `PROJECT.json` say for each hazard on which side of the line it is.

## 5. Fairness

| Specification | Assumed | Why the code justifies it |
|---|---|---|
| `Queue` | WF of `pop`'s steps and of `push` after its first step | The scheduler runs a ready thread in the end, and a thread inside `push` only waits for a mutex whose owner runs on; nobody has to call `push` |
| `ExecutorEvents` | WF of the poller's steps, of the end of a delay, of an `exec` that has begun | The poller has the highest priority (2); `rt_thread_mdelay` ends; clients run when it blocks |
| `AtClient` | WF of a caller's steps once its call has begun, and of the expiry of a timed wait | Nothing is assumed of the modem or of the parser |
| `Http` | WF of a caller's steps, the end of `exec` among them | `AtClient!ImplementsChannel`: every call of `exec` returns; the event wait has a timeout. Nothing of the modem |
| `SoftTimer` | WF of the tick, of the timer thread, and of `Resume` | The tick is an interrupt; the timer thread (4) runs ahead of all but the poller, which sleeps; a thread inside `rt_timer_start` is not stopped for ever. Nobody has to start or stop a timer |
| `Rc522` | WF of the driver's steps, of `Answer \/ Silence`, of each timer's elapsing | The timer thread as above; ticks go on; a chip that does not hang answers or lets its own timer run out. That the chip leaves its reset is *not* assumed: `rc522.cxx:80` polls for it without a limit, and `OtherTimersRun` says that a chip stuck there (`StuckInReset`) is the one thing that stops the other timers |

`Wake` and `Timeout` are never assumed to come before or after an answer.
`CplxAt`, `Urc`, `LoadDetector` and `Mqtt` have safety properties only.

## 6. Proofs

All theorems are about the full specifications with the constants left open, under
the named assumptions of the modules (`ThreadAssumption`, `JobAssumption`,
`NoneAssumption`, `Rc522Assumption`, ...), which only say that names are distinct
and bounds are numbers. The runs evaluate each of them. Where a theorem needs more (the
bounds `RoundsAreShort` of the soft timers and `MaxTime < TickMod` of the load detector,
a finite set of jobs), it says so as a hypothesis of its own.

- **`Queue_proofs`**, first part - `MailboxFifo`: the abstract channel returns the items of
  each producer in order, once each. Inductive: what was taken followed by what
  is in the channel is, producer by producer, 1, 2, 3, ... up to what it has sent.
- **`Queue_proofs`**, second part - `QueueNoLostWakeup`, `QueueMutex`: `NoLostWakeup` alone is not
  inductive, since a step of a thread that works without the mutex would break
  it; `IInv` adds who owns the mutex at which place (`MutexHeld`), and that a
  producer about to push has a push left. `QueueImplementsMailbox` maps each step
  to `Put`, `Take` or a stutter, and `QueuePoppedInOrder` follows from it and
  `MailboxFifo`: the refinement carries the theorem from the channel to the code.
- **`Executor_proofs`** - `ExecutorServedOnceInOrder`: served, in hand and queued jobs
  make up the posts. It needs `QueuedHasCall` (else `Invoke` would skip a job that
  was popped), and that in turn `PlacesFitJobs` (a client between `PushArgs` and
  `Enqueue` has filled the `ctxQueue` of a job not yet posted). Nothing is assumed
  of the list, so the theorem covers a torn one.
- **`AtClient_proofs`** - `AtClientRespIsOfLockHolder`, `AtClientCleanExecIsExact`, from
  `IInv == TypeOK /\ Owner /\ RespIsOfLockHolder /\ CleanInv`. `Owner`: the lock
  is held by exactly the one caller that is inside a call. `CleanInv`: what a call
  that began with no token and no command outstanding has met at each of its
  places - the only outstanding command is its own, its token is that of its own
  answer, and `resp_status` is what that answer said.
  `AtClientTokensComeFromTimeouts` and `AtClientWildWriteNeedsTimeout` need a second
  invariant beside it, `TokenInv`: the tokens in `resp_notice` and the one that a set
  `client->resp` may still give are no more than the timeouts so far, and one for a
  call that has set it and has neither taken a token nor timed out.
  `AtClientImplementsChannel` maps each step to one of `CommandChannel` or a stutter.
  `TokenInv` is why an `exec` that begins with no command unanswered is *fresh* until
  a call times out, `CleanInv` why a fresh call settles on what the modem said, and
  `Unsaid` (a caller between its calls has no answer) why a call begins with none.
- **`Executor_proofs`**, second part - `ExecutorBitsAreOwned`, from `EInv == IInv /\
  AllocInv /\ Fresh`, with the invariant `IInv` of the first part. `AllocInv`: an Event
  between the two halves of `bits.reset` still holds the word that it has read, and
  one about to dispose of its set finds it empty. `Fresh`: a job whose
  Deliver exists was posted or is being posted, so that `MakeDeliver` never allocates
  an Event for a Deliver that has one. `Least` (the lowest free bit exists) comes from
  the well-foundedness of the numbers. `ExecutorEventLivesWithDeliver` and
  `ExecutorRaceNeedsTwoClients` come from `FInv`, which says who may be freeing an
  Event: the client at the end of an `exec` has posted that job after all its others,
  and what it frees has been served. Hence the jobs whose Deliver changes a bitset
  under it are another client's.
- **`Executor_proofs`**, third part - `ExecutorListSound` and `ExecutorNoDeliverLeak`, for
  any finite set of jobs. That the nodes can be reached along `nxt` says nothing
  that a step could be checked against; `ListInv` says instead that there *is* a
  sequence of jobs, `Chained`, that the links spell out in both directions, but for a
  node amid its `push_back`, and every action names the sequence after it (appended to,
  or with one member cut out). That no Deliver stays behind needs in addition that a
  client frees only what was served (`DoneBegun`).
  `ExecutorListNamesLivingSets`: the list of sets holds each living set once; `remove_if`
  (`Remaining`) is followed along the list by what it keeps of each prefix.
- **`CplxAt_proofs`** - `CplxAtWalkNeedsQuiet`, `CplxAtOneInstancePerTurn`,
  `CplxAtUrcsAddedOnce`, from `IInv == Types0 /\ Ids /\ Told /\ (~overlap => Clean)`. `Told`
  holds with two makers as well: what `expired` found alive still lives when it is
  locked, or a death during a walk was noted (`LetGoTells`). The heart of `Clean`
  is `Scanning`: no living component of the wanted type lies behind the iterator, which
  erasing the entry under it must preserve, and which a null `currComp` does not disturb,
  since what it stands for is dead and nothing is revived (`LockKeepsLive`, `LessLives`); with
  `Listing` (the list names each living
  component once, but for the one being made) the walk proves the type absent.
  `Added` ties the static flags to the table and to the thread that is between them.
- **`Urc_proofs`**, first part - `UrcTypeOK`, `UrcTornNeedsCause`, `UrcAddedIsListed`, from `IInv ==
  TypeOK /\ WantOK /\ (~overlap /\ ~lost => Clean)`. `Clean`: one thread is inside,
  `Whole` (the table is allocated, as long as `urc_table_size` and made of types, all
  those done among them), and for the one inside what each of its places has reached
  (`Progress`): the copy is the table, the new block is as long as the copy and one more.
- **`Urc_proofs`**, second part - `UrcFieldsFindParameters`, for lines of any number of
  pieces. Parameter *k* reads field *k* less the emitters before it (`IndexIsOwn`, from
  the cardinality of an interval); `FieldIs` says what `split` with its limit makes of
  that field, whether the line has as many pieces as parameters, one fewer or more;
  `OwnIs` what the parameter is meant to get.
- **`Http_proofs`** - `HttpTypeOK`, `HttpOneFlowPerSlot`, `HttpResponseIsWhole`,
  `HttpLeftoverNeedsFailure`. `OneFlowPerSlot` alone is not inductive: `OneUser` says
  that a slot is used by one thread from `createFlow` to the end of `~Flow` and that the
  slot holds its Flow. `CreateIsLast` is the reason why late lines of earlier sends do
  no harm: behind the HTTPCREATE of a Flow no command for its slot is on its way, so that
  the modem, once it has obeyed, has forgotten all earlier requests. From then on
  `Kept` holds: what the modem has yet to do on the slot is what this Flow has asked for,
  what has come and what is to come make up the answer or its rest is lost, and a
  bit that was clear when `send` began is set only by the last line. `AllTidy` adds that
  without failures every bit has a Flow that waits for it.
- **`Devices_proofs`**, *Rc522* - `Rc522TypeOK`, `Rc522SteadyCardStays`, `Rc522ReportIsTrue`, from
  `TypeOK`, `PlaceInv` (what the chip has done at each place of the callback),
  `SeenInv` (a card number in the FIFO is of a card seen during the callback) and
  `SteadyInv` (with no fault and no move since the report the second silent request
  in a row does not happen: a silence leaves the card asleep, and the next request
  is answered). The proof needs no bound on what the uninitialized failure
  count held: it was found that the range first written for it was not inductive.

- **`Devices_proofs`**, *LoadDetector* - `LoadDetectorOnNeedsPulses` and
  `LoadDetectorMissedAtMostOnce`, for any ring, window, ratio and times of interrupts,
  under `MaxTime < TickMod`: in the first turn of the counter. The run
  `LoadDetectorWrap` shows that the first is false without that hypothesis. The
  invariant `RingInv` says what the indices mean; beside it there is an assignment of
  slots to interrupts (`Writes`) such that each slot holds the last interrupt
  that was written to it and any *N* in a row go to different slots. With it the
  count of the callback, which a `Pulse` may change at any place, is set against the set of
  the interrupts in the window.
- **`Devices_proofs`**, *Mqtt* - `MqttTypesHold`, `MqttResultIsOwn`,
  `MqttMessagesGoHome`, from `MqttInv`. As in Http a slot has one user (`OneUserEach`)
  and the modem works only for present users (`ModemIsPresent`). What differs is how
  the past is forgotten: `~Client` disconnects, nothing follows that command
  (`DiscIsLast`), and a modem that has obeyed it has nothing left for the slot (`Obeys`),
  so the next user starts with a slot on which nothing is announced, and a Client that is
  gone is one whose connection has ended. `Faithful` drops these
  when `exec` has lied or a slot was shared; where the Flows are is kept without.
- **`SoftTimer_proofs`** - `SoftTimerTypeOK`, `SoftTimerRunningIsListed` and
  `SoftTimerTornNeedsLateUser` from `TInv`: a timer is in one place at a time (`Apart`),
  `running` is true of those that are somewhere (`Marks`), and only objects that were
  constructed have started one (`Owners`). `SoftTimerNeverEarly` adds `Early`: a timer
  on the list lacks no more ticks than until its due time, modulo `Mod`.
  `SoftTimerSleepsUntilDue` needs `Timely`: the list is in the order of the *signed*
  distance of its timers from the tick (`Distance`), no timer is further behind than
  the rounds done since allow (`Behind`), and the thread timer wakes the thread for
  the first one (`Alarm`). Distances are signed numbers only if no timer is half a turn
  away, which is the hypothesis `RoundsAreShort`: the longest period and two rounds of the
  timer thread together take at most half of the 2^32 ticks.

One thing was found by proving. `SleepsUntilDue` does not hold of a user that is
preempted for half a turn of the tick between the two halves of `rt_timer_start`: the timer
that it has put on the list then counts as one of the future. `MaxLag` therefore
bounds these ticks as well as those of a round (`Idle`, `lag`).

Every safety property of a passing run is the subject of a theorem. Only
model-checked is liveness (the fairness part of `ImplementsMailbox` and of
`ImplementsChannel`, `ExecIsServed`, `SendEnds`, `GoneCardIsDropped`, `OtherTimersRun`, `IsCalled`), which
needs ENABLED; and that the two findings' properties are violated, for which a
behaviour of a small instance is enough. What an induction over data would show
is had otherwise, by a witness that every step carries along (the sequence of `Chained`,
the assignment of `Writes`) or by the least counterexample (`Least`). The type
invariants were checked while they were written and are not repeated in every run.

## 7. Not modelled, and abstractions to keep in mind

- The kernel but for its soft timers and `rt_realloc` (mutexes, semaphores, events, the
  scheduler) and the drivers are taken as their callers use them; failures of
  `rt_event_create` and of allocation are left out, except for the URC table.
- Most of the repository is vendored (RT-Thread with its file systems, network stacks and
  board packages, the STM32 HAL, CMSIS device headers): some 830 000 lines that the
  firmware does not contain or that it uses through a handful of calls. They are not
  modelled, and the share of all lines that the models stand for is therefore tiny;
  what counts is the firmware's own code, a few thousand lines.
- The AT parser's assembly of lines from bytes and its CLI mode; `Deliver`s of the
  long-term kind and results through `Signals`.
- `Observable`, `Relay`, `OutputPin`, `Timeout`, `Uart`: every Observable is assigned from
  one thread, `Timeout` is used by the UART only, and nothing uses the UART.
- `SoftTimer`: the destructor of `Timer` (the repository's timers live for ever), and
  callbacks that start or stop timers (none does).
- `Http`: the exceptions of `Flow::send` for headers that are not empty (`http.cxx:67-72`) and
  for a URL of another scheme. They leave `send` where a failed command does.
- `CplxAt`: `push_back` and `erase` are one step each, so that two makers never meet inside a
  half-linked node; what a freed node would tell the walk is not followed.
- Texts: URLs, hexadecimal bodies, the format of commands. A line is identified by the
  command it answers and its number.
- `Http`, `Mqtt`: what `exec` reports may be wrong (a stale token), and then `wrongOk`
  is set; the properties about answers exclude it, `SendEnds` and the types do not.
- `Rc522`: 1000 polls outlast the 15 ms timer of the chip, so the count runs out
  only when the chip hangs; a bit that comes exactly at the last poll is left out.
- Bit timing of `Ws2812` and `Wtn6`, constants of boards and registers, shell commands,
  build scripts.

## 8. Plan

1. *Done*: `Queue`/`Mailbox`, `Executor`, `EventAllocator`, `AtClient`, its users
   `CplxAt`, `Urc`, `Http`, `Mqtt`, the timers `SoftTimer`, and the devices
   `LoadDetector` and `Rc522`; proofs of the safety properties of all of them.
2. *Abstract specifications*: `Mailbox` and `CommandChannel` are implemented, with the
   proof of each step. Next: `Http` and `Mqtt` composed with `CommandChannel` itself
   instead of with the outcomes that it allows a command.
3. *Next theorems*: that composition; what `CommandChannel` carries over to its users.
