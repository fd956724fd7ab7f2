---------------------------- MODULE LoadDetector ----------------------------
(***************************************************************************)
(* LoadDetector (devices/load_detector.cxx): an interrupt handler stamps   *)
(* the rising edges of the mains frequency into a ring of ticks, and a     *)
(* periodic soft timer decides from the ring whether a load is connected.  *)
(* The handler can interrupt the timer's callback anywhere; nothing guards *)
(* the ring.  Callbacks start at any time, as the timer thread may be kept *)
(* waiting by the polling thread of the executor.                          *)
(*                                                                         *)
(* Devices_proofs is about this module and two more: names that they all   *)
(* need (DetectorInit, DetectorNext, ...) say whose they are.              *)
(***************************************************************************)
EXTENDS Integers, Sequences, FiniteSets

CONSTANTS
    N,          \* kArraySize
    W,          \* kDetectWndMs, in ticks
    Ratio,      \* kValidRatioPc
    TickMod,    \* the tick counter counts modulo this (2^32)
    OldTicks,   \* what the uninitialized array may hold
    MaxTime,    \* bound: ticks that pass
    MaxPulses   \* bound: interrupts

ASSUME DetectorAssumption ==
    /\ N \in Nat \ {0} /\ W \in Nat /\ Ratio \in 0 .. 100
    /\ TickMod \in Nat \ {0} /\ OldTicks \subseteq Nat /\ OldTicks # {}
    /\ MaxTime \in Nat /\ MaxPulses \in Nat

VARIABLES
    clock,    \* ticks since the start, without wrapping
    ticks,    \* the ring
    rear,     \* the index that the next interrupt writes
    fulled,   \* the ring has been filled once
    tpc,      \* where the callback is
    size,     \* how many entries the callback looks at
    now,      \* the clock when the callback read it
    i,        \* the entry it looks at next
    count,    \* the recent entries it has found
    state,    \* the verdict: "none", "on" or "off"
    pulses,   \* history: the clock at each interrupt
    known,    \* history: the interrupts before the callback fixed size
    misses    \* history: verdicts "off" in spite of enough recent pulses

ring == <<ticks, rear, fulled, pulses>>
run == <<tpc, size, now, i, count, state, known, misses>>
detectorVars == <<clock, ring, run>>

DetectorInit ==
    /\ clock = 0
    /\ ticks \in [0 .. N - 1 -> OldTicks]
    /\ rear = 0
    /\ fulled = FALSE
    /\ tpc = "idle"
    /\ size = 0
    /\ now = 0
    /\ i = 0
    /\ count = 0
    /\ state = "none"
    /\ pulses = <<>>
    /\ known = 0
    /\ misses = 0

Tick ==
    /\ clock < MaxTime
    /\ clock' = clock + 1
    /\ UNCHANGED <<ring, run>>

\* Mutant: a full ring counts as filled only until the index moves on.
PulseForgetsFull ==
    /\ Len(pulses) < MaxPulses
    /\ ticks' = [ticks EXCEPT ![rear] = clock % TickMod]
    /\ rear' = (rear + 1) % N
    /\ fulled' = (rear' = 0)
    /\ pulses' = Append(pulses, clock)
    /\ UNCHANGED <<clock, run>>

\* The interrupt handler, which nothing interrupts.
Pulse ==
    /\ Len(pulses) < MaxPulses
    /\ ticks' = [ticks EXCEPT ![rear] = clock % TickMod]
    /\ rear' = (rear + 1) % N
    /\ fulled' = (fulled \/ rear' = 0)
    /\ pulses' = Append(pulses, clock)
    /\ UNCHANGED <<clock, run>>

-----------------------------------------------------------------------------
\* Callback: size = kArraySize; if(!fulled) size = rear.  fulled and rear are
\* read one after the other.
ReadFulled ==
    /\ tpc = "idle"
    /\ \/ /\ fulled
          /\ size' = N
          /\ known' = Len(pulses)
          /\ tpc' = "now"
       \/ /\ ~fulled
          /\ tpc' = "rear"
          /\ UNCHANGED <<size, known>>
    /\ UNCHANGED <<clock, ring, now, i, count, state, misses>>

\* Mutant: the whole ring is looked at from the start.
ReadRearWhole ==
    /\ tpc = "rear"
    /\ size' = N
    /\ known' = Len(pulses)
    /\ tpc' = "now"
    /\ UNCHANGED <<clock, ring, now, i, count, state, misses>>

ReadRear ==
    /\ tpc = "rear"
    /\ size' = rear
    /\ known' = Len(pulses)
    /\ tpc' = "now"
    /\ UNCHANGED <<clock, ring, now, i, count, state, misses>>

\* Callback: now = rt_tick_get().
ReadNow ==
    /\ tpc = "now"
    /\ now' = clock
    /\ i' = 0
    /\ count' = 0
    /\ tpc' = "loop"
    /\ UNCHANGED <<clock, ring, size, state, known, misses>>

\* Callback: now - ticks[i] < kDetectWndMs, in 64-bit signed arithmetic.
Recent(k) == (now % TickMod) - ticks[k] < W

Visit ==
    /\ tpc = "loop"
    /\ i < size
    /\ count' = IF Recent(i) THEN count + 1 ELSE count
    /\ i' = i + 1
    /\ UNCHANGED <<clock, ring, tpc, size, now, state, known, misses>>

Threshold == (N * Ratio) \div 100

\* The pulses of the last W ticks before now, among those that some range of
\* interrupts brought.
RecentPulses(range) == {k \in range : pulses[k] > now - W}

Publish ==
    /\ tpc = "loop"
    /\ i = size
    /\ state' = IF count >= Threshold THEN "on" ELSE "off"
    /\ misses' = IF /\ count < Threshold
                    /\ Cardinality(RecentPulses(1 .. known)) >= Threshold
                 THEN misses + 1 ELSE misses
    /\ i' = 0
    /\ count' = 0
    /\ tpc' = "idle"
    /\ UNCHANGED <<clock, ring, size, now, known>>

OnRun == ReadFulled \/ ReadRear \/ ReadNow \/ Visit \/ Publish

DetectorNext == Tick \/ Pulse \/ OnRun

DetectorSpec == DetectorInit /\ [][DetectorNext]_detectorVars

-----------------------------------------------------------------------------
DetectorTypeOK ==
    /\ clock \in 0 .. MaxTime
    /\ ticks \in [0 .. N - 1 -> Nat]
    /\ rear \in 0 .. N - 1
    /\ fulled \in BOOLEAN
    /\ tpc \in {"idle", "rear", "now", "loop"}
    /\ size \in 0 .. N
    /\ now \in 0 .. MaxTime
    /\ i \in 0 .. size
    /\ count \in 0 .. i
    /\ state \in {"none", "on", "off"}
    /\ pulses \in Seq(0 .. MaxTime)
    /\ known \in 0 .. MaxPulses
    /\ misses \in Nat

\* A load is reported only if enough pulses have come since kDetectWndMs before
\* the callback read the clock; with fewer the signal is invalid
\* (devices/load_detector.hxx:17-18, devices/load_detector.cxx:23-29).
OnNeedsPulses ==
    tpc = "idle" /\ state = "on" =>
        Cardinality(RecentPulses(1 .. Len(pulses))) >= Threshold

\* A connected load is missed at most once in the life of a detector: only an
\* interrupt that fills the ring for the first time, between the reads of fulled
\* and rear, can make a callback look at fewer entries than have been written
\* (devices/load_detector.cxx:20-22 against 10-15).
MissedAtMostOnce == misses <= 1
=============================================================================
