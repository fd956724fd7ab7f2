--------------------------- MODULE Devices_proofs ---------------------------
(***************************************************************************)
(* Proofs about three of the devices.                                      *)
(*                                                                         *)
(* Rc522: its types with the bound of the failure count, that only cards   *)
(* on the reader are reported, and that a steady card stays reported, for  *)
(* any cards, any field and any garbage in the count.                      *)
(*                                                                         *)
(* LoadDetector: that a load is reported only for enough interrupts and    *)
(* missed at most once, for any ring, window, ratio, times of interrupts   *)
(* and interleaving, in the first turn of the tick counter.                *)
(*                                                                         *)
(* Mqtt: its types, that a call returns the result of its own connection,  *)
(* and that messages reach the living Client of the connection, for any    *)
(* threads, slots, and a modem that is late, forgets commands or is reset. *)
(***************************************************************************)
EXTENDS Rc522, LoadDetector, Mqtt, SequenceTheorems, FiniteSetTheorems, TLAPS

-----------------------------------------------------------------------------
(* The RFID reader *)

InCallback == pc \in {"send", "poll", "polled"}

\* The chip transceives only between Send and the end of the command, and the
\* anticollision follows a request that was answered.
PlaceInv ==
    /\ cmd = "transceive" => pc \in {"poll", "polled"}
    /\ cmd = "reset" => pc \in {"boot", "reset"}
    /\ InCallback /\ phase = "anticoll" => fails = 0
    /\ pc \in {"off", "boot"} => cardId = NoCard

\* What the FIFO holds, and what is on the reader, has been seen by the callback.
SeenInv ==
    /\ InCallback /\ field # NoCard => field \in seen
    /\ InCallback /\ fifo \in Cards /\ pc # "send" => fifo \in seen

\* The command of the callback, as long as nothing has excused a failure: not yet
\* decided; unanswered, by a card that now starts afresh; or answered.
Undecided == irq = {} /\ (fails = 1 => ~awake) /\ (phase = "anticoll" => awake)

Unanswered == irq = {"timer"} /\ phase = "request" /\ fails = 0 /\ ~awake

Heard == irq = {"rx"} /\ awake /\ (phase = "anticoll" => fifo = field)

SteadyInv ==
    ~excused /\ cardId # NoCard =>
        /\ field = cardId
        /\ pc \in {"idle", "reset", "send"} /\ fails = 1 => ~awake
        /\ pc = "send" /\ phase = "anticoll" => awake
        /\ pc = "poll" => ~err /\ (Undecided \/ Unanswered \/ Heard)
        /\ pc = "polled" => ~err /\ irqVal = irq /\ (Unanswered \/ Heard)
        /\ hung /\ InCallback => phase = "request" /\ pc # "polled"
        /\ hung /\ pc = "poll" => irq = {}

IInv == TypeOK /\ PlaceInv /\ SeenInv /\ SteadyInv

-----------------------------------------------------------------------------
LEMMA IInvInit == Init => IInv
  <1> SUFFICES ASSUME Init PROVE IInv
    OBVIOUS
  <1>1. due \in Seq(Timers)
    BY EmptySeq DEF Init
  <1>2. /\ fails \in Int
        /\ moves \in 0 .. MaxMoves /\ faults \in 0 .. MaxFaults
    BY Rc522Assumption DEF Init
  <1>3. TypeOK
    BY <1>1, <1>2 DEF Init, TypeOK
  <1> QED
    BY <1>3 DEF Init, IInv, PlaceInv, SeenInv, SteadyInv, InCallback

-----------------------------------------------------------------------------
\* Every step keeps the types and the bound of the failure count.
LEMMA TypeNext ==
    ASSUME TypeOK, PlaceInv, [Next]_vars
    PROVE  TypeOK'
  <1> USE Rc522Assumption DEF TypeOK, PlaceInv, InCallback
  <1>1. ASSUME NEW x \in Timers, Elapse(x) PROVE TypeOK'
    <2>1. due' \in Seq(Timers)
      BY <1>1, AppendProperties DEF Elapse
    <2> QED
      BY <1>1, <2>1 DEF Elapse, driver, chip, world
  <1>2. CASE RunOther
    <2>1. due' \in Seq(Timers)
      BY <1>2, HeadTailProperties DEF RunOther
    <2> QED
      BY <1>2, <2>1 DEF RunOther, driver, chip, world
  <1>3. CASE RunRc522
    <2>1. due' \in Seq(Timers)
      BY <1>3, HeadTailProperties DEF RunRc522
    <2> QED
      BY <1>3, <2>1 DEF RunRc522, chip, world
  <1>4. CASE Boot
    BY <1>4 DEF Boot, StartReset
  <1>5. CASE ResetEnds
    BY <1>5 DEF ResetEnds, chip, world
  <1>6. CASE Send
    BY <1>6 DEF Send, world
  <1>7. CASE Poll
    BY <1>7 DEF Poll, chip, world
  <1>8. CASE PollTimeout
    BY <1>8 DEF PollTimeout, StartReset
  <1>9. CASE NoAnswer
    <2>1. fails' \in Int
      BY <1>9 DEF NoAnswer
    <2>2. cardId' = NoCard \/ (cardId' = cardId /\ ~(fails + 1 > 1))
      BY <1>9 DEF NoAnswer
    <2>3. cardId' # NoCard => fails' \in {0, 1}
      <3> SUFFICES ASSUME cardId' # NoCard PROVE fails' = 1
        OBVIOUS
      <3>1. fails \in {0, 1} /\ ~(fails + 1 > 1)
        BY <2>2
      <3>2. fails = 0
        BY <3>1
      <3> QED
        BY <1>9, <3>2 DEF NoAnswer
    <2> QED
      BY <1>9, <2>1, <2>2, <2>3 DEF NoAnswer, world
  <1>10. CASE RequestError
    BY <1>10 DEF RequestError, StartReset
  <1>11. CASE Answered
    BY <1>11 DEF Answered, world
  <1>12. CASE CardNumber
    BY <1>12 DEF CardNumber, world
  <1>13. CASE ChipReady
    BY <1>13 DEF ChipReady, driver, world
  <1>14. CASE Answer
    BY <1>14 DEF Answer, Addressed, driver
  <1>15. CASE Silence
    <2>1. irq' \subseteq {"timer", "rx"} /\ awake' \in BOOLEAN
      BY <1>15 DEF Silence
    <2>2. UNCHANGED <<driver, due, cmd, hung, err, fifo, field, moves, faults, seen,
                      excused>>
      BY <1>15 DEF Silence
    <2> QED
      BY <2>1, <2>2 DEF driver
  <1>16. CASE AnswerLost
    BY <1>16 DEF AnswerLost, Fault, driver
  <1>17. CASE AnswerGarbled
    BY <1>17 DEF AnswerGarbled, Fault, driver
  <1>18. CASE Hang
    BY <1>18 DEF Hang, Fault, driver
  <1>19. ASSUME NEW c \in Cards \cup {NoCard}, Move(c) PROVE TypeOK'
    <2>1. seen' \subseteq Cards /\ moves' \in 0 .. MaxMoves
      BY <1>19 DEF Move
    <2>2. /\ field' = c /\ awake' = FALSE /\ excused' = TRUE
          /\ UNCHANGED <<driver, due, chip, faults>>
      BY <1>19 DEF Move
    <2>3. field' \in Cards \cup {NoCard} /\ awake' \in BOOLEAN /\ excused' \in BOOLEAN
      BY <1>19, <2>2
    <2>4. UNCHANGED <<pc, phase, cardId, fails, irqVal, due, cmd, hung, irq, err, fifo,
                      faults>>
      BY <2>2 DEF driver, chip
    <2> QED
      BY <2>1, <2>3, <2>4
  <1>20. CASE UNCHANGED vars
    BY <1>20 DEF vars, driver, chip, world
  <1> QED
    BY <1>1, <1>2, <1>3, <1>4, <1>5, <1>6, <1>7, <1>8, <1>9, <1>10, <1>11, <1>12,
       <1>13, <1>14, <1>15, <1>16, <1>17, <1>18, <1>19, <1>20
       DEF Next, Callback, World

-----------------------------------------------------------------------------
\* Every step keeps the order of the places.
LEMMA PlaceNext ==
    ASSUME TypeOK, PlaceInv, [Next]_vars
    PROVE  PlaceInv'
  <1> USE Rc522Assumption DEF TypeOK, PlaceInv, InCallback
  <1>1. ASSUME NEW x \in Timers, Elapse(x) PROVE PlaceInv'
    BY <1>1 DEF Elapse, driver, chip
  <1>2. CASE RunOther \/ RunRc522
    BY <1>2 DEF RunOther, RunRc522, driver, chip
  <1>3. CASE Boot \/ ResetEnds
    BY <1>3 DEF Boot, ResetEnds, StartReset, chip
  <1>4. CASE Send \/ Poll
    BY <1>4 DEF Send, Poll, chip
  <1>5. CASE PollTimeout
    BY <1>5 DEF PollTimeout, StartReset
  <1>6. CASE NoAnswer \/ RequestError
    BY <1>6 DEF NoAnswer, RequestError, StartReset
  <1>7. CASE Answered \/ CardNumber
    BY <1>7 DEF Answered, CardNumber
  <1>8. CASE ChipReady \/ Answer \/ Silence
    BY <1>8 DEF ChipReady, Answer, Silence, driver
  <1>9. CASE AnswerLost \/ AnswerGarbled \/ Hang
    BY <1>9 DEF AnswerLost, AnswerGarbled, Hang, Fault, driver
  <1>10. ASSUME NEW c \in Cards \cup {NoCard}, Move(c) PROVE PlaceInv'
    BY <1>10 DEF Move, driver, chip
  <1>11. CASE UNCHANGED vars
    BY <1>11 DEF vars, driver, chip
  <1> QED
    BY <1>1, <1>2, <1>3, <1>4, <1>5, <1>6, <1>7, <1>8, <1>9, <1>10, <1>11
       DEF Next, Callback, World

\* Every step keeps what has been seen.
LEMMA SeenNext ==
    ASSUME TypeOK, PlaceInv, SeenInv, [Next]_vars
    PROVE  SeenInv'
  <1> USE Rc522Assumption DEF TypeOK, PlaceInv, SeenInv, InCallback
  <1>1. ASSUME NEW x \in Timers, Elapse(x) PROVE SeenInv'
    BY <1>1 DEF Elapse, driver, chip, world
  <1>2. CASE RunOther \/ RunRc522
    BY <1>2 DEF RunOther, RunRc522, driver, chip, world
  <1>3. CASE Boot \/ ResetEnds
    BY <1>3 DEF Boot, ResetEnds, StartReset, chip, world
  <1>4. CASE Send
    BY <1>4 DEF Send, world, Empty
  <1>5. CASE Poll
    BY <1>5 DEF Poll, chip, world
  <1>6. CASE PollTimeout
    BY <1>6 DEF PollTimeout, StartReset
  <1>7. CASE NoAnswer \/ RequestError
    BY <1>7 DEF NoAnswer, RequestError, StartReset, world
  <1>8. CASE Answered \/ CardNumber
    BY <1>8 DEF Answered, CardNumber, world
  <1>9. CASE ChipReady
    BY <1>9 DEF ChipReady, driver, world, Empty
  <1>10. CASE Answer
    BY <1>10 DEF Answer, Listening, Addressed, driver, Atqa
  <1>11. CASE Silence
    BY <1>11 DEF Silence, driver
  <1>12. CASE AnswerLost \/ AnswerGarbled \/ Hang
    BY <1>12 DEF AnswerLost, AnswerGarbled, Hang, Fault, driver, Garbled
  <1>13. ASSUME NEW c \in Cards \cup {NoCard}, Move(c) PROVE SeenInv'
    BY <1>13 DEF Move, driver, chip
  <1>14. CASE UNCHANGED vars
    BY <1>14 DEF vars, driver, chip, world
  <1> QED
    BY <1>1, <1>2, <1>3, <1>4, <1>5, <1>6, <1>7, <1>8, <1>9, <1>10, <1>11, <1>12,
       <1>13, <1>14
       DEF Next, Callback, World

-----------------------------------------------------------------------------
\* Every step that the command of a steady card can take keeps it on its way.
LEMMA SteadyNext ==
    ASSUME TypeOK, PlaceInv, SteadyInv, [Next]_vars
    PROVE  SteadyInv'
  <1> USE Rc522Assumption DEF TypeOK, PlaceInv, SteadyInv, InCallback, Undecided,
                              Unanswered, Heard
  <1>1. ASSUME NEW x \in Timers, Elapse(x) PROVE SteadyInv'
    BY <1>1 DEF Elapse, driver, chip, world
  <1>2. CASE RunOther
    BY <1>2 DEF RunOther, driver, chip, world
  <1>3. CASE RunRc522
    BY <1>3 DEF RunRc522, chip, world
  <1>4. CASE Boot
    BY <1>4 DEF Boot, StartReset
  <1>5. CASE ResetEnds
    BY <1>5 DEF ResetEnds, chip, world
  <1>6. CASE Send
    BY <1>6 DEF Send, world
  <1>7. CASE Poll
    BY <1>7 DEF Poll, chip, world
  <1>8. CASE PollTimeout
    BY <1>8 DEF PollTimeout, StartReset
  <1>9. CASE NoAnswer
    <2> SUFFICES ASSUME ~excused', cardId' # NoCard
                 PROVE  SteadyInv'
      OBVIOUS
    <2>1. /\ pc = "polled" /\ pc' = "idle" /\ ~excused
          /\ "timer" \in irqVal
          /\ cardId' = cardId
          /\ UNCHANGED <<awake, field, hung>>
      BY <1>9 DEF NoAnswer, world
    <2>2. field = cardId /\ irqVal = irq /\ (Unanswered \/ Heard)
      BY <2>1
    <2>3. "timer" \notin {"rx"}
      OBVIOUS
    <2>4. ~awake
      BY <2>1, <2>2, <2>3
    <2> QED
      BY <2>1, <2>2, <2>4
  <1>10. CASE RequestError
    BY <1>10 DEF RequestError, StartReset
  <1>11. CASE Answered
    BY <1>11 DEF Answered, world
  <1>12. CASE CardNumber
    <2> SUFFICES ASSUME ~excused', cardId' # NoCard
                 PROVE  SteadyInv'
      OBVIOUS
    <2>1. excused' = (cardId' # field)
      BY <1>12 DEF CardNumber
    <2>2. cardId' = field
      BY <2>1
    <2>3. pc' = "idle" /\ fails' = 0 /\ field' = field
      BY <1>12 DEF CardNumber, world
    <2> QED
      BY <2>2, <2>3
  <1>13. CASE ChipReady
    BY <1>13 DEF ChipReady, driver, world
  <1>14. CASE Answer
    BY <1>14 DEF Answer, Listening, Addressed, driver
  <1>15. CASE Silence
    BY <1>15 DEF Silence, Listening, Addressed, driver
  <1>16. CASE AnswerLost \/ AnswerGarbled \/ Hang
    BY <1>16 DEF AnswerLost, AnswerGarbled, Hang, Fault
  <1>17. ASSUME NEW c \in Cards \cup {NoCard}, Move(c) PROVE SteadyInv'
    BY <1>17 DEF Move
  <1>18. CASE UNCHANGED vars
    BY <1>18 DEF vars, driver, chip, world
  <1> QED
    BY <1>1, <1>2, <1>3, <1>4, <1>5, <1>6, <1>7, <1>8, <1>9, <1>10, <1>11, <1>12,
       <1>13, <1>14, <1>15, <1>16, <1>17, <1>18
       DEF Next, Callback, World

-----------------------------------------------------------------------------
\* The inductive invariant holds, for any set of cards and any initial value of
\* contiReqFailedCnt (devices/rc522.cxx:26-60).
THEOREM Rc522Invariant == Spec => []IInv
  <1>1. IInv /\ [Next]_vars => IInv'
    BY TypeNext, PlaceNext, SeenNext, SteadyNext DEF IInv
  <1> QED
    BY IInvInit, <1>1, PTL DEF Spec

\* The types, and at most one counted failure while a card is reported
\* (devices/rc522.cxx:38-50).
THEOREM Rc522TypeOK == Spec => []TypeOK
  <1>1. IInv => TypeOK
    BY DEF IInv
  <1> QED
    BY Rc522Invariant, <1>1, PTL

\* A card that stays on the reader is neither dropped nor mistaken for another as
\* long as no answer is lost and the chip works (devices/rc522.cxx:38-44).
THEOREM Rc522SteadyCardStays == Spec => SteadyCardStays
  <1>1. ASSUME IInv, [Next]_vars, cardId # NoCard, cardId' # cardId
        PROVE  excused
    <2> SUFFICES ASSUME ~excused PROVE FALSE
      OBVIOUS
    <2> USE <1>1 DEF IInv, TypeOK, PlaceInv, SteadyInv, InCallback, Undecided,
                     Unanswered, Heard
    <2>1. Callback
      BY DEF Next, World, Elapse, Boot, ChipReady, Answer, Silence, AnswerLost,
             AnswerGarbled, Hang, Fault, Move, vars, driver
    <2>2. ~RunOther /\ ~RunRc522 /\ ~ResetEnds /\ ~Send /\ ~Poll /\ ~RequestError
          /\ ~Answered
      BY DEF RunOther, RunRc522, ResetEnds, Send, Poll, RequestError, Answered, driver
    <2>3. CASE PollTimeout
      BY <2>3 DEF PollTimeout
    <2>4. CASE NoAnswer
      <3>1. /\ "timer" \in irqVal /\ pc = "polled"
            /\ cardId' = IF fails + 1 > 1 THEN NoCard ELSE cardId
        BY <2>4 DEF NoAnswer
      <3>2. "timer" \notin {"rx"}
        OBVIOUS
      <3>3. fails = 0
        BY <3>1, <3>2
      <3> QED
        BY <3>1, <3>3
    <2>5. CASE CardNumber
      <3>1. /\ pc = "polled" /\ phase = "anticoll"
            /\ cardId' = IF ~err /\ "timer" \notin irqVal /\ fifo \in Cards
                         THEN fifo ELSE NoCard
        BY <2>5 DEF CardNumber
      <3>2. Heard /\ ~err /\ irqVal = {"rx"} /\ fifo = field /\ field = cardId
        BY <3>1
      <3>3. "timer" \notin irqVal /\ fifo \in Cards
        BY <3>2
      <3> QED
        BY <3>1, <3>2, <3>3
    <2> QED
      BY <2>1, <2>2, <2>3, <2>4, <2>5 DEF Callback
  <1> QED
    BY <1>1, Rc522Invariant, PTL DEF Spec, SteadyCardStays

\* Only a card that was on the reader during the callback is reported
\* (devices/rc522.cxx:142-148, 197-211).
THEOREM Rc522ReportIsTrue == Spec => ReportIsTrue
  <1>1. ASSUME IInv, [Next]_vars,
               \/ pc = "polled" /\ phase = "anticoll" /\ pc' = "idle"
               \/ cardId' # cardId
        PROVE  cardId' \in seen \cup {NoCard}
    <2> USE DEF IInv, TypeOK, PlaceInv, SeenInv, InCallback
    <2>1. CASE CardNumber
      BY <1>1, <2>1 DEF CardNumber
    <2>2. CASE PollTimeout \/ NoAnswer
      BY <1>1, <2>2 DEF PollTimeout, NoAnswer
    <2>3. CASE ~CardNumber /\ ~PollTimeout /\ ~NoAnswer
      BY <1>1, <2>3 DEF Next, World, Callback, Elapse, Boot, ChipReady, Answer, Silence,
             AnswerLost, AnswerGarbled, Hang, Fault, Move, vars, driver, RunOther,
             RunRc522, ResetEnds, Send, Poll, RequestError, Answered
    <2> QED
      BY <2>1, <2>2, <2>3
  <1> QED
    BY <1>1, Rc522Invariant, PTL DEF Spec, ReportIsTrue

-----------------------------------------------------------------------------
(* The load detector: what the ring holds *)

\* The interrupt that the slot k of the ring was last written by.
At(k) ==
    IF k < rear THEN Len(pulses) - (rear - 1 - k) ELSE Len(pulses) - (rear - 1 - k + N)

Written(k) == fulled \/ k < rear

\* Between its runs the callback has no index and no count.
Rests ==
    /\ tpc # "loop" => i = 0 /\ count = 0
    /\ Len(pulses) <= MaxPulses

\* The ring is filled by the first N interrupts.
Turns ==
    /\ fulled => Len(pulses) >= N
    /\ ~fulled => rear = Len(pulses)

\* The interrupts come in time.
Times ==
    /\ \A p, q \in 1 .. Len(pulses) : p <= q => pulses[p] <= pulses[q]
    /\ \A q \in 1 .. Len(pulses) : pulses[q] <= clock
    /\ now <= clock

\* The callback looks at nothing that was not written.
Reading ==
    tpc \in {"now", "loop"} =>
        /\ \A k \in 0 .. size - 1 : Written(k)
        /\ known <= Len(pulses)

\* The facts about the ring that name no interrupt.
RingInv == DetectorTypeOK /\ Rests /\ Turns /\ Times /\ Reading

\* The interrupt p wrote the slot s[p]; each slot holds the last one that did, and N
\* interrupts in a row write N slots.
Writes(s) ==
    /\ s \in [1 .. Len(pulses) -> 0 .. N - 1]
    /\ \A k \in 0 .. N - 1 : Written(k) => s[At(k)] = k /\ ticks[k] = pulses[At(k)] % TickMod
    /\ \A p \in 1 .. Len(pulses) : p <= At(s[p])
    /\ \A p, q \in 1 .. Len(pulses) : p < q /\ q - p < N => s[p] # s[q]

\* Numbers of the detector.
LEMMA DetectorNumbers ==
    ASSUME DetectorTypeOK
    PROVE  /\ N \in Nat /\ 1 <= N /\ W \in Nat /\ TickMod \in Nat \ {0}
           /\ rear \in Int /\ 0 <= rear /\ rear < N
           /\ clock \in Nat /\ now \in Nat /\ clock <= MaxTime /\ now <= MaxTime
           /\ MaxTime \in Nat
           /\ size \in Nat /\ i \in Nat /\ count \in Nat /\ i <= size /\ size <= N
           /\ known \in Nat /\ misses \in Nat
           /\ pulses \in Seq(Nat) /\ Len(pulses) \in Nat
           /\ \A p \in 1 .. Len(pulses) : pulses[p] \in Nat /\ pulses[p] <= MaxTime
  <1>1. pulses \in Seq(0 .. MaxTime) /\ Len(pulses) \in Nat
    BY LenProperties DEF DetectorTypeOK
  <1>2. \A p \in 1 .. Len(pulses) : pulses[p] \in 0 .. MaxTime
    BY <1>1, ElementOfSeq
  <1> QED
    BY <1>1, <1>2, DetectorAssumption DEF DetectorTypeOK

\* The next slot.
LEMMA NextSlot ==
    ASSUME DetectorTypeOK
    PROVE  /\ (rear + 1) % N = IF rear + 1 = N THEN 0 ELSE rear + 1
           /\ (rear + 1) % N \in 0 .. N - 1
  <1>1. N \in Nat /\ 1 <= N /\ rear \in Int /\ 0 <= rear /\ rear < N
    BY DetectorNumbers
  <1>2. PICK x \in Int : x = rear + 1
    BY <1>1
  <1>3. 0 <= x /\ x < N + N
    BY <1>1, <1>2
  <1>4. x % N = IF x < N THEN x ELSE x - N
    BY <1>1, <1>2, <1>3
  <1> QED
    BY <1>1, <1>2, <1>4

\* A clock that is less than a turn is stamped as it is.
LEMMA Stamp ==
    ASSUME MaxTime < TickMod, NEW x \in 0 .. MaxTime
    PROVE  x % TickMod = x
  BY DetectorAssumption

\* Another interrupt.
LEMMA PulseAdds ==
    ASSUME DetectorTypeOK, Pulse
    PROVE  /\ Len(pulses') = Len(pulses) + 1
           /\ pulses' \in Seq(0 .. MaxTime)
           /\ \A p \in 1 .. Len(pulses) : pulses'[p] = pulses[p]
           /\ pulses'[Len(pulses) + 1] = clock
  <1>1. pulses' = Append(pulses, clock) /\ pulses \in Seq(0 .. MaxTime) /\ clock \in 0 .. MaxTime
    BY DEF Pulse, DetectorTypeOK
  <1> QED
    BY <1>1, AppendProperties

\* No step makes the callback look at a slot that was not written.
LEMMA RingInvNext == RingInv /\ [DetectorNext]_detectorVars => RingInv'
  <1> SUFFICES ASSUME RingInv, [DetectorNext]_detectorVars PROVE RingInv'
    OBVIOUS
  <1> USE DEF ring, run
  <1>1. DetectorTypeOK /\ Rests /\ Turns /\ Times /\ Reading
    BY DEF RingInv
  <1>2. CASE Pulse
    <2>1. /\ UNCHANGED <<clock, tpc, size, now, i, count, state, known, misses>>
          /\ ticks' = [ticks EXCEPT ![rear] = clock % TickMod]
          /\ fulled' = (fulled \/ rear' = 0)
          /\ Len(pulses) < MaxPulses
      BY <1>2 DEF Pulse
    <2>2. /\ rear' = IF rear + 1 = N THEN 0 ELSE rear + 1
          /\ rear' \in 0 .. N - 1
      BY <1>1, <1>2, NextSlot DEF Pulse
    <2>3. /\ Len(pulses') = Len(pulses) + 1 /\ pulses' \in Seq(0 .. MaxTime)
          /\ \A p \in 1 .. Len(pulses) : pulses'[p] = pulses[p]
          /\ pulses'[Len(pulses) + 1] = clock
      BY <1>1, <1>2, PulseAdds
    <2>4. clock % TickMod \in Nat
      BY <1>1, DetectorNumbers
    <2>5. DetectorTypeOK'
      BY <1>1, <2>1, <2>2, <2>3, <2>4 DEF DetectorTypeOK
    <2>6. Rests'
      BY <1>1, <2>1, <2>3, DetectorNumbers, DetectorAssumption DEF Rests
    <2>10. PICK n \in Nat : n = Len(pulses) /\ Len(pulses') = n + 1
      BY <1>1, <2>3, DetectorNumbers
    <2>11. N \in Nat /\ 1 <= N /\ rear \in Int /\ 0 <= rear /\ rear < N
      BY <1>1, DetectorNumbers
    <2>12. (fulled => fulled') /\ (rear' = 0 => fulled')
      BY <2>1, Zenon
    <2>7. Turns'
      <3>1. fulled => N <= n
        BY <1>1, <2>10 DEF Turns
      <3>2. ~fulled => rear = n
        BY <1>1, <2>10 DEF Turns
      <3>3. CASE rear + 1 = N
        <4>1. rear' = 0 /\ N <= n + 1
          BY <2>2, <2>10, <2>11, <3>1, <3>2, <3>3
        <4> QED
          BY <2>1, <2>10, <4>1 DEF Turns
      <3>4. CASE rear + 1 # N
        <4>1. rear' = rear + 1 /\ rear' # 0
          BY <2>2, <2>11, <3>4
        <4>2. CASE fulled
          BY <2>10, <2>11, <2>12, <3>1, <4>2 DEF Turns
        <4>3. CASE ~fulled
          BY <2>1, <2>10, <3>2, <4>1, <4>3 DEF Turns
        <4> QED
          BY <4>2, <4>3
      <3> QED
        BY <3>3, <3>4
    <2>8. Times'
      <3>1. \A p \in 1 .. n : pulses'[p] = pulses[p] /\ pulses[p] <= clock /\ pulses[p] \in Nat
        BY <1>1, <2>3, <2>10, DetectorNumbers DEF Times
      <3>2. \A p \in 1 .. n + 1 : pulses'[p] <= clock
        <4>1. \A p \in 1 .. n + 1 : p \in 1 .. n \/ p = n + 1
          BY <2>10
        <4>2. clock <= clock /\ pulses'[n + 1] = clock
          BY <1>1, <2>3, <2>10, DetectorNumbers
        <4> QED
          BY <3>1, <4>1, <4>2
      <3>3. ASSUME NEW p \in 1 .. n + 1, NEW q \in 1 .. n + 1, p <= q
            PROVE  pulses'[p] <= pulses'[q]
        <4>1. CASE q = n + 1
          BY <2>3, <2>10, <3>2, <4>1
        <4>2. CASE q \in 1 .. n
          BY <1>1, <2>10, <3>1, <3>3, <4>2 DEF Times
        <4> QED
          BY <4>1, <4>2
      <3> QED
        BY <1>1, <2>1, <2>10, <3>2, <3>3 DEF Times
    <2>9. Reading'
      <3>1. ASSUME NEW k \in 0 .. size - 1, Written(k)
            PROVE  Written(k)'
        <4>1. k \in Int /\ k < N
          BY <1>1, <2>11, DetectorNumbers
        <4>2. CASE fulled
          BY <2>1, <4>2 DEF Written
        <4>3. CASE k < rear
          BY <2>2, <2>11, <2>12, <4>1, <4>3 DEF Written
        <4> QED
          BY <3>1, <4>2, <4>3 DEF Written
      <3> QED
        BY <1>1, <2>1, <2>10, <3>1, DetectorNumbers DEF Reading
    <2> QED
      BY <2>5, <2>6, <2>7, <2>8, <2>9 DEF RingInv
  <1>3. CASE Tick
    BY <1>1, <1>3, DetectorNumbers
    DEF Tick, RingInv, DetectorTypeOK, Rests, Turns, Times, Reading, Written
  <1>4. CASE ReadFulled
    <2>1. 0 <= Len(pulses) /\ Len(pulses) \in 0 .. MaxPulses
      BY <1>1, DetectorNumbers, DetectorAssumption DEF Rests
    <2>2. DetectorTypeOK' /\ Rests' /\ Turns' /\ Times'
      BY <1>1, <1>4, <2>1, DetectorNumbers DEF ReadFulled, DetectorTypeOK, Rests, Turns, Times
    <2>3. Reading'
      BY <1>1, <1>4, DetectorNumbers DEF ReadFulled, Reading, Written
    <2> QED
      BY <2>2, <2>3 DEF RingInv
  <1>5. CASE ReadRear
    <2>1. Len(pulses) \in 0 .. MaxPulses
      BY <1>1, DetectorNumbers, DetectorAssumption DEF Rests
    <2>2. DetectorTypeOK' /\ Rests' /\ Turns' /\ Times'
      BY <1>1, <1>5, <2>1, DetectorNumbers DEF ReadRear, DetectorTypeOK, Rests, Turns, Times
    <2>3. Reading'
      BY <1>1, <1>5, DetectorNumbers DEF ReadRear, Reading, Written
    <2> QED
      BY <2>2, <2>3 DEF RingInv
  <1>6. CASE ReadNow
    BY <1>1, <1>6, DetectorNumbers
    DEF ReadNow, RingInv, DetectorTypeOK, Rests, Turns, Times, Reading, Written
  <1>7. CASE Visit
    <2>1. count' = count \/ count' = count + 1
      BY <1>7 DEF Visit
    <2>2. /\ i' = i + 1 /\ i < size /\ tpc = "loop"
          /\ UNCHANGED <<clock, ring, tpc, size, now, state, known, misses>>
      BY <1>7 DEF Visit
    <2> QED
      BY <1>1, <2>1, <2>2, DetectorNumbers
      DEF RingInv, DetectorTypeOK, Rests, Turns, Times, Reading, Written
  <1>8. CASE Publish
    <2>1. /\ i' = 0 /\ count' = 0 /\ tpc' = "idle" /\ state' \in {"on", "off"}
          /\ UNCHANGED <<clock, ring, size, now, known>>
          /\ misses' = misses + 1 \/ misses' = misses
      BY <1>8 DEF Publish
    <2> QED
      BY <1>1, <2>1, DetectorNumbers
      DEF RingInv, DetectorTypeOK, Rests, Turns, Times, Reading, Written
  <1>9. CASE UNCHANGED detectorVars
    BY <1>1, <1>9 DEF detectorVars, RingInv, DetectorTypeOK, Rests, Turns, Times, Reading, Written
  <1> QED
    BY <1>2, <1>3, <1>4, <1>5, <1>6, <1>7, <1>8, <1>9 DEF DetectorNext, OnRun

\* The interrupts of the window that wrote slots before j.
UpTo(s, j) == {p \in RecentPulses(1 .. Len(pulses)) : s[p] < j}

\* The slots before j that an interrupt of the window wrote before size was fixed.
Held(s, j) == {k \in 0 .. j - 1 : \E p \in RecentPulses(1 .. known) : s[p] = k}

\* The callback looks at every slot that was written when it fixed size.
Clean(s) == \A p \in 1 .. known : s[p] < size

\* The callback counts no more than the interrupts of the window, and no less than
\* the slots they wrote; a callback that looks at too few slots is the first one
\* after which the ring is full.
Counts(s) ==
    /\ Writes(s)
    /\ tpc = "loop" => count <= Cardinality(UpTo(s, i)) /\ Cardinality(Held(s, i)) <= count
    /\ misses <= 1
    /\ misses = 1 => fulled /\ tpc # "rear" /\ (tpc \in {"now", "loop"} => Clean(s))
    /\ tpc \in {"now", "loop"} /\ ~Clean(s) => fulled

\* A slot that was written holds an interrupt.
LEMMA SlotHolds ==
    ASSUME RingInv, NEW k \in 0 .. N - 1, Written(k)
    PROVE  At(k) \in 1 .. Len(pulses)
  <1>1. /\ N \in Nat /\ rear \in Int /\ 0 <= rear /\ rear < N /\ Len(pulses) \in Nat
    BY DetectorNumbers DEF RingInv
  <1>2. (fulled => N <= Len(pulses)) /\ (~fulled => rear = Len(pulses) /\ k < rear)
    BY DEF RingInv, Turns, Written
  <1>3. CASE fulled
    BY <1>1, <1>2, <1>3 DEF At
  <1>4. CASE ~fulled
    BY <1>1, <1>2, <1>4 DEF At
  <1> QED
    BY <1>3, <1>4

\* An interrupt writes the slot at the index, and leaves the others as they are.
LEMMA PulseSlots ==
    ASSUME RingInv, NEW s, Writes(s), Pulse,
           NEW z, z = [p \in 1 .. Len(pulses) + 1 |-> IF p = Len(pulses) + 1 THEN rear ELSE s[p]]
    PROVE  Writes(z)' /\ \A p \in 1 .. Len(pulses) : z[p] = s[p]
  <1>1. DetectorTypeOK /\ RingInv'
    BY RingInvNext DEF RingInv, DetectorNext
  <1>2. PICK n \in Nat : n = Len(pulses)
    BY <1>1, DetectorNumbers
  <1>3. PICK r \in Int : r = rear /\ 0 <= r /\ r < N
    BY <1>1, DetectorNumbers
  <1>4. N \in Nat /\ 1 <= N /\ s \in [1 .. n -> 0 .. N - 1]
    BY <1>1, <1>2, DetectorNumbers DEF Writes
  <1>5. /\ rear' = IF r + 1 = N THEN 0 ELSE r + 1
        /\ ticks' = [ticks EXCEPT ![r] = clock % TickMod]
        /\ fulled' = (fulled \/ rear' = 0)
    BY <1>1, <1>3, NextSlot DEF Pulse
  <1>6. /\ Len(pulses') = n + 1
        /\ \A p \in 1 .. n : pulses'[p] = pulses[p]
        /\ pulses'[n + 1] = clock
    BY <1>1, <1>2, PulseAdds
  <1>7. /\ z \in [1 .. n + 1 -> 0 .. N - 1]
        /\ z[n + 1] = r /\ \A p \in 1 .. n : z[p] = s[p]
    BY <1>2, <1>3, <1>4
  <1>8. ASSUME NEW k \in 0 .. N - 1
        PROVE  /\ k = r => At(k)' = n + 1 /\ At(k) = n + 1 - N
               /\ k # r => At(k)' = At(k)
    BY <1>2, <1>3, <1>4, <1>5, <1>6 DEF At
  <1>9. ASSUME NEW k \in 0 .. N - 1, k # r, Written(k)'
        PROVE  Written(k)
    <2>1. CASE fulled
      BY <2>1 DEF Written
    <2>2. CASE ~fulled /\ r + 1 = N
      BY <1>3, <1>4, <1>9, <2>2 DEF Written
    <2>3. CASE ~fulled /\ r + 1 # N
      <3>1. rear' = r + 1 /\ rear' # 0
        BY <1>3, <1>5, <2>3
      <3>2. ~fulled'
        BY <1>5, <2>3, <3>1, Zenon
      <3> QED
        BY <1>3, <1>9, <3>1, <3>2 DEF Written
    <2> QED
      BY <2>1, <2>2, <2>3
  <1>10. ASSUME NEW k \in 0 .. N - 1, Written(k)'
         PROVE  z[At(k)'] = k /\ ticks'[k] = pulses'[At(k)'] % TickMod
    <2>1. CASE k = r
      BY <1>1, <1>3, <1>5, <1>6, <1>7, <1>8, <2>1 DEF DetectorTypeOK
    <2>2. CASE k # r
      <3>1. Written(k) /\ At(k)' = At(k) /\ At(k) \in 1 .. n
        BY <1>2, <1>8, <1>9, <1>10, <2>2, SlotHolds
      <3>2. s[At(k)] = k /\ ticks[k] = pulses[At(k)] % TickMod
        BY <3>1 DEF Writes
      <3>3. ticks'[k] = ticks[k]
        BY <1>1, <1>5, <2>2 DEF DetectorTypeOK
      <3> QED
        BY <1>6, <1>7, <3>1, <3>2, <3>3
    <2> QED
      BY <2>1, <2>2
  <1>11. ASSUME NEW p \in 1 .. n + 1
         PROVE  p <= At(z[p])'
    <2>1. PICK k \in 0 .. N - 1 : k = z[p]
      BY <1>7
    <2>2. CASE p = n + 1
      BY <1>2, <1>7, <1>8, <2>1, <2>2
    <2>3. CASE p \in 1 .. n
      <3>1. k = s[p] /\ p <= At(k)
        BY <1>2, <1>7, <2>1, <2>3 DEF Writes
      <3>2. CASE k = r
        BY <1>2, <1>8, <2>1, <2>3, <3>2
      <3>3. CASE k # r
        BY <1>8, <2>1, <3>1, <3>3
      <3> QED
        BY <3>2, <3>3
    <2> QED
      BY <1>2, <2>2, <2>3
  <1>12. ASSUME NEW p \in 1 .. n + 1, NEW q \in 1 .. n + 1, p < q, q - p < N
         PROVE  z[p] # z[q]
    <2>1. p \in 1 .. n
      BY <1>2, <1>12
    <2>2. CASE q = n + 1
      <3>1. r \in 0 .. N - 1 /\ At(r) = n + 1 - N
        BY <1>3, <1>4, <1>8
      <3>2. p <= At(s[p])
        BY <1>2, <2>1 DEF Writes
      <3>3. s[p] # r
        BY <1>2, <1>4, <1>12, <2>1, <2>2, <3>1, <3>2
      <3> QED
        BY <1>7, <2>1, <2>2, <3>3
    <2>3. CASE q \in 1 .. n
      BY <1>2, <1>7, <1>12, <2>1, <2>3 DEF Writes
    <2> QED
      BY <1>2, <2>2, <2>3
  <1>13. \A k \in 0 .. N - 1 : Written(k)' => z[At(k)'] = k /\ ticks'[k] = pulses'[At(k)'] % TickMod
    BY <1>10
  <1>14. PICK m : m = Len(pulses') /\ m = n + 1
    BY <1>6
  <1>15. /\ z \in [1 .. m -> 0 .. N - 1]
         /\ \A p \in 1 .. m : p <= At(z[p])'
         /\ \A p, q \in 1 .. m : p < q /\ q - p < N => z[p] # z[q]
    BY <1>7, <1>11, <1>12, <1>14
  <1>16. Writes(z)'
    BY <1>13, <1>14, <1>15 DEF Writes
  <1> QED
    BY <1>2, <1>7, <1>16

\* The threshold is no more than the size of the ring.
LEMMA ThresholdFits == Threshold \in Int /\ Threshold <= N
  <1>1. N \in Nat /\ Ratio \in Nat /\ Ratio <= 100
    BY DetectorAssumption
  <1>2. N * Ratio \in Nat /\ N * Ratio <= N * 100
    BY <1>1
  <1> QED
    BY <1>1, <1>2 DEF Threshold

\* A set within a finite set of numbers.
LEMMA Within ==
    ASSUME NEW T, IsFiniteSet(T), NEW S, S \subseteq T
    PROVE  /\ IsFiniteSet(S) /\ Cardinality(S) \in Nat /\ Cardinality(T) \in Nat
           /\ Cardinality(S) <= Cardinality(T)
  <1>1. S \in SUBSET T
    OBVIOUS
  <1> QED
    BY <1>1, FS_Subset, FS_CardinalityType

\* The sets that are compared with the count are finite.
LEMMA WindowFinite ==
    ASSUME RingInv, NEW s, NEW j \in Nat
    PROVE  /\ IsFiniteSet(UpTo(s, j)) /\ IsFiniteSet(Held(s, j))
           /\ IsFiniteSet(RecentPulses(1 .. known)) /\ IsFiniteSet(RecentPulses(1 .. Len(pulses)))
  <1>1. IsFiniteSet(1 .. Len(pulses)) /\ IsFiniteSet(0 .. j - 1) /\ IsFiniteSet(1 .. known)
    BY DetectorNumbers, FS_Interval DEF RingInv
  <1> QED
    BY <1>1, Within DEF UpTo, Held, RecentPulses

\* What the callback finds in a slot.
LEMMA RecentIs ==
    ASSUME RingInv, MaxTime < TickMod, NEW s, Writes(s), NEW k \in 0 .. N - 1, Written(k)
    PROVE  Recent(k) <=> At(k) \in RecentPulses(1 .. Len(pulses))
  <1>1. At(k) \in 1 .. Len(pulses) /\ ticks[k] = pulses[At(k)] % TickMod
    BY SlotHolds DEF Writes
  <1>2. /\ pulses[At(k)] \in 0 .. MaxTime /\ now \in 0 .. MaxTime /\ W \in Nat
        /\ pulses[At(k)] \in Int /\ now \in Int
    <2>1. /\ \A q \in 1 .. Len(pulses) : pulses[q] \in Nat /\ pulses[q] <= MaxTime
          /\ now \in Nat /\ now <= MaxTime /\ W \in Nat /\ MaxTime \in Nat
      BY DetectorNumbers DEF RingInv
    <2>2. pulses[At(k)] \in Nat /\ pulses[At(k)] <= MaxTime
      BY <1>1, <2>1
    <2> QED
      BY <2>1, <2>2
  <1>3. now % TickMod = now /\ ticks[k] = pulses[At(k)]
    BY <1>1, <1>2, Stamp
  <1> QED
    BY <1>1, <1>2, <1>3 DEF Recent, RecentPulses

\* A slot that an interrupt of the window wrote is a recent one.
LEMMA HeldIsRecent ==
    ASSUME RingInv, MaxTime < TickMod, NEW s, Writes(s), NEW k \in 0 .. N - 1, Written(k),
           known <= Len(pulses), NEW p \in RecentPulses(1 .. known), s[p] = k
    PROVE  Recent(k)
  <1>0. /\ known \in Nat /\ Len(pulses) \in Nat /\ now \in Int /\ W \in Int
        /\ \A q \in 1 .. Len(pulses) : pulses[q] \in Int
    <2>1. DetectorTypeOK
      BY DEF RingInv
    <2>2. /\ known \in Nat /\ Len(pulses) \in Nat /\ now \in Nat /\ W \in Nat
          /\ \A q \in 1 .. Len(pulses) : pulses[q] \in Nat
      BY <2>1, DetectorNumbers
    <2>3. Nat \subseteq Int
      OBVIOUS
    <2> QED
      BY <2>2, <2>3
  <1>1. p \in 1 .. Len(pulses) /\ pulses[p] > now - W
    BY <1>0 DEF RecentPulses
  <1>2. At(k) \in 1 .. Len(pulses) /\ p <= At(k)
    BY <1>1, SlotHolds DEF Writes
  <1>3. pulses[p] <= pulses[At(k)]
    BY <1>1, <1>2 DEF RingInv, Times
  <1>4. pulses[At(k)] > now - W
    BY <1>0, <1>1, <1>2, <1>3
  <1>5. At(k) \in RecentPulses(1 .. Len(pulses))
    BY <1>2, <1>4 DEF RecentPulses
  <1> QED
    BY <1>5, RecentIs

\* A visit counts the interrupt in the slot iff it is in the window.
LEMMA VisitCounts ==
    ASSUME RingInv, MaxTime < TickMod, NEW s, Writes(s), NEW j \in 0 .. N - 1, Written(j),
           known <= Len(pulses)
    PROVE  /\ Recent(j) => Cardinality(UpTo(s, j)) + 1 <= Cardinality(UpTo(s, j + 1))
           /\ ~Recent(j) => Cardinality(UpTo(s, j)) <= Cardinality(UpTo(s, j + 1))
           /\ Recent(j) => Cardinality(Held(s, j + 1)) <= Cardinality(Held(s, j)) + 1
           /\ ~Recent(j) => Cardinality(Held(s, j + 1)) <= Cardinality(Held(s, j))
  <1>1. j \in Nat /\ j + 1 \in Nat /\ N \in Nat /\ s \in [1 .. Len(pulses) -> 0 .. N - 1]
    BY DetectorNumbers DEF RingInv, Writes
  <1>2. /\ IsFiniteSet(UpTo(s, j)) /\ IsFiniteSet(UpTo(s, j + 1))
        /\ IsFiniteSet(Held(s, j)) /\ IsFiniteSet(Held(s, j + 1))
    BY <1>1, WindowFinite
  <1>3. \A p \in RecentPulses(1 .. Len(pulses)) : s[p] \in Int
    BY <1>1 DEF RecentPulses
  <1>4. UpTo(s, j) \subseteq UpTo(s, j + 1)
    BY <1>1, <1>3 DEF UpTo
  <1>5. ASSUME Recent(j)
        PROVE  Cardinality(UpTo(s, j)) + 1 <= Cardinality(UpTo(s, j + 1))
    <2>1. At(j) \in RecentPulses(1 .. Len(pulses)) /\ s[At(j)] = j
      BY <1>5, RecentIs DEF Writes
    <2>2. At(j) \in UpTo(s, j + 1) /\ At(j) \notin UpTo(s, j)
      BY <1>1, <2>1 DEF UpTo
    <2>3. UpTo(s, j) \cup {At(j)} \subseteq UpTo(s, j + 1)
      BY <1>4, <2>2
    <2>4. Cardinality(UpTo(s, j) \cup {At(j)}) = Cardinality(UpTo(s, j)) + 1
      BY <1>2, <2>2, FS_AddElement
    <2> QED
      BY <1>2, <2>3, <2>4, Within
  <1>6. Held(s, j + 1) \subseteq Held(s, j) \cup {j}
    BY <1>1 DEF Held
  <1>7. ASSUME ~Recent(j)
        PROVE  Held(s, j + 1) \subseteq Held(s, j)
    <2>1. j \notin Held(s, j + 1)
      BY <1>7, HeldIsRecent DEF Held
    <2> QED
      BY <1>6, <2>1
  <1>8. /\ IsFiniteSet(Held(s, j) \cup {j})
        /\ Cardinality(Held(s, j) \cup {j}) <= Cardinality(Held(s, j)) + 1
        /\ Cardinality(Held(s, j)) \in Nat
    <2>1. /\ IsFiniteSet(Held(s, j) \cup {j})
          /\ Cardinality(Held(s, j) \cup {j}) =
                IF j \in Held(s, j) THEN Cardinality(Held(s, j))
                ELSE Cardinality(Held(s, j)) + 1
      BY <1>2, FS_AddElement
    <2>2. Cardinality(Held(s, j)) \in Nat
      BY <1>2, FS_CardinalityType
    <2> QED
      BY <2>1, <2>2
  <1>9. Cardinality(Held(s, j + 1)) <= Cardinality(Held(s, j)) + 1
    <2>1. /\ Cardinality(Held(s, j + 1)) \in Nat /\ Cardinality(Held(s, j) \cup {j}) \in Nat
          /\ Cardinality(Held(s, j + 1)) <= Cardinality(Held(s, j) \cup {j})
      BY <1>6, <1>8, Within
    <2> QED
      BY <1>8, <2>1
  <1> QED
    BY <1>2, <1>4, <1>5, <1>7, <1>9, Within

\* If the callback looks at every slot that was written, the slots that the
\* interrupts of the window wrote reach the threshold when they do.
LEMMA HeldReaches ==
    ASSUME RingInv, NEW s, Writes(s), known <= Len(pulses), Clean(s),
           Cardinality(RecentPulses(1 .. known)) >= Threshold
    PROVE  Cardinality(Held(s, size)) >= Threshold
  <1>1. /\ known \in Nat /\ size \in Nat /\ Len(pulses) \in Nat /\ N \in Nat
        /\ s \in [1 .. Len(pulses) -> 0 .. N - 1] /\ now \in Int /\ W \in Int
        /\ \A p \in 1 .. Len(pulses) : pulses[p] \in Int
    BY DetectorNumbers DEF RingInv, Writes
  <1>2. Threshold \in Int /\ Threshold <= N
    BY ThresholdFits
  <1> DEFINE R == RecentPulses(1 .. known)
             I == known - Threshold + 1 .. known
             H == Held(s, size)
  <1>3. IsFiniteSet(R) /\ IsFiniteSet(H) /\ Cardinality(R) \in Nat /\ Cardinality(H) \in Nat
    BY <1>1, WindowFinite, FS_CardinalityType
  <1>4. R \subseteq 1 .. known
    BY DEF RecentPulses
  <1>5. CASE Threshold <= 0
    BY <1>2, <1>3, <1>5
  <1>6. CASE 1 <= Threshold
    <2>1. Threshold <= known
      <3>1. IsFiniteSet(1 .. known) /\ Cardinality(1 .. known) = known
        BY <1>1, FS_Interval
      <3>2. Cardinality(R) <= known
        BY <1>4, <3>1, Within
      <3> QED
        BY <1>1, <1>2, <1>3, <3>2
    <2>2. ASSUME NEW p \in I
          PROVE  p \in R
      <3>1. p \in 1 .. known /\ known - p < Threshold
        BY <1>1, <1>2, <2>1
      <3>2. SUFFICES ASSUME p \notin R
                     PROVE  FALSE
        OBVIOUS
      <3>3. ~(pulses[p] > now - W)
        BY <3>1, <3>2 DEF RecentPulses
      <3>4. R \subseteq p + 1 .. known
        <4>1. ASSUME NEW q \in R
              PROVE  q \in p + 1 .. known
          <5>1. q \in 1 .. known /\ pulses[q] > now - W
            BY DEF RecentPulses
          <5>2. p \in 1 .. Len(pulses) /\ q \in 1 .. Len(pulses)
            BY <1>1, <3>1, <5>1
          <5>3. q <= p => pulses[q] <= pulses[p]
            BY <5>2 DEF RingInv, Times
          <5>4. pulses[p] \in Int /\ pulses[q] \in Int
            BY <1>1, <5>2
          <5> QED
            BY <1>1, <3>1, <3>3, <5>1, <5>3, <5>4
        <4> QED
          BY <4>1
      <3>5. /\ IsFiniteSet(p + 1 .. known)
            /\ Cardinality(p + 1 .. known) = IF p + 1 > known THEN 0 ELSE known - p
        <4>1. p + 1 \in Int /\ known \in Int
          BY <1>1, <3>1
        <4>2. /\ IsFiniteSet(p + 1 .. known)
              /\ Cardinality(p + 1 .. known) = IF p + 1 > known THEN 0 ELSE known - (p + 1) + 1
          BY <4>1, FS_Interval
        <4> QED
          BY <4>1, <4>2
      <3>6. Cardinality(R) <= Cardinality(p + 1 .. known)
        BY <3>4, <3>5, Within
      <3> QED
        BY <1>1, <1>2, <1>3, <1>6, <3>1, <3>5, <3>6
    <2>3. ASSUME NEW p \in I
          PROVE  s[p] \in H
      <3>1. p \in 1 .. known /\ p \in 1 .. Len(pulses) /\ p \in R
        BY <1>1, <1>2, <2>1, <2>2
      <3>2. s[p] \in 0 .. size - 1
        BY <1>1, <3>1 DEF Clean
      <3> QED
        BY <3>1, <3>2 DEF Held
    <2>4. IsFiniteSet(I) /\ Cardinality(I) = Threshold
      <3>1. known - Threshold + 1 \in Int /\ known \in Int
        BY <1>1, <1>2
      <3>2. /\ IsFiniteSet(I)
            /\ Cardinality(I) = IF known - Threshold + 1 > known THEN 0
                                ELSE known - (known - Threshold + 1) + 1
        BY <3>1, FS_Interval
      <3> QED
        BY <1>1, <1>2, <1>6, <3>2
    <2>5. ASSUME Cardinality(H) < Cardinality(I)
          PROVE  FALSE
      <3>1. PICK f \in [I -> H] : \A p \in I : f[p] = s[p]
        <4>1. [p \in I |-> s[p]] \in [I -> H]
          BY <2>3
        <4> QED
          BY <4>1
      <3> HIDE DEF I, H
      <3>4. \A g \in [I -> H] : \E p, q \in I : p # q /\ g[p] = g[q]
        BY <1>3, <2>4, <2>5, FS_PigeonHole
      <3>2. \E p, q \in I : p # q /\ s[p] = s[q]
        BY <3>1, <3>4
      <3> USE DEF I
      <3>3. PICK p \in I, q \in I : p < q /\ s[p] = s[q]
        BY <1>1, <1>2, <3>2
      <3>5. p \in 1 .. Len(pulses) /\ q \in 1 .. Len(pulses) /\ q - p < N
        BY <1>1, <1>2, <2>1, <3>3
      <3> QED
        BY <3>3, <3>5 DEF Writes
    <2> QED
      BY <1>2, <1>3, <2>4, <2>5
  <1> QED
    BY <1>2, <1>5, <1>6

\* The callback's steps keep the slots, and count what it finds.
LEMMA CallbackCounts ==
    ASSUME RingInv, MaxTime < TickMod, NEW s, Counts(s), OnRun
    PROVE  Counts(s)'
  <1> USE DEF ring, run
  <1>1. /\ Writes(s) /\ DetectorTypeOK /\ Rests /\ Turns /\ Reading
        /\ UNCHANGED <<clock, ticks, rear, fulled, pulses>>
    BY DEF Counts, RingInv, OnRun, ReadFulled, ReadRear, ReadNow, Visit, Publish
  <1>2. Writes(s)'
    BY <1>1 DEF Writes, Written, At
  <1>3. N \in Nat /\ s \in [1 .. Len(pulses) -> 0 .. N - 1] /\ Len(pulses) \in Nat
    BY <1>1, DetectorNumbers DEF Writes
  <1>4. CASE ReadFulled
    <2>1. CASE fulled
      <3>1. tpc' = "now" /\ size' = N /\ known' = Len(pulses) /\ misses' = misses
        BY <1>4, <2>1 DEF ReadFulled
      <3>2. Clean(s)'
        BY <1>3, <3>1 DEF Clean
      <3> QED
        BY <1>1, <1>2, <2>1, <3>1, <3>2 DEF Counts
    <2>2. CASE ~fulled
      <3>1. tpc' = "rear" /\ misses' = misses
        BY <1>4, <2>2 DEF ReadFulled
      <3> QED
        BY <1>1, <1>2, <2>2, <3>1 DEF Counts
    <2> QED
      BY <2>1, <2>2
  <1>5. CASE ReadRear
    <2>1. /\ tpc = "rear" /\ tpc' = "now" /\ size' = rear /\ known' = Len(pulses)
          /\ misses' = misses
      BY <1>5 DEF ReadRear
    <2>2. misses # 1
      BY <2>1 DEF Counts
    <2>3. ASSUME ~fulled
          PROVE  Clean(s)'
      <3>1. rear = Len(pulses) /\ rear \in Int
        BY <1>1, <2>3, DetectorNumbers DEF Turns
      <3>2. ASSUME NEW p \in 1 .. Len(pulses)
            PROVE  s[p] < rear
        <4>1. s[p] \in 0 .. N - 1 /\ p <= At(s[p])
          BY <1>1, <1>3 DEF Writes
        <4> QED
          BY <1>3, <3>1, <4>1 DEF At
      <3> QED
        BY <2>1, <3>2 DEF Clean
    <2> QED
      BY <1>1, <1>2, <2>1, <2>2, <2>3 DEF Counts
  <1>6. CASE ReadNow
    <2>1. /\ tpc = "now" /\ tpc' = "loop" /\ i' = 0 /\ count' = 0
          /\ UNCHANGED <<size, known, misses>>
      BY <1>6 DEF ReadNow
    <2>2. Clean(s)' <=> Clean(s)
      BY <2>1 DEF Clean
    <2>3. RingInv'
      BY <1>6, RingInvNext DEF DetectorNext, OnRun
    <2>4. Held(s, i)' = {} /\ Cardinality(Held(s, i)') = 0
      <3>1. Held(s, i)' = {}
        BY <2>1 DEF Held
      <3> QED
        BY <3>1, FS_EmptySet
    <2>5. IsFiniteSet(UpTo(s, i)')
      <3>1. IsFiniteSet(1 .. Len(pulses)) /\ UpTo(s, i)' \subseteq 1 .. Len(pulses)
        BY <1>1, <1>3, FS_Interval DEF UpTo, RecentPulses
      <3> QED
        BY <3>1, Within
    <2>6. Cardinality(UpTo(s, i)') \in Nat
      BY <2>5, FS_CardinalityType
    <2> QED
      BY <1>1, <1>2, <2>1, <2>2, <2>4, <2>6 DEF Counts
  <1>7. CASE Visit
    <2>1. /\ tpc = "loop" /\ i < size /\ i' = i + 1
          /\ count' = IF Recent(i) THEN count + 1 ELSE count
          /\ UNCHANGED <<tpc, size, now, known, misses>>
      BY <1>7 DEF Visit
    <2>2. PICK j \in 0 .. N - 1 : j = i /\ Written(j) /\ j \in 0 .. size - 1
      <3>1. i \in Nat /\ size \in Nat /\ i <= size /\ size <= N /\ N \in Nat
        BY <1>1, DetectorNumbers
      <3>2. i \in 0 .. size - 1 /\ i \in 0 .. N - 1
        BY <2>1, <3>1
      <3>3. Written(i)
        BY <1>1, <2>1, <3>2 DEF Reading
      <3> QED
        BY <3>2, <3>3
    <2>3. known <= Len(pulses)
      BY <1>1, <2>1 DEF Reading
    <2>4. /\ Recent(j) => Cardinality(UpTo(s, j)) + 1 <= Cardinality(UpTo(s, j + 1))
          /\ ~Recent(j) => Cardinality(UpTo(s, j)) <= Cardinality(UpTo(s, j + 1))
          /\ Recent(j) => Cardinality(Held(s, j + 1)) <= Cardinality(Held(s, j)) + 1
          /\ ~Recent(j) => Cardinality(Held(s, j + 1)) <= Cardinality(Held(s, j))
      BY <1>1, <2>2, <2>3, VisitCounts
    <2>5. UpTo(s, i)' = UpTo(s, j + 1) /\ Held(s, i)' = Held(s, j + 1)
      BY <1>1, <2>1, <2>2 DEF UpTo, Held, RecentPulses
    <2>6. /\ IsFiniteSet(UpTo(s, j)) /\ IsFiniteSet(UpTo(s, j + 1))
          /\ IsFiniteSet(Held(s, j)) /\ IsFiniteSet(Held(s, j + 1))
      BY WindowFinite
    <2>7. /\ Cardinality(UpTo(s, j)) \in Nat /\ Cardinality(UpTo(s, j + 1)) \in Nat
          /\ Cardinality(Held(s, j)) \in Nat /\ Cardinality(Held(s, j + 1)) \in Nat
          /\ count \in Nat
      BY <1>1, <2>6, FS_CardinalityType, DetectorNumbers
    <2>8. count <= Cardinality(UpTo(s, j)) /\ Cardinality(Held(s, j)) <= count
      BY <2>1, <2>2 DEF Counts
    <2>9. count' <= Cardinality(UpTo(s, j + 1)) /\ Cardinality(Held(s, j + 1)) <= count'
      BY <2>1, <2>2, <2>4, <2>7, <2>8
    <2>10. Clean(s)' <=> Clean(s)
      BY <2>1 DEF Clean
    <2> QED
      BY <1>1, <1>2, <2>1, <2>5, <2>9, <2>10 DEF Counts
  <1>8. CASE Publish
    <2>1. /\ tpc = "loop" /\ i = size /\ tpc' = "idle"
          /\ misses' = IF /\ count < Threshold
                          /\ Cardinality(RecentPulses(1 .. known)) >= Threshold
                       THEN misses + 1 ELSE misses
      BY <1>8 DEF Publish
    <2>2. misses \in Nat /\ misses <= 1 /\ size \in Nat /\ count \in Nat
      BY <1>1, DetectorNumbers DEF Counts
    <2>3. ASSUME Clean(s)
          PROVE  misses' = misses
      <3>1. SUFFICES ASSUME Cardinality(RecentPulses(1 .. known)) >= Threshold
                     PROVE  ~(count < Threshold)
        BY <2>1
      <3>2. known <= Len(pulses)
        BY <1>1, <2>1 DEF Reading
      <3>3. Cardinality(Held(s, size)) >= Threshold
        BY <1>1, <2>3, <3>1, <3>2, HeldReaches
      <3>4. Cardinality(Held(s, size)) <= count
        BY <2>1 DEF Counts
      <3>5. Cardinality(Held(s, size)) \in Nat
        BY <2>2, WindowFinite, FS_CardinalityType
      <3> QED
        BY <2>2, <3>3, <3>4, <3>5, ThresholdFits
    <2>4. CASE Clean(s)
      BY <1>1, <1>2, <2>1, <2>3, <2>4 DEF Counts
    <2>5. CASE ~Clean(s)
      <3>1. fulled /\ misses # 1
        BY <2>1, <2>5 DEF Counts
      <3>2. misses' <= 1
        BY <2>1, <2>2, <3>1
      <3> QED
        BY <1>1, <1>2, <2>1, <3>1, <3>2 DEF Counts
    <2> QED
      BY <2>4, <2>5
  <1> QED
    BY <1>4, <1>5, <1>6, <1>7, <1>8 DEF OnRun

\* An interrupt adds to the window, and to nothing that the callback must count.
LEMMA PulseCounts ==
    ASSUME RingInv, NEW s, Counts(s), Pulse
    PROVE  \E z : Counts(z)'
  <1> USE DEF ring, run
  <1>1. Writes(s) /\ DetectorTypeOK /\ Reading
    BY DEF Counts, RingInv
  <1>2. PICK z : z = [p \in 1 .. Len(pulses) + 1 |->
                         IF p = Len(pulses) + 1 THEN rear ELSE s[p]]
    OBVIOUS
  <1>3. Writes(z)' /\ \A p \in 1 .. Len(pulses) : z[p] = s[p]
    BY <1>1, <1>2, PulseSlots
  <1>4. /\ UNCHANGED <<clock, tpc, size, now, i, count, state, known, misses>>
        /\ fulled' = (fulled \/ rear' = 0)
    BY DEF Pulse
  <1>5. fulled => fulled'
    BY <1>4, Zenon
  <1>6. /\ Len(pulses') = Len(pulses) + 1
        /\ \A p \in 1 .. Len(pulses) : pulses'[p] = pulses[p]
        /\ Len(pulses) \in Nat /\ known \in Nat /\ i \in Nat /\ count \in Nat
    BY <1>1, PulseAdds, DetectorNumbers
  <1>7. tpc \in {"now", "loop"} => (Clean(z)' <=> Clean(s))
    BY <1>1, <1>3, <1>4, <1>6 DEF Clean, Reading
  <1>8. ASSUME tpc = "loop"
        PROVE  count' <= Cardinality(UpTo(z, i)') /\ Cardinality(Held(z, i)') <= count'
    <2>1. known <= Len(pulses)
      BY <1>1, <1>8 DEF Reading
    <2>2. UpTo(s, i) \subseteq UpTo(z, i)'
      BY <1>3, <1>4, <1>6 DEF UpTo, RecentPulses
    <2>3. RecentPulses(1 .. known)' = RecentPulses(1 .. known)
      BY <1>4, <1>6, <2>1 DEF RecentPulses
    <2>4. \A p \in RecentPulses(1 .. known) : z[p] = s[p]
      BY <1>3, <1>6, <2>1 DEF RecentPulses
    <2>5. Held(z, i)' = Held(s, i)
      BY <1>4, <2>3, <2>4 DEF Held
    <2>6. IsFiniteSet(UpTo(z, i)')
      <3>1. IsFiniteSet(1 .. Len(pulses) + 1) /\ UpTo(z, i)' \subseteq 1 .. Len(pulses) + 1
        BY <1>6, FS_Interval DEF UpTo, RecentPulses
      <3> QED
        BY <3>1, Within
    <2>7. /\ Cardinality(UpTo(s, i)) \in Nat /\ Cardinality(UpTo(z, i)') \in Nat
          /\ Cardinality(UpTo(s, i)) <= Cardinality(UpTo(z, i)')
      BY <2>2, <2>6, Within
    <2>8. count <= Cardinality(UpTo(s, i)) /\ Cardinality(Held(s, i)) <= count
      BY <1>8 DEF Counts
    <2> QED
      BY <1>4, <1>6, <2>5, <2>7, <2>8
  <1>9. Counts(z)'
    BY <1>3, <1>4, <1>5, <1>7, <1>8 DEF Counts
  <1> QED
    BY <1>9

\* A load is reported only for enough interrupts.
LEMMA OnNext ==
    RingInv /\ OnNeedsPulses /\ (\E s : Counts(s)) /\ [DetectorNext]_detectorVars
    => OnNeedsPulses'
  <1> SUFFICES ASSUME RingInv, OnNeedsPulses, NEW s, Counts(s),
                      [DetectorNext]_detectorVars
               PROVE  OnNeedsPulses'
    OBVIOUS
  <1> USE DEF ring, run
  <1>1. DetectorTypeOK /\ Len(pulses) \in Nat /\ size \in Nat /\ count \in Nat
    BY DetectorNumbers DEF RingInv
  <1>2. IsFiniteSet(RecentPulses(1 .. Len(pulses)))
    BY <1>1, WindowFinite
  <1>3. CASE Publish
    <2>1. /\ tpc = "loop" /\ i = size /\ UNCHANGED <<pulses, now>>
          /\ state' = IF count >= Threshold THEN "on" ELSE "off"
      BY <1>3 DEF Publish
    <2>2. count <= Cardinality(UpTo(s, size))
      BY <2>1 DEF Counts
    <2>3. UpTo(s, size) \subseteq RecentPulses(1 .. Len(pulses))
      BY DEF UpTo
    <2>4. /\ Cardinality(UpTo(s, size)) <= Cardinality(RecentPulses(1 .. Len(pulses)))
          /\ Cardinality(UpTo(s, size)) \in Nat
          /\ Cardinality(RecentPulses(1 .. Len(pulses))) \in Nat
      BY <1>2, <2>3, Within
    <2>5. RecentPulses(1 .. Len(pulses))' = RecentPulses(1 .. Len(pulses))
      BY <2>1 DEF RecentPulses
    <2>6. state' = "on" => count >= Threshold
      BY <2>1
    <2>7. state' = "on" => Cardinality(RecentPulses(1 .. Len(pulses))) >= Threshold
      BY <1>1, <2>2, <2>4, <2>6, ThresholdFits
    <2> QED
      BY <2>5, <2>7 DEF OnNeedsPulses
  <1>4. CASE Pulse
    <2>1. UNCHANGED <<tpc, state, now>>
      BY <1>4 DEF Pulse
    <2>2. /\ Len(pulses') = Len(pulses) + 1
          /\ \A p \in 1 .. Len(pulses) : pulses'[p] = pulses[p]
      BY <1>1, <1>4, PulseAdds
    <2>3. RecentPulses(1 .. Len(pulses)) \subseteq RecentPulses(1 .. Len(pulses))'
      BY <1>1, <2>1, <2>2 DEF RecentPulses
    <2>4. IsFiniteSet(RecentPulses(1 .. Len(pulses))')
      <3>1. /\ IsFiniteSet(1 .. Len(pulses) + 1)
            /\ RecentPulses(1 .. Len(pulses))' \subseteq 1 .. Len(pulses) + 1
        BY <1>1, <2>2, FS_Interval DEF RecentPulses
      <3> QED
        BY <3>1, Within
    <2>5. /\ Cardinality(RecentPulses(1 .. Len(pulses))) \in Nat
          /\ Cardinality(RecentPulses(1 .. Len(pulses))') \in Nat
          /\ Cardinality(RecentPulses(1 .. Len(pulses)))
                 <= Cardinality(RecentPulses(1 .. Len(pulses))')
      BY <2>3, <2>4, Within
    <2>6. ASSUME tpc = "idle", state = "on"
          PROVE  Cardinality(RecentPulses(1 .. Len(pulses))') >= Threshold
      <3>1. Cardinality(RecentPulses(1 .. Len(pulses))) >= Threshold
        BY <2>6 DEF OnNeedsPulses
      <3> QED
        BY <2>5, <3>1, ThresholdFits
    <2> QED
      BY <2>1, <2>6 DEF OnNeedsPulses
  <1>5. CASE ReadFulled \/ ReadRear \/ ReadNow \/ Visit
    <2>1. tpc' # "idle"
      BY <1>5 DEF ReadFulled, ReadRear, ReadNow, Visit
    <2> QED
      BY <2>1 DEF OnNeedsPulses
  <1>6. CASE Tick \/ UNCHANGED detectorVars
    <2>1. UNCHANGED <<tpc, state, now, pulses>>
      BY <1>6 DEF Tick, detectorVars
    <2> QED
      BY <2>1 DEF OnNeedsPulses, RecentPulses, Threshold
  <1> QED
    BY <1>3, <1>4, <1>5, <1>6 DEF DetectorNext, OnRun

\* Every step keeps the count between the slots written and the interrupts.
LEMMA CountsNext ==
    ASSUME MaxTime < TickMod
    PROVE  RingInv /\ (\E s : Counts(s)) /\ [DetectorNext]_detectorVars => (\E s : Counts(s))'
  <1> SUFFICES ASSUME RingInv, NEW s, Counts(s), [DetectorNext]_detectorVars
               PROVE  \E z : Counts(z)'
    OBVIOUS
  <1>1. CASE Tick \/ UNCHANGED detectorVars
    <2>1. UNCHANGED <<ticks, rear, fulled, pulses, tpc, size, now, i, count, known, misses>>
      BY <1>1 DEF Tick, detectorVars, ring, run
    <2>2. Counts(s)'
      BY <2>1 DEF Counts, Writes, At, Written, UpTo, Held, Clean, RecentPulses
    <2> QED
      BY <2>2
  <1> QED
    BY <1>1, PulseCounts, CallbackCounts DEF DetectorNext

\* At the start nothing has been written.
LEMMA DetectorStarts == DetectorInit => RingInv /\ OnNeedsPulses /\ \E s : Counts(s)
  <1> SUFFICES ASSUME DetectorInit PROVE RingInv /\ OnNeedsPulses /\ \E s : Counts(s)
    OBVIOUS
  <1>1. /\ clock = 0 /\ ticks \in [0 .. N - 1 -> Nat] /\ rear = 0 /\ fulled = FALSE
        /\ tpc = "idle" /\ size = 0 /\ now = 0 /\ i = 0 /\ count = 0 /\ state = "none"
        /\ pulses = <<>> /\ known = 0 /\ misses = 0
    BY DetectorAssumption DEF DetectorInit
  <1>2. N \in Nat /\ 1 <= N /\ MaxTime \in Nat /\ MaxPulses \in Nat
    BY DetectorAssumption
  <1>3. Len(pulses) = 0 /\ pulses \in Seq(0 .. MaxTime)
    BY <1>1, EmptySeq
  <1>4. DetectorTypeOK
    <2>1. /\ 0 \in 0 .. MaxTime /\ 0 \in 0 .. N - 1 /\ 0 \in 0 .. N
          /\ 0 \in 0 .. 0 /\ 0 \in 0 .. MaxPulses /\ 0 \in Nat
      BY <1>2
    <2> QED
      BY <1>1, <1>3, <2>1 DEF DetectorTypeOK
  <1>5. Rests /\ Turns /\ Reading
    BY <1>1, <1>2, <1>3 DEF Rests, Turns, Reading
  <1>6. Times
    BY <1>1, <1>3 DEF Times
  <1>7. RingInv
    BY <1>4, <1>5, <1>6 DEF RingInv
  <1>8. OnNeedsPulses
    BY <1>1 DEF OnNeedsPulses
  <1>9. PICK s : s = [p \in 1 .. 0 |-> 0]
    OBVIOUS
  <1>10. Writes(s)
    BY <1>1, <1>2, <1>3, <1>9 DEF Writes, Written
  <1>11. Counts(s)
    BY <1>1, <1>10 DEF Counts
  <1> QED
    BY <1>7, <1>8, <1>11

\* The detector's state while the tick has not wrapped.
LEMMA DetectorInvariant ==
    ASSUME MaxTime < TickMod
    PROVE  DetectorSpec => [](RingInv /\ OnNeedsPulses /\ \E s : Counts(s))
  <1>1. DetectorInit => RingInv /\ OnNeedsPulses /\ \E s : Counts(s)
    BY DetectorStarts
  <1>2. RingInv /\ OnNeedsPulses /\ (\E s : Counts(s)) /\ [DetectorNext]_detectorVars
        => RingInv' /\ OnNeedsPulses' /\ (\E s : Counts(s))'
    BY RingInvNext, OnNext, CountsNext
  <1> QED
    BY <1>1, <1>2, PTL DEF DetectorSpec

\* While the tick counter has not wrapped, a load is reported only if enough interrupts
\* have come within the window before the callback read the clock, wherever interrupts
\* break into the callback and whatever the array held at first: the callback visits
\* every slot once, and each slot it counts was written by an interrupt of the window
\* that wrote no other slot
\* (devices/load_detector.cxx:20-29).
THEOREM LoadDetectorOnNeedsPulses ==
    ASSUME MaxTime < TickMod
    PROVE  DetectorSpec => []OnNeedsPulses
  BY DetectorInvariant, PTL

\* While the tick counter has not wrapped, a detector misses a connected load once at
\* most: a callback that looks at too few slots is one in which the ring was filled
\* between the reads of fulled and rear, and fulled is never reset
\* (devices/load_detector.cxx:10-15 and 20-22).
THEOREM LoadDetectorMissedAtMostOnce ==
    ASSUME MaxTime < TickMod
    PROVE  DetectorSpec => []MissedAtMostOnce
  <1>1. (\E s : Counts(s)) => MissedAtMostOnce
    BY DEF Counts, MissedAtMostOnce
  <1> QED
    BY <1>1, DetectorInvariant, PTL

-----------------------------------------------------------------------------
(* The MQTT client: who uses what *)

\* The places at which a thread is inside exec.
InExec == {"in cloud", "in aliauth", "in open", "in connect", "in disc"}

\* The types, but for the Flows and the Clients.
MqttTypes ==
    /\ at \in [Callers -> Places]
    /\ makes \in [Callers -> Nat]
    /\ mySlot \in [Callers -> Slots]
    /\ thrown \in [Callers -> BOOLEAN]
    /\ lock \in Callers \cup {None}
    /\ slots \in [Slots -> Flows \cup {None}]
    /\ connResult \in [Callers -> Flows \cup {None}]
    /\ events \subseteq Slots
    /\ cmds \in Seq([op : Ops, slot : Slots, flow : Flows])
    /\ conns \in [Slots -> Seq(Flows)]
    /\ online \in [Slots -> Flows \cup {None}]
    /\ crossed \in BOOLEAN /\ wrongOk \in BOOLEAN
    /\ obeyed \in [Callers -> BOOLEAN] /\ tidy \in [Callers -> BOOLEAN]
    /\ \A t \in Callers : lock = t <=> at[t] \in InExec
    /\ \A t \in Callers : obeyed[t] => at[t] \in InExec

\* t has a Flow.
HasFlow(t) == at[t] \notin {"idle", "found"}

\* t may have commands in the modem, and a connection.
Speaks(t) == at[t] \notin {"idle", "found", "gone", "last"}

\* The Flows and the Clients that live are those of the threads at the present.
FlowsArePresent ==
    /\ flows = {Flow(t) : t \in {u \in Callers : HasFlow(u)}}
    /\ clients = {Flow(t) : t \in {u \in Callers : HasFlow(u) /\ at[u] # "last"}}
    /\ \A t \in Callers : at[t] = "last" => thrown[t]

\* A slot holds a Flow that was made for it, and no Flow that has yet to take one.
SlotsArePresent ==
    \A s \in Slots, t \in Callers, n \in Nat : slots[s] = <<t, n>> =>
        /\ n <= makes[t]
        /\ n = makes[t] => mySlot[t] = s /\ at[t] # "found"

\* A slot has one user at a time, and holds the Flow of its user.
OneUserEach ==
    /\ \A t, u \in Callers :
           at[t] # "idle" /\ at[u] # "idle" /\ mySlot[t] = mySlot[u] => t = u
    /\ \A t \in Callers : HasFlow(t) => slots[mySlot[t]] = Flow(t)

\* f is the Flow of a thread that may have a connection on slot s.
Belongs(f, s) == \E t \in Callers : f = Flow(t) /\ mySlot[t] = s /\ Speaks(t)

\* The commands and connections of the modem are those of present Flows.
ModemIsPresent ==
    /\ \A k \in 1 .. Len(cmds) : Belongs(cmds[k].flow, cmds[k].slot)
    /\ \A s \in Slots : \A k \in 1 .. Len(conns[s]) : Belongs(conns[s][k], s)
    /\ \A s \in Slots : online[s] # None => Belongs(online[s], s)

\* Nothing follows a command to disconnect.
DiscIsLast ==
    \A k \in 1 .. Len(cmds) : cmds[k].op = "disc" =>
        /\ \A t \in Callers : cmds[k].flow = Flow(t) => at[t] \in {"in disc", "terminated"}
        /\ \A j \in 1 .. Len(cmds) : k < j => cmds[j].flow # cmds[k].flow

\* A thread whose Client has been disconnected has nothing left in the modem.
Disconnected(t) ==
    /\ \A k \in 1 .. Len(cmds) : cmds[k].flow # Flow(t)
    /\ conns[mySlot[t]] = <<>>
    /\ online[mySlot[t]] = None

Obeys == \A t \in Callers : obeyed[t] /\ at[t] = "in disc" => Disconnected(t)

\* A thread has no result but that of its own connection, and a bit that was set
\* after its call had begun came with the result.
ResultComes ==
    \A t \in Callers : at[t] # "idle" =>
        /\ connResult[t] \in {None, Flow(t)}
        /\ tidy[t] /\ (mySlot[t] \in events \/ at[t] = "held") =>
               HasFlow(t) /\ connResult[t] = Flow(t)

\* As long as exec has told the truth and no two threads have shared a slot.
Faithful ==
    ~crossed /\ ~wrongOk =>
        OneUserEach /\ ModemIsPresent /\ DiscIsLast /\ Obeys /\ ResultComes

MqttInv == MqttTypes /\ FlowsArePresent /\ SlotsArePresent /\ Faithful

-----------------------------------------------------------------------------
(* Places and sequences *)

\* Where the commands are executed, and where a thread goes on.
LEMMA BusyIs ==
    /\ \A op \in Ops : Busy[op] \in InExec /\ (Busy[op] = "in disc" <=> op = "disc")
    /\ \A op \in Ops : Then[op] \in Places
    /\ \A op \in Ops : op # "disc" => Then[op] \in {"aliauth", "open", "connect", "wait"}
    /\ Then["disc"] = "gone"
    /\ \A p \in InExec : \E op \in Ops : p = Busy[op]
    /\ \A op, pp \in Ops : Busy[op] = Busy[pp] => op = pp
  <1>1. /\ Busy["cloud"] = "in cloud" /\ Busy["aliauth"] = "in aliauth"
        /\ Busy["open"] = "in open" /\ Busy["connect"] = "in connect"
        /\ Busy["disc"] = "in disc"
    BY DEF Busy
  <1>2. /\ Then["cloud"] = "aliauth" /\ Then["aliauth"] = "open"
        /\ Then["open"] = "connect" /\ Then["connect"] = "wait" /\ Then["disc"] = "gone"
    BY DEF Then
  <1>3. Ops = {"cloud", "aliauth", "open", "connect", "disc"}
    BY DEF Ops
  <1>4. ASSUME NEW op \in Ops
        PROVE  /\ Busy[op] \in InExec /\ (Busy[op] = "in disc" <=> op = "disc")
               /\ Then[op] \in Places
               /\ op # "disc" => Then[op] \in {"aliauth", "open", "connect", "wait"}
    BY <1>1, <1>2, <1>3 DEF InExec, Places
  <1>5. \A p \in InExec : \E op \in Ops : p = Busy[op]
    BY <1>1, <1>3 DEF InExec
  <1>6. \A op, pp \in Ops : Busy[op] = Busy[pp] => op = pp
    BY <1>1, <1>3
  <1> QED
    BY <1>2, <1>4, <1>5, <1>6

\* The places of the threads.
LEMMA PlacesAre ==
    Places = {"idle", "found", "wait", "asleep", "held", "gone", "last", "terminated",
              "cloud", "aliauth", "open", "connect", "disc"} \cup InExec
  <1>1. {Busy[op] : op \in Ops} = InExec
    <2>1. \A op \in Ops : Busy[op] \in InExec
      BY BusyIs
    <2>2. \A p \in InExec : \E op \in Ops : p = Busy[op]
      BY BusyIs
    <2> QED
      BY <2>1, <2>2
  <1> QED
    BY <1>1 DEF Places, Ops

\* A step of one thread.
LEMMA Goes ==
    ASSUME at \in [Callers -> Places], NEW t \in Callers, NEW place \in Places, Goto(t, place)
    PROVE  /\ at' \in [Callers -> Places]
           /\ at'[t] = place
           /\ \A u \in Callers : u # t => at'[u] = at[u]
  BY DEF Goto

\* A Flow is of one thread.
LEMMA FlowsDiffer ==
    ASSUME NEW t \in Callers, NEW u \in Callers, Flow(t) = Flow(u)
    PROVE  t = u
  BY DEF Flow

\* A command is added to a sequence, or the first one is taken off.
LEMMA Shorter ==
    ASSUME NEW S, NEW q \in Seq(S), q # <<>>
    PROVE  /\ Tail(q) \in Seq(S) /\ Head(q) = q[1] /\ Head(q) \in S
           /\ Len(q) \in Nat /\ 1 <= Len(q)
           /\ Len(Tail(q)) = Len(q) - 1
           /\ \A k \in 1 .. Len(Tail(q)) : Tail(q)[k] = q[k + 1]
  BY HeadTailProperties, LenProperties, EmptySeq

-----------------------------------------------------------------------------
(* Steps that leave the Flows, the Clients and the slots alone *)

\* No thread gets or loses a Flow, a Client or a slot.
UsersStay ==
    /\ UNCHANGED <<makes, mySlot, slots, flows, clients>>
    /\ \A u \in Callers :
           /\ (at'[u] = "idle") = (at[u] = "idle")
           /\ (at'[u] = "found") = (at[u] = "found")
           /\ (at'[u] = "last") = (at[u] = "last")
           /\ thrown[u] => thrown'[u]

LEMMA UsersKept ==
    ASSUME MqttInv, UsersStay
    PROVE  /\ FlowsArePresent' /\ SlotsArePresent'
           /\ OneUserEach => OneUserEach'
           /\ \A u \in Callers : (HasFlow(u)' <=> HasFlow(u)) /\ Flow(u)' = Flow(u)
  <1>1. \A u \in Callers : (HasFlow(u)' <=> HasFlow(u)) /\ Flow(u)' = Flow(u)
    BY DEF UsersStay, HasFlow, Flow
  <1>2. /\ {u \in Callers : HasFlow(u)}' = {u \in Callers : HasFlow(u)}
        /\ {u \in Callers : HasFlow(u) /\ at[u] # "last"}'
               = {u \in Callers : HasFlow(u) /\ at[u] # "last"}
    BY <1>1 DEF UsersStay
  <1>3. FlowsArePresent'
    <2>1. /\ {Flow(t) : t \in {u \in Callers : HasFlow(u)}}'
                 = {Flow(t) : t \in {u \in Callers : HasFlow(u)}}
          /\ {Flow(t) : t \in {u \in Callers : HasFlow(u) /\ at[u] # "last"}}'
                 = {Flow(t) : t \in {u \in Callers : HasFlow(u) /\ at[u] # "last"}}
      BY <1>1, <1>2
    <2> QED
      BY <2>1 DEF MqttInv, FlowsArePresent, UsersStay
  <1>4. SlotsArePresent'
    BY DEF MqttInv, SlotsArePresent, UsersStay
  <1>5. OneUserEach => OneUserEach'
    BY <1>1 DEF OneUserEach, UsersStay
  <1> QED
    BY <1>1, <1>3, <1>4, <1>5

\* The modem keeps what it has, or less of it.
LEMMA ModemKept ==
    ASSUME UNCHANGED <<makes, mySlot>>, UNCHANGED cmds, UNCHANGED conns, UNCHANGED online,
           \A u \in Callers : Speaks(u) => Speaks(u)'
    PROVE  ModemIsPresent => ModemIsPresent'
  BY DEF ModemIsPresent, Belongs, Flow

\* A command to disconnect stays the last one.
LEMMA DiscKept ==
    ASSUME UNCHANGED makes, UNCHANGED cmds,
           \A u \in Callers : at[u] \in {"in disc", "terminated"}
                                => at'[u] \in {"in disc", "terminated"}
    PROVE  DiscIsLast => DiscIsLast'
  BY DEF DiscIsLast, Flow

\* What was obeyed, was obeyed.
LEMMA ObeysKept ==
    ASSUME UNCHANGED <<makes, mySlot>>, UNCHANGED cmds, UNCHANGED conns, UNCHANGED online,
           \A u \in Callers : obeyed'[u] => obeyed[u] /\ at'[u] = at[u]
    PROVE  Obeys => Obeys'
  BY DEF Obeys, Disconnected, Flow

\* A thread keeps its result, and is woken by a bit that came with one.
LEMMA ResultKept ==
    ASSUME UNCHANGED <<makes, mySlot, connResult, tidy>>, events' \subseteq events,
           \A u \in Callers :
               /\ at'[u] # "idle" => at[u] # "idle"
               /\ HasFlow(u) => HasFlow(u)' \/ at'[u] = "idle"
               /\ at'[u] = "held" => at[u] = "held" \/ mySlot[u] \in events
    PROVE  ResultComes => ResultComes'
  BY DEF ResultComes, Flow

-----------------------------------------------------------------------------
(* The steps of a thread that keeps its Flow *)

\* A step of t that leaves the Flows, the modem and the results alone: it is between
\* two places at which t has its Flow and its Client.
LEMMA StepKeeps ==
    ASSUME MqttInv, NEW t \in Callers, NEW place \in Places, Goto(t, place),
           at[t] \notin {"idle", "found", "gone", "last"},
           place \notin {"idle", "found", "gone", "last"},
           at[t] \in {"in disc", "terminated"} => place \in {"in disc", "terminated"},
           place = "held" => mySlot[t] \in events,
           UNCHANGED <<makes, mySlot, slots, flows, clients, connResult>>,
           UNCHANGED <<cmds, conns, online, crossed, tidy>>,
           thrown' \in [Callers -> BOOLEAN], \A u \in Callers : thrown[u] => thrown'[u],
           lock' \in Callers \cup {None}, \A u \in Callers : lock' = u <=> at'[u] \in InExec,
           events' \subseteq events,
           wrongOk' \in BOOLEAN, wrongOk => wrongOk',
           obeyed' \in [Callers -> BOOLEAN], ~obeyed'[t],
           \A u \in Callers : obeyed'[u] => obeyed[u]
    PROVE  MqttInv'
  <1>1. MqttTypes /\ FlowsArePresent /\ SlotsArePresent /\ Faithful
    BY DEF MqttInv
  <1>2. /\ at' \in [Callers -> Places] /\ at'[t] = place
        /\ \A u \in Callers : u # t => at'[u] = at[u]
    BY <1>1, Goes DEF MqttTypes
  <1>3. MqttTypes'
    BY <1>1, <1>2 DEF MqttTypes
  <1>4. UsersStay
    <2>1. ASSUME NEW u \in Callers
          PROVE  /\ (at'[u] = "idle") = (at[u] = "idle")
                 /\ (at'[u] = "found") = (at[u] = "found")
                 /\ (at'[u] = "last") = (at[u] = "last")
      BY <1>2
    <2> QED
      BY <2>1 DEF UsersStay
  <1>5. /\ FlowsArePresent' /\ SlotsArePresent' /\ (OneUserEach => OneUserEach')
        /\ \A u \in Callers : HasFlow(u)' <=> HasFlow(u)
    BY <1>4, UsersKept
  <1>6. \A u \in Callers : Speaks(u) => Speaks(u)'
    BY <1>2 DEF Speaks
  <1>7. ModemIsPresent => ModemIsPresent'
    BY <1>6, ModemKept
  <1>8. DiscIsLast => DiscIsLast'
    BY <1>2, DiscKept
  <1>9. Obeys => Obeys'
    <2>1. \A u \in Callers : obeyed'[u] => obeyed[u] /\ at'[u] = at[u]
      BY <1>2
    <2> QED
      BY <2>1, ObeysKept
  <1>10. ResultComes => ResultComes'
    <2>1. \A u \in Callers :
              /\ at'[u] # "idle" => at[u] # "idle"
              /\ HasFlow(u) => HasFlow(u)' \/ at'[u] = "idle"
              /\ at'[u] = "held" => at[u] = "held" \/ mySlot[u] \in events
      BY <1>2, <1>5
    <2> QED
      BY <2>1, ResultKept
  <1>11. Faithful'
    <2>1. ~crossed' /\ ~wrongOk' => ~crossed /\ ~wrongOk
      OBVIOUS
    <2> QED
      BY <1>1, <1>5, <1>7, <1>8, <1>9, <1>10, <2>1 DEF Faithful
  <1> QED
    BY <1>3, <1>5, <1>11 DEF MqttInv

\* The wait begins.
LEMMA WaitKeeps ==
    ASSUME MqttInv, NEW t \in Callers, Wait(t)
    PROVE  MqttInv'
  <1> USE DEF object, modem, history
  <1>1. MqttTypes
    BY DEF MqttInv
  <1>2. PICK place \in {"held", "asleep"} :
            /\ Goto(t, place) /\ (place = "held" => mySlot[t] \in events)
    BY DEF Wait
  <1>3. /\ at[t] = "wait" /\ events' \subseteq events
        /\ UNCHANGED <<makes, mySlot, slots, flows, clients, connResult, lock, thrown>>
        /\ UNCHANGED <<cmds, conns, online, crossed, tidy, wrongOk, obeyed>>
    BY DEF Wait
  <1>4. place \in Places /\ place \notin InExec /\ ~obeyed[t]
    BY <1>1, <1>3, PlacesAre DEF MqttTypes, InExec
  <1>5. \A u \in Callers : lock' = u <=> at'[u] \in InExec
    BY <1>1, <1>2, <1>3, <1>4, Goes DEF MqttTypes, InExec
  <1>6. at[t] \notin {"idle", "found", "gone", "last", "in disc", "terminated"}
    BY <1>3
  <1>7. /\ thrown' \in [Callers -> BOOLEAN] /\ lock' \in Callers \cup {None}
        /\ wrongOk' \in BOOLEAN /\ obeyed' \in [Callers -> BOOLEAN]
    BY <1>1, <1>3 DEF MqttTypes
  <1> QED
    BY <1>2, <1>3, <1>4, <1>5, <1>6, <1>7, StepKeeps

\* The wait times out, or the Client is dropped.
LEMMA DropKeeps ==
    ASSUME MqttInv, NEW t \in Callers, WaitTimeout(t) \/ DropClient(t)
    PROVE  MqttInv'
  <1> USE DEF object, modem, history
  <1>1. MqttTypes
    BY DEF MqttInv
  <1>2. /\ Goto(t, "disc") /\ at[t] \in {"asleep", "held"}
        /\ thrown' = thrown \/ thrown' = [thrown EXCEPT ![t] = TRUE]
        /\ UNCHANGED <<makes, mySlot, slots, flows, clients, connResult, lock, events>>
        /\ UNCHANGED <<cmds, conns, online, crossed, tidy, wrongOk, obeyed>>
    BY DEF WaitTimeout, DropClient
  <1>3. "disc" \in Places /\ "disc" \notin InExec /\ ~obeyed[t]
    BY <1>1, <1>2, PlacesAre DEF MqttTypes, InExec
  <1>4. \A u \in Callers : lock' = u <=> at'[u] \in InExec
    BY <1>1, <1>2, <1>3, Goes DEF MqttTypes, InExec
  <1>5. at[t] \notin {"idle", "found", "gone", "last", "in disc", "terminated"}
    BY <1>2
  <1>6. /\ thrown' \in [Callers -> BOOLEAN] /\ lock' \in Callers \cup {None}
        /\ wrongOk' \in BOOLEAN /\ obeyed' \in [Callers -> BOOLEAN]
    BY <1>1, <1>2 DEF MqttTypes
  <1>7. \A u \in Callers : thrown[u] => thrown'[u]
    BY <1>1, <1>2 DEF MqttTypes
  <1> QED
    BY <1>2, <1>3, <1>4, <1>5, <1>6, <1>7, StepKeeps

\* exec returns, or throws, and the Client is not disconnected by it.
LEMMA ExecEndKeeps ==
    ASSUME MqttInv, NEW t \in Callers, ExecOk(t) \/ ExecFail(t), at'[t] # "gone"
    PROVE  MqttInv'
  <1> USE DEF object, modem, history
  <1>1. MqttTypes
    BY DEF MqttInv
  <1>2. PICK op \in Ops, place \in Places :
            /\ at[t] = Busy[op] /\ Goto(t, place)
            /\ place = Then[op] \/ place = IF op = "disc" THEN "terminated" ELSE "disc"
            /\ lock' = None /\ obeyed' = [obeyed EXCEPT ![t] = FALSE]
            /\ thrown' = thrown \/ thrown' = [thrown EXCEPT ![t] = TRUE]
            /\ wrongOk' = wrongOk \/ wrongOk' = (wrongOk \/ ~obeyed[t])
            /\ UNCHANGED <<makes, mySlot, slots, flows, clients, connResult, events>>
            /\ UNCHANGED <<cmds, conns, online, crossed, tidy>>
    <2>1. "terminated" \in Places /\ "disc" \in Places /\ \A op \in Ops : Then[op] \in Places
      BY BusyIs, PlacesAre
    <2> QED
      BY <2>1 DEF ExecOk, ExecFail
  <1>3. at[t] \in InExec /\ (at[t] = "in disc" <=> op = "disc")
    BY <1>2, BusyIs
  <1>4. at'[t] = place
    BY <1>1, <1>2 DEF Goto, MqttTypes
  <1>5. place \in {"aliauth", "open", "connect", "wait", "disc", "terminated"}
    BY <1>2, <1>4, BusyIs
  <1>6. place \in Places /\ place \notin InExec
    BY <1>5, PlacesAre DEF InExec
  <1>7. op = "disc" => place = "terminated"
    BY <1>2, <1>4, BusyIs
  <1>8. \A u \in Callers : lock' = u <=> at'[u] \in InExec
    <2>1. \A u \in Callers : at'[u] \notin InExec
      <3>1. \A u \in Callers : u # t => at[u] \notin InExec
        BY <1>1, <1>3 DEF MqttTypes
      <3>2. \A u \in Callers : u # t => at'[u] = at[u]
        BY <1>1, <1>2, Goes DEF MqttTypes
      <3> QED
        BY <1>4, <1>6, <3>1, <3>2
    <2> QED
      BY <1>2, <2>1, MqttAssumption
  <1>9. at[t] \notin {"idle", "found", "gone", "last", "terminated"}
    BY <1>3 DEF InExec
  <1>10. /\ thrown' \in [Callers -> BOOLEAN] /\ lock' \in Callers \cup {None}
         /\ obeyed' \in [Callers -> BOOLEAN]
    BY <1>1, <1>2 DEF MqttTypes
  <1>11. wrongOk' \in BOOLEAN /\ (wrongOk => wrongOk')
    <2>1. wrongOk \in BOOLEAN
      BY <1>1 DEF MqttTypes
    <2>2. CASE wrongOk' = wrongOk
      BY <2>1, <2>2
    <2>3. CASE wrongOk' = (wrongOk \/ ~obeyed[t])
      BY <2>1, <2>3, Zenon
    <2> QED
      BY <1>2, <2>2, <2>3
  <1>12. /\ \A u \in Callers : thrown[u] => thrown'[u]
         /\ ~obeyed'[t] /\ \A u \in Callers : obeyed'[u] => obeyed[u]
    BY <1>1, <1>2 DEF MqttTypes
  <1>13. at[t] \in {"in disc", "terminated"} => place \in {"in disc", "terminated"}
    BY <1>3, <1>7, <1>9
  <1>14. place \notin {"idle", "found", "gone", "last", "held"}
    BY <1>5
  <1> QED
    BY <1>2, <1>6, <1>8, <1>9, <1>10, <1>11, <1>12, <1>13, <1>14, StepKeeps

\* exec begins: the command is the last one, and no command to disconnect the Flow
\* went before it.
LEMMA BeginKeeps ==
    ASSUME MqttInv, NEW t \in Callers, ExecBegin(t)
    PROVE  MqttInv'
  <1> USE DEF object, modem, history
  <1>1. MqttTypes /\ FlowsArePresent /\ SlotsArePresent /\ Faithful
    BY DEF MqttInv
  <1>2. PICK op \in Ops : op = at[t]
    BY DEF ExecBegin
  <1>3. PICK c : c = [op |-> op, slot |-> mySlot[t], flow |-> Flow(t)]
    OBVIOUS
  <1>4. c.op = op /\ c.slot = mySlot[t] /\ c.flow = Flow(t)
    BY <1>3
  <1>5. /\ lock = None /\ lock' = t /\ Goto(t, Busy[op])
        /\ cmds' = cmds \/ cmds' = Append(cmds, c)
        /\ UNCHANGED <<makes, mySlot, thrown, slots, flows, clients, connResult, events>>
        /\ UNCHANGED <<conns, online, crossed, obeyed, wrongOk, tidy>>
    BY <1>2, <1>3 DEF ExecBegin
  <1>6. PICK place \in InExec : place = Busy[op] /\ (place = "in disc" <=> op = "disc")
    BY BusyIs
  <1>7. /\ at' \in [Callers -> Places] /\ at'[t] = place
        /\ \A u \in Callers : u # t => at'[u] = at[u]
    BY <1>1, <1>5, <1>6, Goes, PlacesAre DEF MqttTypes
  <1>8. c \in [op : Ops, slot : Slots, flow : Flows]
    BY <1>1, <1>3 DEF MqttTypes, Flow, Flows
  <1>9. PICK q \in Seq([op : Ops, slot : Slots, flow : Flows]) : q = cmds
    BY <1>1 DEF MqttTypes
  <1>10. PICK r \in Seq([op : Ops, slot : Slots, flow : Flows]) :
            /\ r = cmds' /\ Len(q) \in Nat /\ Len(r) \in Nat
            /\ \/ r = q
               \/ Len(r) = Len(q) + 1 /\ r[Len(q) + 1] = c
            /\ \A k \in 1 .. Len(q) : r[k] = q[k]
    <2>1. CASE cmds' = q
      BY <1>9, <2>1, LenProperties
    <2>2. CASE cmds' = Append(q, c)
      <3> DEFINE S == [op : Ops, slot : Slots, flow : Flows]
      <3>1. c \in S /\ q \in Seq(S)
        BY <1>8, <1>9
      <3> HIDE DEF S
      <3>2. /\ Append(q, c) \in Seq(S) /\ Len(Append(q, c)) = Len(q) + 1
            /\ Append(q, c)[Len(q) + 1] = c
            /\ \A k \in 1 .. Len(q) : Append(q, c)[k] = q[k]
            /\ Len(q) \in Nat
        BY <3>1, AppendProperties, LenProperties
      <3>3. cmds' \in Seq(S) /\ Len(cmds') = Len(q) + 1 /\ Len(cmds') \in Nat
        BY <2>2, <3>2
      <3>4. cmds'[Len(q) + 1] = c /\ \A k \in 1 .. Len(q) : cmds'[k] = q[k]
        BY <2>2, <3>2
      <3> QED
        BY <3>2, <3>3, <3>4 DEF S
    <2> QED
      BY <1>5, <1>9, <2>1, <2>2
  <1>11. \A k \in 1 .. Len(r) : k \in 1 .. Len(q) \/ (k = Len(q) + 1 /\ r[k] = c)
    BY <1>10
  <1>12. at[t] \in Ops /\ at[t] \notin InExec /\ ~obeyed[t]
    BY <1>1, <1>2 DEF MqttTypes, Ops, InExec
  <1>13. MqttTypes'
    <2>1. \A u \in Callers : lock' = u <=> at'[u] \in InExec
      BY <1>1, <1>5, <1>6, <1>7, MqttAssumption DEF MqttTypes
    <2> QED
      BY <1>1, <1>5, <1>6, <1>7, <1>10, <2>1 DEF MqttTypes
  <1>14. at[t] \notin {"idle", "found", "last", "gone", "in disc", "terminated"}
         /\ place \notin {"idle", "found", "last", "gone", "held"}
    BY <1>6, <1>12 DEF Ops, InExec
  <1>15. UsersStay
    <2>1. ASSUME NEW u \in Callers
          PROVE  /\ (at'[u] = "idle") = (at[u] = "idle")
                 /\ (at'[u] = "found") = (at[u] = "found")
                 /\ (at'[u] = "last") = (at[u] = "last")
      BY <1>7, <1>14
    <2> QED
      BY <1>5, <2>1 DEF UsersStay
  <1>16. /\ FlowsArePresent' /\ SlotsArePresent' /\ (OneUserEach => OneUserEach')
         /\ \A u \in Callers : (HasFlow(u)' <=> HasFlow(u)) /\ Flow(u)' = Flow(u)
    BY <1>15, UsersKept
  <1>17. Faithful'
    <2> SUFFICES ASSUME ~crossed, ~wrongOk
                 PROVE  OneUserEach' /\ ModemIsPresent' /\ DiscIsLast' /\ Obeys' /\ ResultComes'
      BY <1>5 DEF Faithful
    <2>1. OneUserEach /\ ModemIsPresent /\ DiscIsLast /\ Obeys /\ ResultComes
      BY <1>1 DEF Faithful
    <2>2. ModemIsPresent'
      <3>1. \A f, s : Belongs(f, s) => Belongs(f, s)'
        BY <1>5, <1>7, <1>14, <1>16 DEF Belongs, Speaks
      <3>2. Belongs(c.flow, c.slot)'
        BY <1>3, <1>5, <1>7, <1>14, <1>16 DEF Belongs, Speaks
      <3>3. \A k \in 1 .. Len(r) : Belongs(r[k].flow, r[k].slot)'
        BY <1>9, <1>10, <1>11, <2>1, <3>1, <3>2 DEF ModemIsPresent
      <3> QED
        BY <1>5, <1>10, <2>1, <3>1, <3>3 DEF ModemIsPresent
    <2>3. \A k \in 1 .. Len(q) : q[k].op = "disc" => q[k].flow # Flow(t)
      BY <1>9, <1>14, <2>1 DEF DiscIsLast
    <2>4. DiscIsLast'
      <3>1. ASSUME NEW k \in 1 .. Len(r), r[k].op = "disc"
            PROVE  /\ \A u \in Callers : r[k].flow = Flow(u)' => at'[u] \in {"in disc", "terminated"}
                   /\ \A j \in 1 .. Len(r) : k < j => r[j].flow # r[k].flow
        <4>1. CASE k \in 1 .. Len(q)
          <5>1. r[k] = q[k] /\ q[k].flow # Flow(t)
            BY <1>10, <2>3, <3>1, <4>1
          <5>2. ASSUME NEW u \in Callers, q[k].flow = Flow(u)
                PROVE  at'[u] \in {"in disc", "terminated"}
            BY <1>7, <1>9, <2>1, <3>1, <4>1, <5>1, <5>2 DEF DiscIsLast
          <5>3. ASSUME NEW j \in 1 .. Len(r), k < j
                PROVE  r[j].flow # r[k].flow
            <6>1. CASE j \in 1 .. Len(q)
              BY <1>9, <1>10, <2>1, <3>1, <4>1, <5>1, <5>3, <6>1 DEF DiscIsLast
            <6>2. CASE r[j] = c
              BY <1>4, <5>1, <6>2
            <6> QED
              BY <1>11, <6>1, <6>2
          <5> QED
            BY <1>16, <5>1, <5>2, <5>3
        <4>2. CASE k = Len(q) + 1 /\ r[k] = c
          <5>1. place = "in disc" /\ c.flow = Flow(t)
            BY <1>6, <1>4, <3>1, <4>2
          <5>2. ASSUME NEW u \in Callers, c.flow = Flow(u)'
                PROVE  at'[u] \in {"in disc", "terminated"}
            <6>1. u = t
              BY <1>16, <5>1, <5>2, FlowsDiffer
            <6> QED
              BY <1>7, <5>1, <6>1
          <5>3. ~ \E j \in 1 .. Len(r) : k < j
            BY <1>10, <1>11, <4>2
          <5> QED
            BY <4>2, <5>2, <5>3
        <4> QED
          BY <1>11, <4>1, <4>2
      <3> QED
        BY <1>10, <3>1 DEF DiscIsLast
    <2>5. Obeys'
      <3>1. ASSUME NEW u \in Callers, obeyed'[u], at'[u] = "in disc"
            PROVE  Disconnected(u)'
        <4>1. u # t /\ at[u] = "in disc" /\ obeyed[u]
          BY <1>5, <1>7, <1>12, <3>1
        <4>2. Disconnected(u)
          BY <2>1, <4>1 DEF Obeys
        <4>3. c.flow # Flow(u)
          BY <1>3, <4>1, FlowsDiffer
        <4>4. \A k \in 1 .. Len(r) : r[k].flow # Flow(u)
          BY <1>9, <1>10, <1>11, <4>2, <4>3 DEF Disconnected
        <4> QED
          BY <1>5, <1>10, <1>16, <4>2, <4>4 DEF Disconnected
      <3> QED
        BY <3>1 DEF Obeys
    <2>6. ResultComes'
      BY <1>5, <1>7, <1>14, <1>16, <2>1, ResultKept
    <2> QED
      BY <1>16, <2>1, <2>2, <2>4, <2>5, <2>6
  <1> QED
    BY <1>13, <1>16, <1>17 DEF MqttInv

-----------------------------------------------------------------------------
(* The steps that give up a connection, a Client or a Flow *)

\* exec reports that the Client is disconnected: if it tells the truth, nothing of it
\* is left in the modem.
LEMMA DisconnectKeeps ==
    ASSUME MqttInv, NEW t \in Callers, ExecOk(t), at'[t] = "gone"
    PROVE  MqttInv'
  <1> USE DEF object, modem, history
  <1>1. MqttTypes /\ FlowsArePresent /\ SlotsArePresent /\ Faithful
    BY DEF MqttInv
  <1>2. PICK op \in Ops :
            /\ at[t] = Busy[op] /\ Goto(t, Then[op])
            /\ lock' = None /\ obeyed' = [obeyed EXCEPT ![t] = FALSE]
            /\ wrongOk' = (wrongOk \/ ~obeyed[t])
            /\ UNCHANGED <<makes, mySlot, thrown, slots, flows, clients, connResult, events>>
            /\ UNCHANGED <<cmds, conns, online, crossed, tidy>>
    BY DEF ExecOk
  <1>3. /\ at' \in [Callers -> Places] /\ at'[t] = "gone" /\ at[t] \in InExec
        /\ \A u \in Callers : u # t => at'[u] = at[u]
    BY <1>1, <1>2, BusyIs, Goes DEF MqttTypes
  <1>4. op = "disc" /\ at[t] = "in disc"
    <2>1. at'[t] = Then[op]
      BY <1>1, <1>2, BusyIs, Goes DEF MqttTypes
    <2> QED
      BY <1>2, <1>3, <2>1, BusyIs
  <1>5. MqttTypes'
    <2>1. \A u \in Callers : u # t => at[u] \notin InExec /\ at'[u] \notin InExec
      BY <1>1, <1>3 DEF MqttTypes
    <2>2. \A u \in Callers : lock' = u <=> at'[u] \in InExec
      BY <1>2, <1>3, <2>1, MqttAssumption DEF InExec
    <2>3. wrongOk' \in BOOLEAN
      BY <1>2, Zenon
    <2>4. \A u \in Callers : obeyed'[u] => at'[u] \in InExec
      BY <1>1, <1>2, <1>3 DEF MqttTypes
    <2> QED
      BY <1>1, <1>2, <1>3, <2>2, <2>3, <2>4 DEF MqttTypes
  <1>6. UsersStay
    <2>1. ASSUME NEW u \in Callers
          PROVE  /\ (at'[u] = "idle") = (at[u] = "idle")
                 /\ (at'[u] = "found") = (at[u] = "found")
                 /\ (at'[u] = "last") = (at[u] = "last")
      BY <1>3, <1>4
    <2> QED
      BY <1>2, <2>1 DEF UsersStay
  <1>7. /\ FlowsArePresent' /\ SlotsArePresent' /\ (OneUserEach => OneUserEach')
        /\ \A u \in Callers : (HasFlow(u)' <=> HasFlow(u)) /\ Flow(u)' = Flow(u)
    BY <1>6, UsersKept
  <1>8. Faithful'
    <2> SUFFICES ASSUME ~crossed, ~wrongOk'
                 PROVE  OneUserEach' /\ ModemIsPresent' /\ DiscIsLast' /\ Obeys' /\ ResultComes'
      BY <1>2 DEF Faithful
    <2>1. ~wrongOk /\ obeyed[t]
      BY <1>2, Zenon
    <2>2. OneUserEach /\ ModemIsPresent /\ DiscIsLast /\ Obeys /\ ResultComes
      BY <1>1, <2>1 DEF Faithful
    <2>3. Disconnected(t)
      BY <1>4, <2>1, <2>2 DEF Obeys
    <2>4. ASSUME NEW f, NEW s, Belongs(f, s), f # Flow(t) \/ s # mySlot[t]
          PROVE  Belongs(f, s)'
      BY <1>2, <1>3, <1>7, <2>4 DEF Belongs, Speaks
    <2>5. ModemIsPresent'
      <3>1. \A k \in 1 .. Len(cmds) : Belongs(cmds[k].flow, cmds[k].slot)'
        BY <1>2, <2>2, <2>3, <2>4 DEF ModemIsPresent, Disconnected
      <3>2. ASSUME NEW s \in Slots, NEW k \in 1 .. Len(conns[s])
            PROVE  Belongs(conns[s][k], s)'
        <4>1. s # mySlot[t]
          BY <2>3 DEF Disconnected
        <4> QED
          BY <1>2, <2>2, <2>4, <4>1 DEF ModemIsPresent
      <3>3. ASSUME NEW s \in Slots, online[s] # None
            PROVE  Belongs(online[s], s)'
        <4>1. s # mySlot[t]
          BY <2>3, <3>3 DEF Disconnected
        <4> QED
          BY <1>2, <2>2, <2>4, <3>3, <4>1 DEF ModemIsPresent
      <3> QED
        BY <1>2, <3>1, <3>2, <3>3 DEF ModemIsPresent
    <2>6. DiscIsLast'
      <3>1. ASSUME NEW k \in 1 .. Len(cmds), cmds[k].op = "disc",
                   NEW u \in Callers, cmds[k].flow = Flow(u)
            PROVE  at'[u] \in {"in disc", "terminated"}
        BY <1>3, <2>2, <2>3, <3>1 DEF DiscIsLast, Disconnected
      <3> QED
        BY <1>2, <1>7, <2>2, <3>1 DEF DiscIsLast
    <2>7. Obeys'
      <3>1. \A u \in Callers : obeyed'[u] => obeyed[u] /\ at'[u] = at[u]
        BY <1>1, <1>2, <1>3 DEF MqttTypes
      <3> QED
        BY <1>2, <2>2, <3>1, ObeysKept
    <2>8. ResultComes'
      BY <1>2, <1>3, <1>4, <1>7, <2>2, ResultKept
    <2> QED
      BY <1>7, <2>2, <2>5, <2>6, <2>7, <2>8
  <1> QED
    BY <1>5, <1>7, <1>8 DEF MqttInv

\* The Client goes, and the Flow with it or after it.
LEMMA LeaveKeeps ==
    ASSUME MqttInv, NEW t \in Callers, ClientGone(t) \/ LastReference(t)
    PROVE  MqttInv'
  <1> USE DEF object, modem, history
  <1>1. MqttTypes /\ FlowsArePresent /\ SlotsArePresent /\ Faithful
    BY DEF MqttInv
  <1>2. PICK place \in {"last", "idle"} :
            /\ Goto(t, place)
            /\ place = "last" => at[t] = "gone" /\ thrown[t] /\ flows' = flows
            /\ place = "idle" => flows' = flows \ {Flow(t)}
    BY DEF ClientGone, LastReference
  <1>3. /\ at[t] \in {"gone", "last"}
        /\ at[t] = "gone" => clients' = clients \ {Flow(t)}
        /\ at[t] = "last" => clients' = clients
        /\ UNCHANGED <<makes, mySlot, thrown, lock, slots, connResult, events>>
        /\ UNCHANGED <<cmds, conns, online, crossed, obeyed, wrongOk, tidy>>
    BY DEF ClientGone, LastReference
  <1>4. /\ at' \in [Callers -> Places] /\ at'[t] = place
        /\ \A u \in Callers : u # t => at'[u] = at[u]
    BY <1>1, <1>2, Goes, PlacesAre DEF MqttTypes
  <1>5. \A u \in Callers : /\ Flow(u)' = Flow(u)
                           /\ u # t => (HasFlow(u)' <=> HasFlow(u)) /\ Flow(u) # Flow(t)
                           /\ Speaks(u) <=> Speaks(u)'
    BY <1>2, <1>3, <1>4, FlowsDiffer DEF Flow, HasFlow, Speaks
  <1>6. HasFlow(t) /\ (HasFlow(t)' <=> place = "last")
    BY <1>2, <1>3, <1>4 DEF HasFlow
  <1>7. MqttTypes'
    <2>1. \A u \in Callers : /\ lock' = u <=> at'[u] \in InExec
                             /\ obeyed'[u] => at'[u] \in InExec
      BY <1>1, <1>2, <1>3, <1>4 DEF MqttTypes, InExec
    <2> QED
      BY <1>1, <1>3, <1>4, <2>1 DEF MqttTypes
  <1>8. FlowsArePresent'
    <2>1. flows' = {Flow(w)' : w \in {u \in Callers : HasFlow(u)'}}
      <3>1. flows = {Flow(w) : w \in {u \in Callers : HasFlow(u)}}
        BY <1>1 DEF FlowsArePresent
      <3>2. CASE place = "last"
        BY <1>2, <1>5, <1>6, <3>1, <3>2
      <3>3. CASE place = "idle"
        BY <1>2, <1>5, <1>6, <3>1, <3>3
      <3> QED
        BY <1>2, <3>2, <3>3
    <2>2. clients' = {Flow(w)' : w \in {u \in Callers : HasFlow(u)' /\ at'[u] # "last"}}
      <3>1. clients = {Flow(w) : w \in {u \in Callers : HasFlow(u) /\ at[u] # "last"}}
        BY <1>1 DEF FlowsArePresent
      <3>2. clients' = clients \ {Flow(t)}
        BY <1>3, <1>5, <3>1
      <3>3. ~(HasFlow(t)' /\ at'[t] # "last")
        BY <1>2, <1>4, <1>6
      <3> QED
        BY <1>4, <1>5, <3>1, <3>2, <3>3
    <2>3. \A u \in Callers : at'[u] = "last" => thrown'[u]
      BY <1>1, <1>2, <1>3, <1>4 DEF FlowsArePresent
    <2> QED
      BY <2>1, <2>2, <2>3 DEF FlowsArePresent
  <1>9. SlotsArePresent'
    BY <1>1, <1>2, <1>3, <1>4 DEF SlotsArePresent
  <1>10. Faithful'
    <2> SUFFICES ASSUME ~crossed, ~wrongOk
                 PROVE  OneUserEach' /\ ModemIsPresent' /\ DiscIsLast' /\ Obeys' /\ ResultComes'
      BY <1>3 DEF Faithful
    <2>1. OneUserEach /\ ModemIsPresent /\ DiscIsLast /\ Obeys /\ ResultComes
      BY <1>1 DEF Faithful
    <2>2. OneUserEach'
      BY <1>2, <1>3, <1>4, <1>5, <1>6, <2>1 DEF OneUserEach
    <2>3. ModemIsPresent'
      BY <1>3, <1>5, <2>1, ModemKept
    <2>4. DiscIsLast'
      BY <1>3, <1>4, <2>1, DiscKept
    <2>5. Obeys'
      BY <1>2, <1>3, <1>4, <1>5, <2>1 DEF Obeys, Disconnected
    <2>6. ResultComes'
      BY <1>2, <1>3, <1>4, <1>5, <1>6, <2>1, ResultKept
    <2> QED
      BY <2>2, <2>3, <2>4, <2>5, <2>6
  <1> QED
    BY <1>7, <1>8, <1>9, <1>10 DEF MqttInv

-----------------------------------------------------------------------------
(* createAli begins *)

\* A thread without a Flow calls createAli: its next Flow is not in any slot, and not
\* in the modem.
LEMMA CallKeeps ==
    ASSUME MqttInv, NEW t \in Callers, at[t] = "idle",
           NEW place \in {"idle", "found"}, at' = [at EXCEPT ![t] = place],
           makes' = [makes EXCEPT ![t] = @ + 1],
           NEW s \in Slots, mySlot' = [mySlot EXCEPT ![t] = s],
           \A u \in Callers : u # t => thrown'[u] = thrown[u],
           UNCHANGED <<slots, flows, clients, cmds, conns, online, obeyed>>
    PROVE  /\ FlowsArePresent' /\ SlotsArePresent'
           /\ ModemIsPresent => ModemIsPresent'
           /\ ModemIsPresent /\ DiscIsLast => DiscIsLast'
           /\ Obeys => Obeys'
           /\ \A u \in Callers : u # t =>
                  at'[u] = at[u] /\ Flow(u)' = Flow(u) /\ (HasFlow(u)' <=> HasFlow(u))
           /\ ~HasFlow(t)' /\ at'[t] = place
  <1>1. MqttTypes /\ FlowsArePresent /\ SlotsArePresent
    BY DEF MqttInv
  <1>2. /\ at'[t] = place /\ makes[t] \in Nat /\ makes'[t] = makes[t] + 1 /\ mySlot'[t] = s
        /\ \A u \in Callers : u # t =>
               at'[u] = at[u] /\ makes'[u] = makes[u] /\ mySlot'[u] = mySlot[u]
    BY <1>1 DEF MqttTypes
  <1>3. \A u \in Callers : u # t =>
            /\ Flow(u)' = Flow(u) /\ Flow(u) # Flow(t) /\ Flow(u) # Flow(t)'
            /\ HasFlow(u)' <=> HasFlow(u)
            /\ Speaks(u)' <=> Speaks(u)
    BY <1>2, FlowsDiffer DEF Flow, HasFlow, Speaks
  <1>4. ~HasFlow(t) /\ ~HasFlow(t)' /\ ~Speaks(t) /\ ~Speaks(t)'
    BY <1>2 DEF HasFlow, Speaks
  <1>5. FlowsArePresent'
    <2>1. /\ {u \in Callers : HasFlow(u)'} = {u \in Callers : HasFlow(u)}
          /\ {u \in Callers : HasFlow(u)' /\ at'[u] # "last"}
                 = {u \in Callers : HasFlow(u) /\ at[u] # "last"}
      BY <1>2, <1>3, <1>4
    <2>2. /\ {Flow(w)' : w \in {u \in Callers : HasFlow(u)}}
                 = {Flow(w) : w \in {u \in Callers : HasFlow(u)}}
          /\ {Flow(w)' : w \in {u \in Callers : HasFlow(u) /\ at[u] # "last"}}
                 = {Flow(w) : w \in {u \in Callers : HasFlow(u) /\ at[u] # "last"}}
      BY <1>3, <1>4
    <2>3. \A u \in Callers : at'[u] = "last" => thrown'[u]
      BY <1>1, <1>2 DEF FlowsArePresent
    <2> QED
      BY <1>1, <2>1, <2>2, <2>3 DEF FlowsArePresent
  <1>6. SlotsArePresent'
    BY <1>1, <1>2 DEF SlotsArePresent
  <1>7. \A f, ss : Belongs(f, ss) => Belongs(f, ss)' /\ f # Flow(t)'
    BY <1>2, <1>3, <1>4 DEF Belongs
  <1>8. ModemIsPresent => ModemIsPresent'
    BY <1>7 DEF ModemIsPresent
  <1>9. ModemIsPresent /\ DiscIsLast => DiscIsLast'
    <2> SUFFICES ASSUME ModemIsPresent, DiscIsLast PROVE DiscIsLast'
      OBVIOUS
    <2>1. ASSUME NEW k \in 1 .. Len(cmds), cmds[k].op = "disc",
                 NEW u \in Callers, cmds[k].flow = Flow(u)'
          PROVE  at'[u] \in {"in disc", "terminated"}
      <3>1. cmds[k].flow # Flow(t)'
        BY <1>7 DEF ModemIsPresent
      <3>2. u # t /\ cmds[k].flow = Flow(u)
        BY <1>3, <2>1, <3>1
      <3> QED
        BY <1>2, <2>1, <3>2 DEF DiscIsLast
    <2> QED
      BY <2>1 DEF DiscIsLast
  <1>10. Obeys => Obeys'
    <2> SUFFICES ASSUME Obeys, NEW u \in Callers, obeyed[u], at'[u] = "in disc"
                 PROVE  Disconnected(u)'
      BY DEF Obeys
    <2>1. u # t /\ Disconnected(u)
      BY <1>2 DEF Obeys
    <2> QED
      <3>1. /\ mySlot'[u] = mySlot[u] /\ Flow(u)' = Flow(u)
            /\ cmds' = cmds /\ conns' = conns /\ online' = online
        BY <1>2, <1>3, <2>1
      <3> QED
        BY <2>1, <3>1 DEF Disconnected
  <1> QED
    BY <1>2, <1>3, <1>4, <1>5, <1>6, <1>8, <1>9, <1>10

\* A slot is found whose Flow has expired.
LEMMA FindKeeps ==
    ASSUME MqttInv, NEW t \in Callers, NEW s \in Slots, GetNext(t, s)
    PROVE  MqttInv'
  <1> USE DEF modem
  <1>1. MqttTypes /\ FlowsArePresent /\ SlotsArePresent /\ Faithful
    BY DEF MqttInv
  <1>2. /\ at[t] = "idle" /\ Expired(s) /\ at' = [at EXCEPT ![t] = "found"]
        /\ makes' = [makes EXCEPT ![t] = @ + 1]
        /\ mySlot' = [mySlot EXCEPT ![t] = s]
        /\ thrown' = [thrown EXCEPT ![t] = FALSE]
        /\ connResult' = [connResult EXCEPT ![t] = None]
        /\ tidy' = [tidy EXCEPT ![t] = s \notin events]
        /\ UNCHANGED <<lock, slots, flows, clients, events, obeyed, wrongOk>>
        /\ UNCHANGED <<cmds, conns, online>>
    BY DEF GetNext, Goto
  <1>3. crossed' = (crossed \/ InTransit(s, t))
    BY DEF GetNext
  <1>4. PICK place \in {"idle", "found"} : place = "found"
    OBVIOUS
  <1>5. \A u \in Callers : u # t => thrown'[u] = thrown[u]
    BY <1>1, <1>2 DEF MqttTypes
  <1>6. /\ FlowsArePresent' /\ SlotsArePresent'
        /\ ModemIsPresent => ModemIsPresent'
        /\ ModemIsPresent /\ DiscIsLast => DiscIsLast'
        /\ Obeys => Obeys'
        /\ \A u \in Callers : u # t =>
               at'[u] = at[u] /\ Flow(u)' = Flow(u) /\ (HasFlow(u)' <=> HasFlow(u))
        /\ ~HasFlow(t)' /\ at'[t] = "found"
    BY <1>2, <1>4, <1>5, CallKeeps
  <1>7. MqttTypes'
    <2>1. crossed' \in BOOLEAN
      BY <1>3, Zenon
    <2>2. at' \in [Callers -> Places]
      BY <1>1, <1>2, PlacesAre DEF MqttTypes
    <2>3. \A u \in Callers : /\ lock' = u <=> at'[u] \in InExec
                             /\ obeyed'[u] => at'[u] \in InExec
      BY <1>1, <1>2, <1>6 DEF MqttTypes, InExec
    <2>4. tidy' \in [Callers -> BOOLEAN]
      BY <1>1, <1>2 DEF MqttTypes
    <2> QED
      BY <1>1, <1>2, <2>1, <2>2, <2>3, <2>4 DEF MqttTypes
  <1>8. Faithful'
    <2> SUFFICES ASSUME ~crossed', ~wrongOk
                 PROVE  OneUserEach' /\ ModemIsPresent' /\ DiscIsLast' /\ Obeys' /\ ResultComes'
      BY <1>2 DEF Faithful
    <2>1. ~crossed /\ ~InTransit(s, t)
      BY <1>3, Zenon
    <2>2. OneUserEach /\ ModemIsPresent /\ DiscIsLast /\ Obeys /\ ResultComes
      BY <1>1, <2>1 DEF Faithful
    <2>3. ASSUME NEW u \in Callers, u # t, at[u] # "idle", mySlot[u] = s
          PROVE  FALSE
      <3>1. HasFlow(u)
        BY <2>1, <2>3 DEF InTransit, HasFlow
      <3>2. slots[s] = Flow(u) /\ Flow(u) \in flows
        BY <1>1, <2>2, <2>3, <3>1 DEF OneUserEach, FlowsArePresent
      <3> QED
        BY <1>2, <3>2 DEF Expired
    <2>4. mySlot'[t] = s /\ \A u \in Callers : u # t => mySlot'[u] = mySlot[u]
      BY <1>1, <1>2 DEF MqttTypes
    <2>5. OneUserEach'
      BY <1>2, <1>6, <2>2, <2>3, <2>4 DEF OneUserEach
    <2>6. ResultComes'
      <3>1. /\ connResult'[t] = None /\ tidy'[t] = (s \notin events)
            /\ \A u \in Callers : u # t => connResult'[u] = connResult[u] /\ tidy'[u] = tidy[u]
        BY <1>1, <1>2 DEF MqttTypes
      <3>2. ASSUME NEW u \in Callers, u # t, at'[u] # "idle"
            PROVE  /\ connResult'[u] \in {None, Flow(u)'}
                   /\ tidy'[u] /\ (mySlot'[u] \in events' \/ at'[u] = "held") =>
                          HasFlow(u)' /\ connResult'[u] = Flow(u)'
        BY <1>2, <1>6, <2>2, <2>4, <3>1, <3>2 DEF ResultComes
      <3>3. tidy'[t] => s \notin events
        BY <3>1, Zenon
      <3> QED
        BY <1>2, <1>6, <2>4, <3>1, <3>2, <3>3 DEF ResultComes
    <2> QED
      BY <1>6, <2>2, <2>5, <2>6
  <1> QED
    BY <1>6, <1>7, <1>8 DEF MqttInv

\* Every slot is taken.
LEMMA ExhaustedKeeps ==
    ASSUME MqttInv, NEW t \in Callers, Exhausted(t)
    PROVE  MqttInv'
  <1> USE DEF object, modem, history
  <1>1. MqttTypes /\ FlowsArePresent /\ SlotsArePresent /\ Faithful
    BY DEF MqttInv
  <1>2. /\ at[t] = "idle" /\ makes' = [makes EXCEPT ![t] = @ + 1]
        /\ UNCHANGED <<at, mySlot, thrown, lock, slots, flows, clients, connResult, events>>
        /\ UNCHANGED <<cmds, conns, online, crossed, obeyed, wrongOk, tidy>>
    BY DEF Exhausted
  <1>3. PICK place \in {"idle", "found"} : place = "idle"
    OBVIOUS
  <1>4. PICK s \in Slots : s = mySlot[t]
    BY <1>1 DEF MqttTypes
  <1>5. at' = [at EXCEPT ![t] = place] /\ mySlot' = [mySlot EXCEPT ![t] = s]
    BY <1>1, <1>2, <1>3, <1>4 DEF MqttTypes
  <1>6. /\ FlowsArePresent' /\ SlotsArePresent'
        /\ ModemIsPresent => ModemIsPresent'
        /\ ModemIsPresent /\ DiscIsLast => DiscIsLast'
        /\ Obeys => Obeys'
        /\ \A u \in Callers : u # t =>
               at'[u] = at[u] /\ Flow(u)' = Flow(u) /\ (HasFlow(u)' <=> HasFlow(u))
        /\ ~HasFlow(t)'
    BY <1>2, <1>5, CallKeeps
  <1>7. MqttTypes'
    BY <1>1, <1>2 DEF MqttTypes
  <1>8. OneUserEach => OneUserEach'
    BY <1>2, <1>6 DEF OneUserEach
  <1>9. ResultComes => ResultComes'
    BY <1>2, <1>6 DEF ResultComes
  <1> QED
    BY <1>1, <1>2, <1>6, <1>7, <1>8, <1>9 DEF MqttInv, Faithful

\* The Flow takes its slot.
LEMMA TakeKeeps ==
    ASSUME MqttInv, NEW t \in Callers, TakeSlot(t)
    PROVE  MqttInv'
  <1> USE DEF modem, history
  <1>1. MqttTypes /\ FlowsArePresent /\ SlotsArePresent /\ Faithful
    BY DEF MqttInv
  <1>2. /\ at[t] = "found" /\ Goto(t, "cloud")
        /\ slots' = [slots EXCEPT ![mySlot[t]] = Flow(t)]
        /\ flows' = flows \cup {Flow(t)} /\ clients' = clients \cup {Flow(t)}
        /\ UNCHANGED <<makes, mySlot, thrown, lock, connResult, events>>
        /\ UNCHANGED <<cmds, conns, online, crossed, obeyed, wrongOk, tidy>>
    BY DEF TakeSlot
  <1>3. /\ at' \in [Callers -> Places] /\ at'[t] = "cloud"
        /\ \A u \in Callers : u # t => at'[u] = at[u]
    BY <1>1, <1>2, Goes, PlacesAre DEF MqttTypes
  <1>4. \A u \in Callers : /\ Flow(u)' = Flow(u)
                           /\ u # t => (HasFlow(u)' <=> HasFlow(u)) /\ Flow(u) # Flow(t)
                           /\ Speaks(u) => Speaks(u)'
    BY <1>2, <1>3, FlowsDiffer DEF Flow, HasFlow, Speaks
  <1>5. ~HasFlow(t) /\ HasFlow(t)'
    BY <1>2, <1>3 DEF HasFlow
  <1>6. mySlot[t] \in Slots /\ Flow(t) \in Flows /\ makes[t] \in Nat
    BY <1>1 DEF MqttTypes, Flow, Flows
  <1>7. MqttTypes'
    <2>1. \A u \in Callers : /\ lock' = u <=> at'[u] \in InExec
                             /\ obeyed'[u] => at'[u] \in InExec
      BY <1>1, <1>2, <1>3 DEF MqttTypes, InExec
    <2>2. slots' \in [Slots -> Flows \cup {None}]
      BY <1>1, <1>2, <1>6 DEF MqttTypes
    <2> QED
      BY <1>1, <1>2, <1>3, <2>1, <2>2 DEF MqttTypes
  <1>8. FlowsArePresent'
    <2>1. flows' = {Flow(w)' : w \in {u \in Callers : HasFlow(u)'}}
      BY <1>1, <1>2, <1>4, <1>5 DEF FlowsArePresent
    <2>2. clients' = {Flow(w)' : w \in {u \in Callers : HasFlow(u)' /\ at'[u] # "last"}}
      BY <1>1, <1>2, <1>3, <1>4, <1>5 DEF FlowsArePresent
    <2>3. \A u \in Callers : at'[u] = "last" => thrown'[u]
      BY <1>1, <1>2, <1>3 DEF FlowsArePresent
    <2> QED
      BY <2>1, <2>2, <2>3 DEF FlowsArePresent
  <1>9. SlotsArePresent'
    <2>1. ASSUME NEW s \in Slots, NEW u \in Callers, NEW n \in Nat, slots'[s] = <<u, n>>
          PROVE  n <= makes[u] /\ (n = makes[u] => mySlot[u] = s /\ at'[u] # "found")
      <3>1. CASE s = mySlot[t]
        <4>1. <<u, n>> = <<t, makes[t]>>
          BY <1>1, <1>2, <2>1, <3>1 DEF MqttTypes, Flow
        <4>2. u = t /\ n = makes[t]
          BY <4>1
        <4> QED
          BY <1>3, <1>6, <3>1, <4>2
      <3>2. CASE s # mySlot[t]
        <4>1. slots[s] = <<u, n>>
          BY <1>1, <1>2, <2>1, <3>2 DEF MqttTypes
        <4> QED
          BY <1>1, <1>3, <4>1 DEF SlotsArePresent
      <3> QED
        BY <3>1, <3>2
    <2> QED
      BY <1>2, <2>1 DEF SlotsArePresent
  <1>10. Faithful'
    <2> SUFFICES ASSUME ~crossed, ~wrongOk
                 PROVE  OneUserEach' /\ ModemIsPresent' /\ DiscIsLast' /\ Obeys' /\ ResultComes'
      BY <1>2 DEF Faithful
    <2>1. OneUserEach /\ ModemIsPresent /\ DiscIsLast /\ Obeys /\ ResultComes
      BY <1>1 DEF Faithful
    <2>2. OneUserEach'
      <3>1. \A u \in Callers : at'[u] = "idle" <=> at[u] = "idle"
        BY <1>2, <1>3
      <3>2. ASSUME NEW u \in Callers, HasFlow(u)'
            PROVE  slots'[mySlot[u]] = Flow(u)
        <4>1. CASE u = t
          BY <1>1, <1>2, <1>6, <4>1 DEF MqttTypes
        <4>2. CASE u # t
          <5>1. HasFlow(u) /\ at[u] # "idle"
            BY <1>4, <3>2, <4>2 DEF HasFlow
          <5>2. mySlot[u] # mySlot[t]
            BY <1>2, <2>1, <4>2, <5>1 DEF OneUserEach
          <5>3. slots[mySlot[u]] = Flow(u) /\ mySlot[u] \in Slots
            BY <1>1, <2>1, <5>1 DEF OneUserEach, MqttTypes
          <5> QED
            BY <1>1, <1>2, <5>2, <5>3 DEF MqttTypes
        <4> QED
          BY <4>1, <4>2
      <3> QED
        BY <1>2, <1>4, <2>1, <3>1, <3>2 DEF OneUserEach
    <2>3. ModemIsPresent'
      BY <1>2, <1>4, <2>1, ModemKept
    <2>4. DiscIsLast'
      BY <1>2, <1>3, <2>1, DiscKept
    <2>5. Obeys'
      BY <1>2, <1>3, <1>4, <2>1 DEF Obeys, Disconnected
    <2>6. ResultComes'
      BY <1>2, <1>3, <1>4, <1>5, <2>1, ResultKept
    <2> QED
      BY <2>2, <2>3, <2>4, <2>5, <2>6
  <1> QED
    BY <1>7, <1>8, <1>9, <1>10 DEF MqttInv

-----------------------------------------------------------------------------
(* The modem and the lines *)

\* The Flow in a slot that has not expired has the slot, and the thread has no other.
LEMMA SlotIsUsed ==
    ASSUME MqttInv, NEW s \in Slots, ~Expired(s)
    PROVE  \E v \in Callers : slots[s] = Flow(v) /\ HasFlow(v) /\ mySlot[v] = s
  <1>1. MqttTypes /\ FlowsArePresent /\ SlotsArePresent
    BY DEF MqttInv
  <1>2. PICK v \in Callers : HasFlow(v) /\ slots[s] = Flow(v)
    BY <1>1 DEF Expired, FlowsArePresent
  <1>3. makes[v] \in Nat /\ slots[s] = <<v, makes[v]>>
    BY <1>1, <1>2 DEF MqttTypes, Flow
  <1> QED
    BY <1>1, <1>2, <1>3 DEF SlotsArePresent

\* The announcement of a connection is handled.
LEMMA UrcKeeps ==
    ASSUME MqttInv, NEW s \in Slots, UrcConn(s)
    PROVE  MqttInv'
  <1> USE DEF history
  <1>1. MqttTypes /\ FlowsArePresent /\ SlotsArePresent /\ Faithful
    BY DEF MqttInv
  <1>2. /\ conns[s] # <<>> /\ conns' = [conns EXCEPT ![s] = Tail(@)]
        /\ UNCHANGED <<makes, mySlot, thrown, lock, slots, flows, clients, cmds, online>>
        /\ UNCHANGED <<crossed, obeyed, wrongOk, tidy>>
        /\ IF Expired(s) THEN UNCHANGED <<at, connResult, events>> ELSE OnConn(s)
    BY DEF UrcConn
  <1>3. /\ conns[s] \in Seq(Flows) /\ Head(conns[s]) \in Flows /\ Head(conns[s]) = conns[s][1]
        /\ Tail(conns[s]) \in Seq(Flows) /\ Len(conns[s]) \in Nat /\ 1 <= Len(conns[s])
        /\ Len(Tail(conns[s])) = Len(conns[s]) - 1
        /\ \A k \in 1 .. Len(Tail(conns[s])) : Tail(conns[s])[k] = conns[s][k + 1]
    <2>1. conns[s] \in Seq(Flows)
      BY <1>1 DEF MqttTypes
    <2> QED
      BY <1>2, <2>1, Shorter
  <1>4. /\ conns'[s] = Tail(conns[s]) /\ conns' \in [Slots -> Seq(Flows)]
        /\ \A x \in Slots : x # s => conns'[x] = conns[x]
    BY <1>1, <1>2, <1>3 DEF MqttTypes
  <1>5. /\ at' \in [Callers -> Places]
        /\ \A u \in Callers : \/ at'[u] = at[u]
                              \/ /\ at[u] = "asleep" /\ at'[u] = "held"
                                 /\ mySlot[u] = s /\ ~Expired(s)
    BY <1>1, <1>2, PlacesAre DEF MqttTypes, OnConn, SetConnected
  <1>6. events' \subseteq events \cup {s} /\ (Expired(s) => events' = events)
    BY <1>2 DEF OnConn, SetConnected
  <1>7. connResult' \in [Callers -> Flows \cup {None}]
    <2>1. connResult \in [Callers -> Flows \cup {None}]
      BY <1>1 DEF MqttTypes
    <2>2. CASE Expired(s)
      BY <1>2, <2>1, <2>2
    <2>3. CASE ~Expired(s)
      <3>1. connResult' = [u \in Callers |-> IF Flow(u) = slots[s] THEN Head(conns[s])
                                                                  ELSE connResult[u]]
        BY <1>2, <2>3 DEF OnConn
      <3> QED
        BY <1>3, <2>1, <3>1
    <2> QED
      BY <2>2, <2>3
  <1>8. MqttTypes'
    <2>1. \A u \in Callers : at'[u] \in InExec <=> at[u] \in InExec
      BY <1>5 DEF InExec
    <2> QED
      BY <1>1, <1>2, <1>4, <1>5, <1>6, <1>7, <2>1 DEF MqttTypes
  <1>9. UsersStay
    <2>1. ASSUME NEW u \in Callers
          PROVE  /\ (at'[u] = "idle") = (at[u] = "idle")
                 /\ (at'[u] = "found") = (at[u] = "found")
                 /\ (at'[u] = "last") = (at[u] = "last")
      BY <1>5
    <2> QED
      BY <1>2, <2>1 DEF UsersStay
  <1>10. /\ FlowsArePresent' /\ SlotsArePresent' /\ (OneUserEach => OneUserEach')
         /\ \A u \in Callers : (HasFlow(u)' <=> HasFlow(u)) /\ Flow(u)' = Flow(u)
    BY <1>9, UsersKept
  <1>11. Faithful'
    <2> SUFFICES ASSUME ~crossed, ~wrongOk
                 PROVE  OneUserEach' /\ ModemIsPresent' /\ DiscIsLast' /\ Obeys' /\ ResultComes'
      BY <1>2 DEF Faithful
    <2>1. OneUserEach /\ ModemIsPresent /\ DiscIsLast /\ Obeys /\ ResultComes
      BY <1>1 DEF Faithful
    <2>2. \A u \in Callers : /\ Flow(u)' = Flow(u) /\ mySlot'[u] = mySlot[u]
                             /\ Speaks(u) => Speaks(u)'
      BY <1>2, <1>5, <1>10 DEF Speaks
    <2>3. ModemIsPresent'
      <3>1. ASSUME NEW x \in Slots, NEW k \in 1 .. Len(conns'[x])
            PROVE  \E j \in 1 .. Len(conns[x]) : conns'[x][k] = conns[x][j]
        <4>1. CASE x = s
          <5>1. k \in 1 .. Len(Tail(conns[s])) /\ k + 1 \in 1 .. Len(conns[s])
            BY <1>3, <1>4, <3>1, <4>1
          <5> QED
            BY <1>3, <1>4, <4>1, <5>1
        <4>2. CASE x # s
          BY <1>4, <3>1, <4>2
        <4> QED
          BY <4>1, <4>2
      <3>2. \A x \in Slots : \A k \in 1 .. Len(conns'[x]) : Belongs(conns'[x][k], x)
        BY <2>1, <3>1 DEF ModemIsPresent
      <3> QED
        BY <1>2, <2>1, <2>2, <3>2 DEF ModemIsPresent, Belongs
    <2>4. DiscIsLast'
      BY <1>2, <1>5, <2>1, DiscKept
    <2>5. Obeys'
      <3>1. ASSUME NEW u \in Callers, obeyed[u], at'[u] = "in disc"
            PROVE  Disconnected(u)'
        <4>1. Disconnected(u) /\ mySlot[u] \in Slots
          BY <1>1, <1>5, <2>1, <3>1 DEF Obeys, MqttTypes
        <4>2. conns'[mySlot[u]] = <<>>
          BY <1>2, <1>4, <4>1 DEF Disconnected
        <4> QED
          BY <1>2, <1>10, <4>1, <4>2 DEF Disconnected
      <3> QED
        BY <1>2, <3>1 DEF Obeys
    <2>6. ResultComes'
      <3>1. CASE Expired(s)
        <4>1. at' = at /\ connResult' = connResult /\ events' = events
          BY <1>2, <3>1
        <4> QED
          BY <1>2, <1>10, <2>1, <4>1 DEF ResultComes
      <3>2. CASE ~Expired(s)
        <4>1. PICK v \in Callers : slots[s] = Flow(v) /\ HasFlow(v) /\ mySlot[v] = s
          BY <3>2, SlotIsUsed
        <4>2. PICK w \in Callers : Head(conns[s]) = Flow(w) /\ mySlot[w] = s /\ Speaks(w)
          <5>1. Belongs(conns[s][1], s)
            BY <1>3, <2>1 DEF ModemIsPresent
          <5> QED
            BY <1>3, <5>1 DEF Belongs
        <4>3. w = v
          BY <2>1, <4>1, <4>2 DEF OneUserEach, HasFlow, Speaks
        <4>4. connResult' = [u \in Callers |-> IF Flow(u) = slots[s] THEN Head(conns[s])
                                                                    ELSE connResult[u]]
          BY <1>2, <3>2 DEF OnConn
        <4>5. ASSUME NEW u \in Callers, at'[u] # "idle"
              PROVE  /\ connResult'[u] \in {None, Flow(u)}
                     /\ tidy[u] /\ (mySlot[u] \in events' \/ at'[u] = "held") =>
                            HasFlow(u) /\ connResult'[u] = Flow(u)
          <5>1. CASE u = v
            BY <4>1, <4>2, <4>3, <4>4, <5>1
          <5>2. CASE u # v
            <6>1. at[u] # "idle" /\ at[v] # "idle"
              BY <1>5, <4>1, <4>5 DEF HasFlow
            <6>2. mySlot[u] # s
              BY <2>1, <4>1, <5>2, <6>1 DEF OneUserEach
            <6>3. at'[u] = at[u] /\ (mySlot[u] \in events' => mySlot[u] \in events)
              BY <1>5, <1>6, <6>2
            <6>4. connResult'[u] = connResult[u]
              BY <4>1, <4>4, <5>2, FlowsDiffer
            <6> QED
              BY <2>1, <6>1, <6>3, <6>4 DEF ResultComes
          <5> QED
            BY <5>1, <5>2
        <4> QED
          BY <1>2, <1>10, <4>5 DEF ResultComes
      <3> QED
        BY <3>1, <3>2
    <2> QED
      BY <1>10, <2>1, <2>3, <2>4, <2>5, <2>6
  <1> QED
    BY <1>8, <1>10, <1>11 DEF MqttInv

\* The modem is reset.
LEMMA ResetKeeps ==
    ASSUME MqttInv, ModemReset
    PROVE  MqttInv'
  <1> USE DEF caller, object, history
  <1>1. MqttTypes /\ FlowsArePresent /\ SlotsArePresent /\ Faithful
    BY DEF MqttInv
  <1>2. /\ cmds' = <<>>
        /\ conns' = [x \in Slots |-> <<>>]
        /\ online' = [x \in Slots |-> None]
        /\ UNCHANGED <<caller, object, history>>
    BY DEF ModemReset
  <1>3. /\ Len(cmds') = 0 /\ cmds' \in Seq([op : Ops, slot : Slots, flow : Flows])
        /\ \A x \in Slots : Len(conns'[x]) = 0 /\ conns'[x] \in Seq(Flows)
    BY <1>2, EmptySeq
  <1>4. MqttTypes'
    BY <1>1, <1>2, <1>3 DEF MqttTypes
  <1>5. UsersStay
    BY <1>2 DEF UsersStay
  <1>6. /\ FlowsArePresent' /\ SlotsArePresent' /\ (OneUserEach => OneUserEach')
        /\ \A u \in Callers : (HasFlow(u)' <=> HasFlow(u)) /\ Flow(u)' = Flow(u)
    BY <1>5, UsersKept
  <1>7. ModemIsPresent'
    BY <1>2, <1>3 DEF ModemIsPresent
  <1>8. DiscIsLast'
    <2>1. ~ \E k \in 1 .. Len(cmds') : TRUE
      BY <1>3
    <2> QED
      BY <2>1 DEF DiscIsLast
  <1>9. Obeys'
    <2>1. \A u \in Callers : mySlot'[u] \in Slots
      BY <1>1, <1>2 DEF MqttTypes
    <2>2. \A u \in Callers : Disconnected(u)'
      BY <1>2, <1>3, <2>1 DEF Disconnected
    <2> QED
      BY <2>2 DEF Obeys
  <1>10. ResultComes => ResultComes'
    BY <1>2, <1>6 DEF ResultComes
  <1> QED
    BY <1>1, <1>2, <1>4, <1>6, <1>7, <1>8, <1>9, <1>10 DEF MqttInv, Faithful

\* The modem carries out a command.
LEMMA RunKeeps ==
    ASSUME MqttInv, ModemRuns
    PROVE  MqttInv'
  <1> USE DEF caller, object
  <1>1. MqttTypes /\ FlowsArePresent /\ SlotsArePresent /\ Faithful
    BY DEF MqttInv
  <1>2. PICK c \in [op : Ops, slot : Slots, flow : Flows] :
            /\ c = Head(cmds) /\ c = cmds[1] /\ 1 <= Len(cmds) /\ Len(cmds) \in Nat
            /\ Len(Tail(cmds)) = Len(cmds) - 1
            /\ Tail(cmds) \in Seq([op : Ops, slot : Slots, flow : Flows])
            /\ \A k \in 1 .. Len(Tail(cmds)) : Tail(cmds)[k] = cmds[k + 1]
    <2>1. cmds \in Seq([op : Ops, slot : Slots, flow : Flows]) /\ cmds # <<>>
      BY <1>1 DEF MqttTypes, ModemRuns
    <2> DEFINE S == [op : Ops, slot : Slots, flow : Flows]
    <2> HIDE DEF S
    <2>2. /\ Tail(cmds) \in Seq(S) /\ Head(cmds) = cmds[1] /\ Head(cmds) \in S
          /\ Len(cmds) \in Nat /\ 1 <= Len(cmds) /\ Len(Tail(cmds)) = Len(cmds) - 1
          /\ \A k \in 1 .. Len(Tail(cmds)) : Tail(cmds)[k] = cmds[k + 1]
      BY <2>1, Shorter DEF S
    <2> QED
      BY <2>2 DEF S
  <1>3. c.op \in Ops /\ c.slot \in Slots /\ c.flow \in Flows
    BY <1>2
  <1>4. /\ cmds' = Tail(cmds)
        /\ UNCHANGED <<caller, object, crossed, wrongOk, tidy>>
        /\ obeyed' = [t \in Callers |-> obeyed[t] \/ (lock = t /\ c.flow = Flow(t)
                                                       /\ at[t] = Busy[c.op])]
    BY <1>2 DEF ModemRuns
  <1>5. /\ conns' = CASE c.op = "connect" -> [conns EXCEPT ![c.slot] = Append(@, c.flow)]
                      [] c.op = "disc"    -> [conns EXCEPT ![c.slot] = <<>>]
                      [] OTHER            -> conns
        /\ online' = CASE c.op = "connect" -> [online EXCEPT ![c.slot] = c.flow]
                       [] c.op = "disc"    -> [online EXCEPT ![c.slot] = None]
                       [] OTHER            -> online
    BY <1>2 DEF ModemRuns
  <1>6. PICK q \in Seq(Flows) : q = conns[c.slot] /\ Len(q) \in Nat
    BY <1>1, <1>3, LenProperties DEF MqttTypes
  <1>7. /\ Append(q, c.flow) \in Seq(Flows) /\ Len(Append(q, c.flow)) = Len(q) + 1
        /\ Append(q, c.flow)[Len(q) + 1] = c.flow
        /\ \A k \in 1 .. Len(q) : Append(q, c.flow)[k] = q[k]
    BY <1>3, <1>6, AppendProperties
  <1>8. /\ conns' \in [Slots -> Seq(Flows)] /\ online' \in [Slots -> Flows \cup {None}]
        /\ \A x \in Slots : x # c.slot => conns'[x] = conns[x] /\ online'[x] = online[x]
        /\ c.op = "disc" => conns'[c.slot] = <<>> /\ online'[c.slot] = None
        /\ \/ conns'[c.slot] = Append(q, c.flow)
           \/ conns'[c.slot] = <<>>
           \/ conns'[c.slot] = q
        /\ online'[c.slot] \in {c.flow, None, online[c.slot]}
    <2>1. CASE c.op = "connect"
      BY <1>1, <1>3, <1>5, <1>6, <1>7, <2>1 DEF MqttTypes
    <2>2. CASE c.op = "disc"
      <3>1. <<>> \in Seq(Flows)
        BY EmptySeq
      <3> QED
        BY <1>1, <1>3, <1>5, <2>2, <3>1 DEF MqttTypes
    <2>3. CASE c.op \notin {"connect", "disc"}
      BY <1>1, <1>3, <1>5, <1>6, <2>3 DEF MqttTypes
    <2> QED
      BY <2>1, <2>2, <2>3
  <1>9. \A t \in Callers : obeyed'[t] =>
            \/ obeyed[t]
            \/ c.flow = Flow(t) /\ at[t] = Busy[c.op]
    BY <1>4
  <1>10. MqttTypes'
    <2>1. \A t \in Callers : obeyed'[t] => at[t] \in InExec
      BY <1>1, <1>3, <1>9, BusyIs DEF MqttTypes
    <2>2. obeyed' \in [Callers -> BOOLEAN]
      BY <1>4
    <2> QED
      BY <1>1, <1>2, <1>4, <1>8, <2>1, <2>2 DEF MqttTypes
  <1>11. UsersStay
    BY <1>4 DEF UsersStay
  <1>12. /\ FlowsArePresent' /\ SlotsArePresent' /\ (OneUserEach => OneUserEach')
         /\ \A u \in Callers : (HasFlow(u)' <=> HasFlow(u)) /\ Flow(u)' = Flow(u)
    BY <1>11, UsersKept
  <1>13. Faithful'
    <2> SUFFICES ASSUME ~crossed, ~wrongOk
                 PROVE  OneUserEach' /\ ModemIsPresent' /\ DiscIsLast' /\ Obeys' /\ ResultComes'
      BY <1>4 DEF Faithful
    <2>1. OneUserEach /\ ModemIsPresent /\ DiscIsLast /\ Obeys /\ ResultComes
      BY <1>1 DEF Faithful
    <2>2. \A u \in Callers : /\ Flow(u)' = Flow(u) /\ mySlot'[u] = mySlot[u]
                             /\ Speaks(u) => Speaks(u)'
      BY <1>4, <1>12 DEF Speaks
    <2>3. PICK w \in Callers : c.flow = Flow(w) /\ mySlot[w] = c.slot /\ Speaks(w)
      <3>1. Belongs(cmds[1].flow, cmds[1].slot)
        BY <1>2, <2>1 DEF ModemIsPresent
      <3> QED
        BY <1>2, <3>1 DEF Belongs
    <2>4. Belongs(c.flow, c.slot)
      BY <2>3 DEF Belongs
    <2>5. \A k \in 1 .. Len(Tail(cmds)) : k + 1 \in 1 .. Len(cmds) /\ Tail(cmds)[k] = cmds[k + 1]
      BY <1>2
    <2>6. ModemIsPresent'
      <3>1. \A k \in 1 .. Len(Tail(cmds)) : Belongs(Tail(cmds)[k].flow, Tail(cmds)[k].slot)
        BY <2>1, <2>5 DEF ModemIsPresent
      <3>2. ASSUME NEW x \in Slots, NEW k \in 1 .. Len(conns'[x]), NEW f, f = conns'[x][k]
            PROVE  Belongs(f, x)
        <4>1. CASE x # c.slot
          BY <1>8, <2>1, <3>2, <4>1 DEF ModemIsPresent
        <4>2. CASE x = c.slot
          <5>1. CASE conns'[x] = Append(q, c.flow)
            <6>1. k \in 1 .. Len(q) \/ k = Len(q) + 1
              BY <1>6, <1>7, <3>2, <5>1
            <6>2. CASE k \in 1 .. Len(q)
              BY <1>6, <1>7, <2>1, <3>2, <4>2, <5>1, <6>2 DEF ModemIsPresent
            <6>3. CASE k = Len(q) + 1
              BY <1>7, <2>4, <3>2, <4>2, <5>1, <6>3
            <6> QED
              BY <6>1, <6>2, <6>3
          <5>2. CASE conns'[x] = q
            BY <1>6, <2>1, <3>2, <4>2, <5>2 DEF ModemIsPresent
          <5>3. conns'[x] # <<>>
            BY <3>2, EmptySeq
          <5> QED
            BY <1>8, <4>2, <5>1, <5>2, <5>3
        <4> QED
          BY <4>1, <4>2
      <3>3. ASSUME NEW x \in Slots, online'[x] # None, NEW f, f = online'[x]
            PROVE  Belongs(f, x)
        <4>1. CASE x # c.slot
          BY <1>8, <2>1, <3>3, <4>1 DEF ModemIsPresent
        <4>2. CASE x = c.slot
          BY <1>8, <2>1, <2>4, <3>3, <4>2 DEF ModemIsPresent
        <4> QED
          BY <4>1, <4>2
      <3> QED
        BY <1>4, <2>2, <3>1, <3>2, <3>3 DEF ModemIsPresent, Belongs
    <2>7. DiscIsLast'
      <3>1. ASSUME NEW k \in 1 .. Len(Tail(cmds)), Tail(cmds)[k].op = "disc"
            PROVE  /\ \A u \in Callers : Tail(cmds)[k].flow = Flow(u)
                                         => at[u] \in {"in disc", "terminated"}
                   /\ \A j \in 1 .. Len(Tail(cmds)) :
                          k < j => Tail(cmds)[j].flow # Tail(cmds)[k].flow
        <4>1. cmds[k + 1].op = "disc" /\ k + 1 \in 1 .. Len(cmds) /\ Tail(cmds)[k] = cmds[k + 1]
          BY <2>5, <3>1
        <4>2. ASSUME NEW j \in 1 .. Len(Tail(cmds)), k < j
              PROVE  Tail(cmds)[j].flow # Tail(cmds)[k].flow
          <5>1. PICK a \in 1 .. Len(cmds), b \in 1 .. Len(cmds) :
                    /\ a < b /\ cmds[a].op = "disc"
                    /\ Tail(cmds)[k] = cmds[a] /\ Tail(cmds)[j] = cmds[b]
            BY <1>2, <2>5, <4>1, <4>2
          <5> QED
            <6>1. cmds[b].flow # cmds[a].flow
              BY <2>1, <5>1 DEF DiscIsLast
            <6> QED
              BY <5>1, <6>1
        <4>3. PICK a \in 1 .. Len(cmds) : cmds[a].op = "disc" /\ Tail(cmds)[k] = cmds[a]
          BY <4>1
        <4> QED
          BY <2>1, <4>2, <4>3 DEF DiscIsLast
      <3> QED
        BY <1>4, <1>12, <3>1 DEF DiscIsLast
    <2>8. Obeys'
      <3>1. ASSUME NEW u \in Callers, obeyed'[u], at[u] = "in disc"
            PROVE  Disconnected(u)'
        <4>1. mySlot[u] \in Slots
          BY <1>1 DEF MqttTypes
        <4>2. CASE obeyed[u]
          <5>1. Disconnected(u)
            BY <2>1, <3>1, <4>2 DEF Obeys
          <5>2. c.flow # Flow(u)
            BY <1>2, <5>1 DEF Disconnected
          <5>3. w # u
            BY <2>3, <5>2
          <5>4. mySlot[w] # mySlot[u]
            BY <2>1, <2>3, <3>1, <5>3 DEF OneUserEach, Speaks
          <5>5. conns'[mySlot[u]] = conns[mySlot[u]] /\ online'[mySlot[u]] = online[mySlot[u]]
            BY <1>8, <2>3, <4>1, <5>4
          <5>6. \A k \in 1 .. Len(Tail(cmds)) : Tail(cmds)[k].flow # Flow(u)
            BY <2>5, <5>1 DEF Disconnected
          <5> QED
            BY <1>4, <1>12, <5>1, <5>5, <5>6 DEF Disconnected
        <4>3. CASE c.flow = Flow(u) /\ at[u] = Busy[c.op]
          <5>1. c.op = "disc"
            BY <1>3, <3>1, <4>3, BusyIs
          <5>2. w = u
            BY <2>3, <4>3, FlowsDiffer
          <5>3. conns'[mySlot[u]] = <<>> /\ online'[mySlot[u]] = None
            BY <1>8, <2>3, <5>1, <5>2
          <5>4. ASSUME NEW k \in 1 .. Len(Tail(cmds))
                PROVE  Tail(cmds)[k].flow # Flow(u)
            <6>1. PICK a \in 1 .. Len(cmds), b \in 1 .. Len(cmds) :
                      a < b /\ cmds[a] = c /\ Tail(cmds)[k] = cmds[b]
              BY <1>2, <2>5
            <6>2. cmds[a].op = "disc"
              BY <5>1, <6>1
            <6>3. cmds[b].flow # cmds[a].flow
              BY <2>1, <6>1, <6>2 DEF DiscIsLast
            <6> QED
              BY <4>3, <6>1, <6>3
          <5> QED
            BY <1>4, <1>12, <5>3, <5>4 DEF Disconnected
        <4> QED
          BY <1>9, <3>1, <4>2, <4>3
      <3> QED
        BY <1>4, <3>1 DEF Obeys
    <2>9. ResultComes'
      BY <1>4, <1>12, <2>1 DEF ResultComes
    <2> QED
      BY <1>12, <2>1, <2>6, <2>7, <2>8, <2>9
  <1> QED
    BY <1>10, <1>12, <1>13 DEF MqttInv

-----------------------------------------------------------------------------
(* The theorems about Mqtt *)

LEMMA MqttStarts == MqttInit => MqttInv
  <1> SUFFICES ASSUME MqttInit PROVE MqttInv
    OBVIOUS
  <1>1. /\ at = [t \in Callers |-> "idle"] /\ makes = [t \in Callers |-> 0]
        /\ mySlot = [t \in Callers |-> CHOOSE s \in Slots : TRUE]
        /\ thrown = [t \in Callers |-> FALSE] /\ lock = None
        /\ slots = [s \in Slots |-> None] /\ flows = {} /\ clients = {}
        /\ connResult = [t \in Callers |-> None] /\ events = {} /\ cmds = <<>>
        /\ conns = [s \in Slots |-> <<>>] /\ online = [s \in Slots |-> None]
        /\ crossed = FALSE /\ wrongOk = FALSE
        /\ obeyed = [t \in Callers |-> FALSE] /\ tidy = [t \in Callers |-> FALSE]
    BY DEF MqttInit
  <1>2. (CHOOSE s \in Slots : TRUE) \in Slots
    BY MqttAssumption
  <1>3. /\ Len(cmds) = 0 /\ cmds \in Seq([op : Ops, slot : Slots, flow : Flows])
        /\ \A s \in Slots : Len(conns[s]) = 0 /\ conns[s] \in Seq(Flows)
    BY <1>1, EmptySeq
  <1>4. \A t \in Callers : at[t] = "idle" /\ ~obeyed[t] /\ ~HasFlow(t) /\ t # None
    BY <1>1, MqttAssumption DEF HasFlow
  <1>5. MqttTypes
    <2>1. "idle" \in Places
      BY PlacesAre
    <2>2. \A t \in Callers : (lock = t <=> at[t] \in InExec) /\ (obeyed[t] => at[t] \in InExec)
      BY <1>1, <1>4 DEF InExec
    <2>3. mySlot \in [Callers -> Slots]
      BY <1>1, <1>2
    <2> QED
      BY <1>1, <1>3, <2>1, <2>2, <2>3 DEF MqttTypes
  <1>6. FlowsArePresent
    BY <1>1, <1>4 DEF FlowsArePresent
  <1>7. SlotsArePresent
    <2>1. ASSUME NEW t \in Callers, NEW n \in Nat
          PROVE  <<t, n>> # None
      <3>1. <<t, n>> \in Callers \X Nat
        BY <2>1
      <3> QED
        BY <3>1, MqttAssumption
    <2> QED
      BY <1>1, <2>1 DEF SlotsArePresent
  <1>8. OneUserEach /\ Obeys /\ ResultComes
    BY <1>4 DEF OneUserEach, Obeys, ResultComes
  <1>9. ModemIsPresent /\ DiscIsLast
    <2>1. ~ \E k \in 1 .. Len(cmds) : TRUE
      BY <1>3
    <2>2. \A s \in Slots : ~ \E k \in 1 .. Len(conns[s]) : TRUE
      BY <1>3
    <2> QED
      BY <1>1, <2>1, <2>2 DEF ModemIsPresent, DiscIsLast
  <1> QED
    BY <1>5, <1>6, <1>7, <1>8, <1>9 DEF MqttInv, Faithful

LEMMA MqttStep == MqttInv /\ [MqttNext]_mqttVars => MqttInv'
  <1> SUFFICES ASSUME MqttInv, [MqttNext]_mqttVars PROVE MqttInv'
    OBVIOUS
  <1>1. CASE UNCHANGED mqttVars
    <2>1. /\ UNCHANGED <<at, makes, mySlot, thrown, lock, slots, flows, clients, connResult>>
          /\ UNCHANGED <<events, cmds, conns, online, crossed, obeyed, wrongOk, tidy>>
      BY <1>1 DEF mqttVars, caller, object, modem, history
    <2>2. MqttTypes'
      BY <2>1 DEF MqttInv, MqttTypes
    <2>3. UsersStay
      BY <2>1 DEF UsersStay
    <2>4. /\ FlowsArePresent' /\ SlotsArePresent' /\ (OneUserEach => OneUserEach')
          /\ \A u \in Callers : HasFlow(u)' <=> HasFlow(u)
      BY <2>3, UsersKept
    <2>5. ModemIsPresent => ModemIsPresent'
      BY <2>1, ModemKept DEF Speaks
    <2>6. (DiscIsLast => DiscIsLast') /\ (Obeys => Obeys') /\ (ResultComes => ResultComes')
      BY <2>1, <2>4, DiscKept, ObeysKept, ResultKept
    <2> QED
      BY <2>1, <2>2, <2>4, <2>5, <2>6 DEF MqttInv, Faithful
  <1>2. ASSUME NEW t \in Callers, Go(t)
        PROVE  MqttInv'
    <2>1. CASE ExecOk(t) \/ ExecFail(t)
      <3>1. CASE at'[t] # "gone"
        BY <2>1, <3>1, ExecEndKeeps
      <3>2. CASE at'[t] = "gone" /\ ExecOk(t)
        BY <3>2, DisconnectKeeps
      <3>3. ASSUME at'[t] = "gone", ExecFail(t)
            PROVE  FALSE
        <4>1. MqttTypes
          BY DEF MqttInv
        <4>2. at'[t] \in {"terminated", "disc"}
          BY <3>3, <4>1 DEF ExecFail, Goto, MqttTypes
        <4> QED
          BY <3>3, <4>2
      <3> QED
        BY <2>1, <3>1, <3>2, <3>3
    <2> QED
      BY <1>2, <2>1, TakeKeeps, BeginKeeps, WaitKeeps, DropKeeps, LeaveKeeps DEF Go
  <1>3. ASSUME NEW t \in Callers,
               Exhausted(t) \/ DropClient(t) \/ \E s \in Slots : GetNext(t, s)
        PROVE  MqttInv'
    BY <1>3, ExhaustedKeeps, DropKeeps, FindKeeps
  <1> QED
    BY <1>1, <1>2, <1>3, UrcKeeps, RunKeeps, ResetKeeps DEF MqttNext

LEMMA MqttInvariant == MqttSpec => []MqttInv
  BY MqttStarts, MqttStep, PTL DEF MqttSpec

\* The types, and that exactly the threads between the place where the Flow takes its
\* slot and the end of ~Client have a Client, whatever way a call of createAli takes
\* (devices/air302/mqtt_factory.cxx:11-18, 68-70).
THEOREM MqttTypesHold == MqttSpec => []MqttTypeOK
  <1>1. MqttInv => MqttTypeOK
    <2> SUFFICES ASSUME MqttInv PROVE MqttTypeOK
      OBVIOUS
    <2>1. MqttTypes /\ FlowsArePresent
      BY DEF MqttInv
    <2>2. \A t \in Callers : Flow(t) \in Flows
      BY <2>1 DEF MqttTypes, Flow, Flows
    <2>3. flows \subseteq Flows /\ clients \subseteq flows
      BY <2>1, <2>2 DEF FlowsArePresent
    <2>4. \A t \in Callers : Flow(t) \in clients <=> at[t] \notin {"idle", "found", "last"}
      BY <2>1, FlowsDiffer DEF FlowsArePresent, HasFlow
    <2>5. \A t \in Callers : at[t] \in InExec <=> \E op \in Ops : at[t] = Busy[op]
      BY BusyIs
    <2> QED
      BY <2>1, <2>3, <2>4, <2>5 DEF MqttTypes, MqttTypeOK
  <1> QED
    BY <1>1, MqttInvariant, PTL

\* createAli returns a Client with the result of its own connection, if its call began
\* with the event bit clear, no other thread used its slot, and exec has told the
\* truth: what is announced on a slot before its next user begins was cleared by the
\* disconnection of the one before (devices/air302/mqtt_factory.cxx:28-32, 43-47, 68-70).
THEOREM MqttResultIsOwn == MqttSpec => []ResultIsOwn
  <1>1. MqttInv => ResultIsOwn
    BY DEF MqttInv, Faithful, ResultComes, ResultIsOwn
  <1> QED
    BY <1>1, MqttInvariant, PTL

\* A message that comes for a slot is handled by a Client that lives, and is one of
\* its own connection, unless exec has lied or the slot was shared; if it has, the
\* Client can still be gone only while the unwinding of createAli holds the Flow
\* (devices/air302/mqtt_factory.cxx:23-27, 49-52).
THEOREM MqttMessagesGoHome == MqttSpec => []MessagesGoHome
  <1>1. MqttInv => MessagesGoHome
    <2> SUFFICES ASSUME MqttInv, NEW s \in Slots, Receives(s)
                 PROVE  /\ (slots[s] \in clients /\ slots[s] = online[s]) \/ wrongOk \/ crossed
                        /\ slots[s] \in clients
                           \/ \E t \in Callers : slots[s] = Flow(t) /\ at[t] = "last"
      BY DEF MessagesGoHome
    <2>1. PICK v \in Callers : slots[s] = Flow(v) /\ HasFlow(v) /\ mySlot[v] = s
      BY SlotIsUsed DEF Receives
    <2>2. at[v] # "last" => slots[s] \in clients
      BY <2>1 DEF MqttInv, FlowsArePresent, HasFlow
    <2>3. CASE ~wrongOk /\ ~crossed
      <3>1. OneUserEach /\ ModemIsPresent
        BY <2>3 DEF MqttInv, Faithful
      <3>2. PICK w \in Callers : online[s] = Flow(w) /\ mySlot[w] = s /\ Speaks(w)
        BY <3>1 DEF Receives, ModemIsPresent, Belongs
      <3>3. w = v
        BY <2>1, <3>1, <3>2 DEF OneUserEach, HasFlow, Speaks
      <3>4. at[v] # "last"
        BY <3>2, <3>3 DEF Speaks
      <3> QED
        BY <2>1, <2>2, <3>2, <3>3, <3>4
    <2> QED
      BY <2>1, <2>2, <2>3
  <1> QED
    BY <1>1, MqttInvariant, PTL
=============================================================================
