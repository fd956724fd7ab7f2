------------------------------- MODULE Rc522 -------------------------------
(***************************************************************************)
(* The RFID reader (devices/rc522.cxx).  A callback of a periodic timer    *)
(* asks the field for a card every kDetectDurMs, and reads the number of   *)
(* one that answers with the anticollision command.  It runs on the thread *)
(* of all soft timers (priority 4), so that what it waits for, they wait   *)
(* for: the end of a command, by polling 1000 times at most, and the end   *)
(* of a reset, by polling without limit.                                   *)
(*                                                                         *)
(* The chip and the cards are external.  Nobody else touches the chip, so  *)
(* the register accesses between two points at which the chip can act are  *)
(* one step.  1000 polls outlast the timer of the chip, 15 ms: they run    *)
(* out only with a chip that hangs.                                        *)
(***************************************************************************)
EXTENDS Integers, Sequences

CONSTANTS
    Cards,       \* the cards; cardId is the number of one
    NoCard,      \* no card: cardId is nullopt; the field is empty
    Junk,        \* values the uninitialized contiReqFailedCnt can have
    MaxMoves,    \* bound: how often cards are put on the reader and taken off
    MaxFaults,   \* bound: answers lost or garbled, and times the chip hangs
    MaxFails     \* bound: contiReqFailedCnt, compared with 1, stops there

ASSUME Rc522Assumption ==
    /\ NoCard \notin Cards
    /\ Cards \cap {"empty", "atqa", "garbled"} = {}
    /\ Junk \subseteq Int
    /\ MaxMoves \in Nat /\ MaxFaults \in Nat
    /\ MaxFails \in Nat \ {0, 1}

VARIABLES
    pc,        \* where the callback, or init, is
    phase,     \* the command of the callback: "request" or "anticoll"
    cardId,    \* the Observable cardId
    fails,     \* contiReqFailedCnt
    irqVal,    \* irqVal of pcdComMF522
    due,       \* the soft timers whose time has come, earliest first
    cmd,       \* the chip: "idle", "transceive", "reset"
    hung,      \* the chip: it no longer raises an interrupt
    irq,       \* the chip: the bits set in ComIrq, of "timer" and "rx"
    err,       \* the chip: a bit of 0x1b is set in Error
    fifo,      \* the chip: the bytes received
    field,     \* the card on the reader
    awake,     \* the card has answered a request and takes an anticoll
    moves,     \* how often the field has changed
    faults,    \* how many faults there have been
    seen,      \* history: the cards in the field since the callback began
    excused    \* history: since the report of cardId the field has changed or a
               \* fault has happened

driver == <<pc, phase, cardId, fails, irqVal>>
chip == <<cmd, hung, irq, err, fifo>>
world == <<field, awake, moves, faults>>
vars == <<driver, due, chip, world, seen, excused>>

\* Contents of the FIFO that are not the bytes of a card number with its checksum.
Empty == "empty"
Atqa == "atqa"
Garbled == "garbled"

Timers == {"rc522", "load"}

Init ==
    /\ pc = "off" /\ phase = "request"
    /\ cardId = NoCard
    /\ fails \in Junk
    /\ irqVal = {}
    /\ due = <<>>
    /\ cmd = "idle" /\ hung = FALSE /\ irq = {} /\ err = FALSE /\ fifo = Empty
    /\ field = NoCard /\ awake = FALSE
    /\ moves = 0 /\ faults = 0
    /\ seen = {} /\ excused = TRUE

-----------------------------------------------------------------------------
(* The thread of the soft timers *)

\* The time of a timer has come.  A timer is started again when its callback has
\* returned; the one of the reader is first started at the end of init.
Elapse(x) ==
    /\ \A i \in 1 .. Len(due) : due[i] # x
    /\ x = "rc522" => pc = "idle"
    /\ due' = Append(due, x)
    /\ UNCHANGED <<driver, chip, world, seen, excused>>

\* The callback of another timer, run when no callback of the reader is.
RunOther ==
    /\ pc \in {"off", "boot", "idle"}
    /\ due # <<>> /\ Head(due) = "load"
    /\ due' = Tail(due)
    /\ UNCHANGED <<driver, chip, world, seen, excused>>

\* The callback of the reader begins, with pcdRequest.
RunRc522 ==
    /\ pc = "idle"
    /\ due # <<>> /\ Head(due) = "rc522"
    /\ due' = Tail(due)
    /\ pc' = "send" /\ phase' = "request"
    /\ seen' = {field} \ {NoCard}
    /\ UNCHANGED <<cardId, fails, irqVal, chip, world, excused>>

-----------------------------------------------------------------------------
(* pcdReset *)

\* The reset command; the antenna is off and the card loses its power.
StartReset ==
    /\ cmd' = "reset"
    /\ awake' = FALSE

\* init, on the thread that makes the preset.
Boot ==
    /\ pc = "off"
    /\ pc' = "boot"
    /\ StartReset
    /\ UNCHANGED <<phase, cardId, fails, irqVal, due, hung, irq, err, fifo, field,
                   moves, faults, seen, excused>>

\* The chip has left the reset, and the registers are set up again.
ResetEnds ==
    /\ pc \in {"boot", "reset"}
    /\ cmd = "idle"
    /\ pc' = "idle"
    /\ UNCHANGED <<phase, cardId, fails, irqVal, due, chip, world, seen, excused>>

-----------------------------------------------------------------------------
(* pcdComMF522 *)

\* The interrupt bits are cleared, the FIFO is flushed and filled, and the
\* command started, which clears the error bits.
Send ==
    /\ pc = "send"
    /\ pc' = "poll"
    /\ irq' = {}
    /\ fifo' = Empty
    /\ cmd' = "transceive"
    /\ err' = FALSE
    /\ UNCHANGED <<phase, cardId, fails, irqVal, due, hung, world, seen, excused>>

\* The loop ends with an interrupt bit.
Poll ==
    /\ pc = "poll"
    /\ irq # {}
    /\ irqVal' = irq
    /\ pc' = "polled"
    /\ UNCHANGED <<phase, cardId, fails, due, chip, world, seen, excused>>

\* Mutant: the loop has no limit.
PollForever == FALSE /\ pc = "poll" /\ UNCHANGED vars

\* The loop ends with count = 0: RT_ETIMEOUT, to the callback an unknown error.
PollTimeout ==
    /\ pc = "poll"
    /\ hung /\ irq = {}
    /\ IF phase = "request"
       THEN /\ pc' = "reset"
            /\ StartReset
            /\ UNCHANGED cardId
       ELSE /\ pc' = "idle"
            /\ cardId' = NoCard
            /\ cmd' = "idle"
            /\ UNCHANGED awake
    /\ UNCHANGED <<phase, fails, irqVal, due, hung, irq, err, fifo, field, moves,
                   faults, seen, excused>>

-----------------------------------------------------------------------------
(* The callback, when a command has ended with an interrupt bit *)

\* Mutant: one request without an answer is enough.
NoAnswerAtOnce ==
    /\ pc = "polled" /\ phase = "request"
    /\ ~err /\ "timer" \in irqVal
    /\ fails' = IF fails < MaxFails THEN fails + 1 ELSE fails
    /\ cardId' = IF fails + 1 > 0 THEN NoCard ELSE cardId
    /\ pc' = "idle"
    /\ cmd' = "idle"
    /\ UNCHANGED <<phase, irqVal, due, hung, irq, err, fifo, world, seen, excused>>

\* Mutant: the failure count alone is kept.
NoAnswerKeeps ==
    /\ pc = "polled" /\ phase = "request"
    /\ ~err /\ "timer" \in irqVal
    /\ fails' = IF fails < MaxFails THEN fails + 1 ELSE fails
    /\ pc' = "idle"
    /\ cmd' = "idle"
    /\ UNCHANGED <<phase, cardId, irqVal, due, hung, irq, err, fifo, world, seen,
                   excused>>

\* RT_EIO: the chip's timer has run out.  The second such request in a row drops
\* the card.
NoAnswer ==
    /\ pc = "polled" /\ phase = "request"
    /\ ~err /\ "timer" \in irqVal
    /\ fails' = IF fails < MaxFails THEN fails + 1 ELSE fails
    /\ cardId' = IF fails + 1 > 1 THEN NoCard ELSE cardId
    /\ pc' = "idle"
    /\ cmd' = "idle"
    /\ UNCHANGED <<phase, irqVal, due, hung, irq, err, fifo, world, seen, excused>>

\* RT_ERROR: an unknown error; the chip is reset, cardId and fails stay.
RequestError ==
    /\ pc = "polled" /\ phase = "request"
    /\ err
    /\ pc' = "reset"
    /\ StartReset
    /\ UNCHANGED <<phase, cardId, fails, irqVal, due, hung, irq, err, fifo, field,
                   moves, faults, seen, excused>>

\* RT_EOK: a card is there, and pcdAntiColl follows.
Answered ==
    /\ pc = "polled" /\ phase = "request"
    /\ ~err /\ "timer" \notin irqVal
    /\ fails' = 0
    /\ phase' = "anticoll"
    /\ pc' = "send"
    /\ cmd' = "idle"
    /\ UNCHANGED <<cardId, irqVal, due, hung, irq, err, fifo, world, seen, excused>>

\* Mutant: the checksum is not compared.
CardNumberUnchecked ==
    /\ pc = "polled" /\ phase = "anticoll"
    /\ cardId' = IF ~err /\ "timer" \notin irqVal /\ fifo # Empty THEN fifo ELSE NoCard
    /\ excused' = (cardId' # field)
    /\ pc' = "idle"
    /\ cmd' = "idle"
    /\ UNCHANGED <<phase, fails, irqVal, due, hung, irq, err, fifo, world, seen>>

\* The card number is reported if the command has succeeded with at least five
\* bytes whose checksum is right; otherwise the card is dropped.
CardNumber ==
    /\ pc = "polled" /\ phase = "anticoll"
    /\ cardId' = IF ~err /\ "timer" \notin irqVal /\ fifo \in Cards THEN fifo ELSE NoCard
    /\ excused' = (cardId' # field)
    /\ pc' = "idle"
    /\ cmd' = "idle"
    /\ UNCHANGED <<phase, fails, irqVal, due, hung, irq, err, fifo, world, seen>>

-----------------------------------------------------------------------------
(* The chip and the cards *)

\* The chip leaves the reset.
ChipReady ==
    /\ cmd = "reset"
    /\ cmd' = "idle"
    /\ hung' = FALSE /\ irq' = {} /\ err' = FALSE /\ fifo' = Empty
    /\ UNCHANGED <<driver, due, world, seen, excused>>

Listening == cmd = "transceive" /\ ~hung /\ "rx" \notin irq

\* The card on the reader understands the command.
Addressed == field # NoCard /\ (phase = "anticoll" => awake)

\* An answer comes before the chip's timer runs out, which stops the timer.
Answer ==
    /\ Listening /\ irq = {}
    /\ Addressed
    /\ irq' = {"rx"}
    /\ fifo' = IF phase = "request" THEN Atqa ELSE field
    /\ awake' = TRUE
    /\ UNCHANGED <<driver, due, cmd, hung, err, field, moves, faults, seen, excused>>

\* The chip's timer runs out: there is no card that understands the command, or
\* the card was awake, is confused by a second request, and starts afresh.
Silence ==
    /\ Listening /\ irq = {}
    /\ ~Addressed \/ (phase = "request" /\ awake)
    /\ irq' = {"timer"}
    /\ awake' = FALSE
    /\ UNCHANGED <<driver, due, cmd, hung, err, fifo, field, moves, faults, seen,
                   excused>>

Fault ==
    /\ faults < MaxFaults
    /\ faults' = faults + 1
    /\ excused' = TRUE
    /\ UNCHANGED <<driver, due, cmd, field, moves, seen>>

\* An answer is not heard.
AnswerLost ==
    /\ Listening /\ irq = {} /\ Addressed
    /\ irq' = {"timer"}
    /\ awake' \in BOOLEAN
    /\ Fault
    /\ UNCHANGED <<hung, err, fifo>>

\* Noise or a collision, in time or after the timer; the chip may see an error.
AnswerGarbled ==
    /\ Listening
    /\ irq' = irq \cup {"rx"}
    /\ fifo' = Garbled
    /\ err' \in BOOLEAN
    /\ Fault
    /\ UNCHANGED <<hung, awake>>

Hang ==
    /\ ~hung /\ cmd # "reset"
    /\ hung' = TRUE
    /\ Fault
    /\ UNCHANGED <<irq, err, fifo, awake>>

\* A card is put on the reader, taken off it, or exchanged.
Move(c) ==
    /\ moves < MaxMoves
    /\ c # field
    /\ field' = c
    /\ awake' = FALSE
    /\ moves' = moves + 1
    /\ seen' = (seen \cup {c}) \ {NoCard}
    /\ excused' = TRUE
    /\ UNCHANGED <<driver, due, chip, faults>>

-----------------------------------------------------------------------------
Callback ==
    \/ RunOther \/ RunRc522 \/ ResetEnds \/ Send \/ Poll \/ PollTimeout
    \/ NoAnswer \/ RequestError \/ Answered \/ CardNumber

World ==
    \/ AnswerLost \/ AnswerGarbled \/ Hang
    \/ \E c \in Cards \cup {NoCard} : Move(c)

Next ==
    \/ Boot \/ Callback \/ ChipReady \/ Answer \/ Silence \/ World
    \/ \E x \in Timers : Elapse(x)

\* The timer thread runs, ticks go on, and the chip, unless it hangs, answers or
\* lets its timer run out.  Nothing makes it leave a reset.
Spec ==
    /\ Init /\ [][Next]_vars
    /\ WF_vars(Boot) /\ WF_vars(Callback)
    /\ WF_vars(Answer \/ Silence)
    /\ \A x \in Timers : WF_vars(Elapse(x))

-----------------------------------------------------------------------------
\* Every variable has its type; and whatever value contiReqFailedCnt had before
\* it was first assigned, it has counted at most one failure while a card is
\* reported (devices/rc522.cxx:38-50, devices/rc522.hxx:27).
TypeOK ==
    /\ pc \in {"off", "boot", "idle", "reset", "send", "poll", "polled"}
    /\ phase \in {"request", "anticoll"}
    /\ cardId \in Cards \cup {NoCard}
    /\ fails \in Int
    /\ irqVal \subseteq {"timer", "rx"} /\ irq \subseteq {"timer", "rx"}
    /\ due \in Seq(Timers)
    /\ cmd \in {"idle", "transceive", "reset"}
    /\ hung \in BOOLEAN /\ err \in BOOLEAN
    /\ fifo \in Cards \cup {Empty, Atqa, Garbled}
    /\ field \in Cards \cup {NoCard} /\ awake \in BOOLEAN
    /\ moves \in 0 .. MaxMoves /\ faults \in 0 .. MaxFaults
    /\ seen \subseteq Cards /\ excused \in BOOLEAN
    /\ cardId # NoCard => fails \in {0, 1}

\* A card that stays on the reader is not dropped and not mistaken for another as
\* long as no answer is lost or garbled and the chip works, although every second
\* request may find it silent (devices/rc522.cxx:38-44, contiReqFailedCnt > 1).
SteadyCardStays ==
    [][cardId # NoCard /\ cardId' # cardId => excused]_vars

\* Only a card that was on the reader during the callback is reported, with its
\* own number: nothing left in the chip by an earlier command, and no garbled
\* bytes (devices/rc522.cxx:142-148, 197-211).
ReportIsTrue ==
    [][((pc = "polled" /\ phase = "anticoll" /\ pc' = "idle") \/ cardId' # cardId)
         => cardId' \in seen \cup {NoCard}]_vars

\* The chip never leaves the last reset it was told to do.
StuckInReset == <>[](cmd = "reset")

\* A card that has been taken off is dropped in the end, if it is not put back,
\* faults are not without end and the chip does not stay in a reset: RT_ERROR and
\* RT_ETIMEOUT count for nothing (devices/rc522.cxx:28-43).
GoneCardIsDropped ==
    \/ StuckInReset
    \/ \A c \in Cards : (cardId = c /\ field # c) ~> (cardId # c \/ field = c)

IsDue(x) == \E i \in 1 .. Len(due) : due[i] = x

\* The other soft timers get their turn: the polling of a chip that hangs ends
\* after 1000 turns (devices/rc522.cxx:156-165).  One thing alone stops them for
\* good, a chip that stays in the reset of a callback, which is polled without a
\* limit (line 80); a reset of init, on another thread, does not.
OtherTimersRun ==
    \/ <>[](cmd = "reset" /\ pc = "reset")
    \/ IsDue("load") ~> ~IsDue("load")
=============================================================================
