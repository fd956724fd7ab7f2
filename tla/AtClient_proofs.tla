--------------------------- MODULE AtClient_proofs ---------------------------
(***************************************************************************)
(* Proofs about AtClient, for any number of callers, calls and lines: the  *)
(* parser only reaches the response of the call that holds the lock, and a *)
(* call of exec that begins with nothing outstanding returns what the      *)
(* modem said to its own command.                                          *)
(***************************************************************************)
EXTENDS AtClient, SequenceTheorems, TLAPS

\* The lock is held by the one caller that is inside a call, and the two
\* functions are entered at different places.
Owner ==
    \A t \in Callers :
        /\ pc[t] # "idle" <=> lock = t
        /\ pc[t] = "setup" => kind[t] = "exec"

\* The command of t has been answered, and nothing is outstanding.
Done(t) == pend = <<>> /\ resp = None /\ answer[t] = status /\ status \in {"ok", "error"}

\* What a call of exec that began with nothing outstanding can have met so far:
\* its own answer and no other.
CleanCall(t) ==
    /\ pc[t] \in {"send", "take", "asleep", "taken", "expired", "clear", "unlock"}
    /\ kind[t] = "exec"
    /\ \A i \in 1 .. Len(buf[t]) : buf[t][i] = Command(t)
    /\ pend = <<>> \/ pend = <<Command(t)>>
    /\ pc[t] = "send" => pend = <<>> /\ sem = 0 /\ resp = t
    /\ pc[t] = "take" => (resp = t /\ sem = 0) \/ (Done(t) /\ sem = 1)
    /\ pc[t] = "asleep" => resp = t /\ sem = 0
    /\ pc[t] = "taken" => Done(t)
    /\ pc[t] \in {"clear", "unlock"} =>
          /\ ret[t] = 0 => answer[t] = "ok"
          /\ ret[t] = -1 => answer[t] = "error"
          /\ ret[t] # -2 => pend = <<>>

CleanInv == \A t \in Callers : clean[t] => CleanCall(t)

IInv == TypeOK /\ Owner /\ RespIsOfLockHolder /\ CleanInv

\* The tokens that are there or that the parser may still release: the last line of
\* an answer releases one and clears client->resp.
Tokens == sem + IF resp = None THEN 0 ELSE 1

\* How many they are at each place of a call: one more than the timeouts so far
\* from where client->resp is set to where a token is taken or a timeout counted.
TokenInv ==
    /\ lock = None => Tokens <= late
    /\ \A t \in Callers :
          /\ pc[t] \in {"setup", "connect", "taken", "clear", "delete", "deleted",
                        "unlock"} => Tokens <= late
          /\ pc[t] \in {"send", "probe", "take", "asleep", "expired"} =>
                Tokens <= late + 1
          /\ pc[t] = "asleep" => sem = 0

-----------------------------------------------------------------------------
LEMMA IInvInit == Init => IInv
  <1> SUFFICES ASSUME Init PROVE IInv
    OBVIOUS
  <1> USE NumberAssumption, NoneAssumption
  <1>1. buf \in [Callers -> Seq(Commands)] /\ \A t \in Callers : Len(buf[t]) <= Cap
    BY EmptySeq DEF Init
  <1>2. pend \in Seq(Commands)
    BY EmptySeq DEF Init
  <1>3. MaxTries \in Nat /\ MaxData \in Nat
    OBVIOUS
  <1>4. tries \in [Callers -> 0 .. MaxTries] /\ data \in 0 .. MaxData
    BY <1>3 DEF Init
  <1>5. TypeOK
    BY <1>1, <1>2, <1>4 DEF Init, TypeOK, Places
  <1>6. Owner
    BY DEF Init, Owner
  <1>7. RespIsOfLockHolder /\ CleanInv
    BY DEF Init, RespIsOfLockHolder, CleanInv
  <1> QED
    BY <1>5, <1>6, <1>7 DEF IInv

-----------------------------------------------------------------------------
(* The parser's two operations *)

\* A stored line keeps the buffers well typed.
LEMMA StoreType ==
    ASSUME TypeOK, resp # None, NEW c \in Commands, Store(c)
    PROVE  /\ buf' \in [Callers -> Seq(Commands)]
           /\ \A t \in Callers : Len(buf'[t]) <= Cap
           /\ wild' \in BOOLEAN
  <1>1. resp \in Callers /\ buf[resp] \in Seq(Commands) /\ Len(buf[resp]) \in Nat
    BY DEF TypeOK
  <1>2. wild' \in BOOLEAN
    BY DEF Store, TypeOK
  <1>3. CASE Len(buf[resp]) < Cap
    <2>1. buf' = [buf EXCEPT ![resp] = Append(@, c)]
      BY <1>3 DEF Store
    <2>2. /\ Append(buf[resp], c) \in Seq(Commands)
          /\ Len(Append(buf[resp], c)) = Len(buf[resp]) + 1
      BY <1>1, AppendProperties
    <2>3. Len(Append(buf[resp], c)) <= Cap
      BY <1>1, <1>3, <2>2, NumberAssumption
    <2>4. buf' \in [Callers -> Seq(Commands)]
      BY <2>1, <2>2 DEF TypeOK
    <2>5. \A t \in Callers : Len(buf'[t]) <= Cap
      BY <1>1, <2>1, <2>3 DEF TypeOK
    <2> QED
      BY <1>2, <2>4, <2>5
  <1>4. CASE ~(Len(buf[resp]) < Cap)
    BY <1>2, <1>4 DEF Store, TypeOK
  <1> QED
    BY <1>3, <1>4

\* A token is taken from nobody: sem stays a number, the places stay places.
LEMMA NotifyType ==
    ASSUME TypeOK, Notify
    PROVE  sem' \in Nat /\ pc' \in [Callers -> Places]
  <1>0. sem \in Nat /\ pc \in [Callers -> Places] /\ "taken" \in Places
    BY DEF TypeOK, Places
  <1>1. CASE \E t \in Callers : pc' = [pc EXCEPT ![t] = "taken"] /\ sem' = sem
    BY <1>0, <1>1
  <1>2. CASE sem' = sem + 1 /\ pc' = pc
    BY <1>0, <1>2
  <1> QED
    BY <1>1, <1>2 DEF Notify

\* The first outstanding command is a command, and so are the others.
LEMMA PendType ==
    ASSUME TypeOK, pend # <<>>
    PROVE  Head(pend) \in Commands /\ Tail(pend) \in Seq(Commands)
  BY HeadTailProperties DEF TypeOK

-----------------------------------------------------------------------------
(* Every step keeps the types *)

\* A caller whose buffer is emptied, or left alone, keeps the buffers well typed.
LEMMA EmptiedType ==
    ASSUME TypeOK, NEW t \in Callers, buf' = buf \/ buf' = [buf EXCEPT ![t] = <<>>]
    PROVE  buf' \in [Callers -> Seq(Commands)] /\ \A u \in Callers : Len(buf'[u]) <= Cap
  <1>1. <<>> \in Seq(Commands) /\ Len(<<>>) = 0 /\ 0 <= Cap
    BY EmptySeq, NumberAssumption
  <1>2. CASE buf' = [buf EXCEPT ![t] = <<>>]
    BY <1>1, <1>2 DEF TypeOK
  <1> QED
    BY <1>2 DEF TypeOK

\* A caller's own steps.
LEMMA StepType ==
    ASSUME TypeOK, NEW t \in Callers, Step(t) \/ Timeout(t)
    PROVE  TypeOK'
  <1>1. pc[t] \in Places /\ buf[t] \in Seq(Commands) /\ sem \in Nat
    BY DEF TypeOK
  <1>2. Command(t) \in Commands
    BY DEF TypeOK, Command, Commands
  <1>3. Append(pend, Command(t)) \in Seq(Commands)
    BY <1>2, AppendProperties DEF TypeOK
  <1>4. CASE Take(t)
    <2>1. sem' \in Nat /\ pc' \in [Callers -> Places]
      <3>1. CASE sem > 0
        <4>1. sem' = sem - 1 /\ pc' = [pc EXCEPT ![t] = "taken"]
          BY <1>4, <3>1 DEF Take
        <4>2. pc' \in [Callers -> Places]
          BY <4>1 DEF TypeOK, Places
        <4>3. sem' \in Nat
          BY <1>1, <3>1, <4>1
        <4> QED
          BY <4>2, <4>3
      <3>2. CASE ~(sem > 0)
        BY <1>1, <1>4, <3>2 DEF Take, TypeOK, Places
      <3> QED
        BY <3>1, <3>2
    <2> QED
      BY <1>4, <2>1 DEF Take, TypeOK, called, modem
  <1>5. CASE Timeout(t)
    BY <1>1, <1>5 DEF Timeout, Go, TypeOK, Places, called, modem
  <1>6. CASE ExecExpired(t)
    BY <1>1, <1>6 DEF ExecExpired, Go, TypeOK, Places, called, modem
  <1>7. CASE ExecTaken(t)
    BY <1>1, <1>7 DEF ExecTaken, Go, TypeOK, Places, called, modem
  <1>8. CASE Clear(t)
    BY <1>1, <1>8 DEF Clear, Go, TypeOK, Places, called, modem
  <1>9. CASE ConnSetup(t)
    BY <1>1, <1>9 DEF ConnSetup, Go, TypeOK, Places, called, modem
  <1>10. CASE ConnAgain(t)
    BY <1>1, <1>10 DEF ConnAgain, Go, TypeOK, Places, called, modem
  <1>11. CASE ConnGiveUp(t)
    BY <1>1, <1>11 DEF ConnGiveUp, Go, TypeOK, Places, called, modem
  <1>12. CASE ConnTaken(t)
    BY <1>1, <1>12 DEF ConnTaken, Go, TypeOK, Places, called, modem
  <1>13. CASE ConnDelete(t)
    BY <1>1, <1>13 DEF ConnDelete, Go, TypeOK, Places, called, modem
  <1>14. CASE ExecSetup(t)
    <2>1. buf' \in [Callers -> Seq(Commands)] /\ \A u \in Callers : Len(buf'[u]) <= Cap
      BY <1>14, EmptiedType DEF ExecSetup
    <2>2. clean' \in [Callers -> BOOLEAN]
      BY <1>14 DEF ExecSetup, TypeOK
    <2>3. pc' \in [Callers -> Places]
      BY <1>14 DEF ExecSetup, Go, TypeOK, Places
    <2> QED
      BY <1>14, <2>1, <2>2, <2>3 DEF ExecSetup, TypeOK, called, modem
  <1>15. CASE ExecSend(t)
    BY <1>3, <1>15 DEF ExecSend, Go, TypeOK, Places, called
  <1>16. CASE Unlock(t)
    <2>1. buf' \in [Callers -> Seq(Commands)] /\ \A u \in Callers : Len(buf'[u]) <= Cap
      BY <1>16, EmptiedType DEF Unlock
    <2>2. tries' \in [Callers -> 0 .. MaxTries]
      BY <1>16, NumberAssumption DEF Unlock, TypeOK
    <2>3. /\ pc' \in [Callers -> Places] /\ kind' \in [Callers -> {"exec", "conn"}]
          /\ ret' \in [Callers -> {0, -1, -2}]
          /\ answer' \in [Callers -> {"none", "ok", "error"}]
          /\ clean' \in [Callers -> BOOLEAN]
      BY <1>16 DEF Unlock, Go, TypeOK, Places
    <2> QED
      BY <1>16, <2>1, <2>2, <2>3 DEF Unlock, TypeOK, modem
  <1>17. CASE ConnProbe(t)
    <2>1. buf' \in [Callers -> Seq(Commands)] /\ \A u \in Callers : Len(buf'[u]) <= Cap
      BY <1>17, EmptiedType DEF ConnProbe
    <2>2. tries' \in [Callers -> 0 .. MaxTries]
      <3>1. tries[t] \in 0 .. MaxTries /\ tries[t] < MaxTries /\ MaxTries \in Nat
        BY <1>17, NumberAssumption DEF ConnProbe, TypeOK
      <3>2. tries[t] + 1 \in 0 .. MaxTries
        BY <3>1
      <3> QED
        BY <1>17, <3>2 DEF ConnProbe, TypeOK
    <2>3. pc' \in [Callers -> Places]
      BY <1>17 DEF ConnProbe, Go, TypeOK, Places
    <2> QED
      BY <1>3, <1>17, <2>1, <2>2, <2>3 DEF ConnProbe, TypeOK
  <1> QED
    BY <1>4, <1>5, <1>6, <1>7, <1>8, <1>9, <1>10, <1>11, <1>12, <1>13, <1>14, <1>15, <1>16, <1>17 DEF Step

\* The steps of the parser and the modem, and the beginning of a call.
LEMMA TypeNext ==
    ASSUME TypeOK, [Next]_vars
    PROVE  TypeOK'
  <1>1. CASE \E t \in Callers : Step(t) \/ Timeout(t)
    BY <1>1, StepType
  <1>2. ASSUME NEW t \in Callers, NEW k \in {"exec", "conn"}, Lock(t, k)
        PROVE  TypeOK'
    BY <1>2 DEF Lock, Go, TypeOK, Places, modem
  <1>3. CASE DataLine
    <2>1. data' \in 0 .. MaxData
      BY <1>3, NumberAssumption DEF DataLine, TypeOK
    <2>2. CASE resp = None
      BY <1>3, <2>1, <2>2 DEF DataLine, TypeOK, called
    <2>3. CASE resp # None
      <3>1. Head(pend) \in Commands /\ Store(Head(pend))
        BY <1>3, <2>3, PendType DEF DataLine
      <3>2. /\ buf' \in [Callers -> Seq(Commands)]
            /\ \A t \in Callers : Len(buf'[t]) <= Cap
            /\ wild' \in BOOLEAN
        BY <2>3, <3>1, StoreType
      <3>3. status' \in {"ok", "error", "full", "timeout"}
        BY <1>3, <2>3 DEF DataLine, TypeOK
      <3> QED
        BY <1>3, <2>1, <3>2, <3>3 DEF DataLine, TypeOK, called
    <2> QED
      BY <2>2, <2>3
  <1>4. ASSUME NEW end \in {"ok", "error"}, EndLine(end)
        PROVE  TypeOK'
    <2>1. pend' \in Seq(Commands) /\ data' \in 0 .. MaxData
      BY <1>4, PendType, NumberAssumption DEF EndLine
    <2>2. answer' \in [Callers -> {"none", "ok", "error"}]
      BY <1>4 DEF EndLine, Answered, TypeOK
    <2>3. CASE resp = None
      BY <1>4, <2>1, <2>2, <2>3 DEF EndLine, TypeOK, called
    <2>4. CASE resp # None
      <3>1. Head(pend) \in Commands /\ Store(Head(pend)) /\ Notify
        BY <1>4, <2>4, PendType DEF EndLine
      <3>2. /\ buf' \in [Callers -> Seq(Commands)]
            /\ \A t \in Callers : Len(buf'[t]) <= Cap
            /\ wild' \in BOOLEAN
        BY <2>4, <3>1, StoreType
      <3>3. sem' \in Nat /\ pc' \in [Callers -> Places]
        BY <3>1, NotifyType
      <3> QED
        BY <1>4, <2>1, <2>2, <2>4, <3>2, <3>3 DEF EndLine, TypeOK, called
    <2> QED
      BY <2>3, <2>4
  <1>5. CASE NoAnswer
    <2>1. pend' \in Seq(Commands) /\ data' \in 0 .. MaxData
      BY <1>5, PendType, NumberAssumption DEF NoAnswer
    <2> QED
      BY <1>5, <2>1 DEF NoAnswer, TypeOK, called
  <1>6. CASE UNCHANGED vars
    BY <1>6 DEF vars, called, modem, TypeOK
  <1> QED
    BY <1>1, <1>2, <1>3, <1>4, <1>5, <1>6 DEF Next, Parse

-----------------------------------------------------------------------------
(* Every step keeps the owner of the lock and the target of client->resp *)

\* A token moves a caller from its sleep to "taken" and nowhere else.
LEMMA NotifyPlaces ==
    ASSUME TypeOK, Notify, NEW t \in Callers
    PROVE  pc'[t] = pc[t] \/ (pc[t] = "asleep" /\ pc'[t] = "taken")
  <1>1. CASE \E u \in Callers : pc[u] = "asleep" /\ pc' = [pc EXCEPT ![u] = "taken"]
    BY <1>1 DEF TypeOK
  <1>2. CASE pc' = pc
    BY <1>2
  <1> QED
    BY <1>1, <1>2 DEF Notify

\* The parser and the modem move no caller out of a call, or into one, and only
\* ever clear client->resp.
LEMMA ParserFrame ==
    ASSUME Parse \/ NoAnswer
    PROVE  /\ lock' = lock /\ kind' = kind /\ calls' = calls /\ ret' = ret
           /\ clean' = clean
           /\ resp' = resp \/ resp' = None
  BY DEF Parse, DataLine, EndLine, NoAnswer, called

LEMMA ParserPlaces ==
    ASSUME TypeOK, Parse \/ NoAnswer, NEW t \in Callers
    PROVE  pc'[t] = pc[t] \/ (pc[t] = "asleep" /\ pc'[t] = "taken")
  <1>1. CASE DataLine \/ NoAnswer
    BY <1>1 DEF DataLine, NoAnswer
  <1>2. ASSUME NEW end \in {"ok", "error"}, EndLine(end)
        PROVE  pc'[t] = pc[t] \/ (pc[t] = "asleep" /\ pc'[t] = "taken")
    BY <1>2, NotifyPlaces DEF EndLine
  <1> QED
    BY <1>1, <1>2 DEF Parse

LEMMA OwnerNext ==
    ASSUME TypeOK, Owner, [Next]_vars
    PROVE  Owner'
  <1>1. ASSUME NEW t \in Callers, Step(t) \/ Timeout(t)
        PROVE  Owner'
    <2>1. CASE ExecSetup(t)
      BY <1>1, <2>1 DEF ExecSetup, Go, Owner, TypeOK, called
    <2>2. CASE ExecSend(t)
      BY <1>1, <2>2 DEF ExecSend, Go, Owner, TypeOK, called
    <2>3. CASE Take(t)
      BY <1>1, <2>3 DEF Take, Go, Owner, TypeOK, called
    <2>4. CASE Timeout(t)
      BY <1>1, <2>4 DEF Timeout, Go, Owner, TypeOK, called
    <2>5. CASE ExecExpired(t)
      BY <1>1, <2>5 DEF ExecExpired, Go, Owner, TypeOK, called
    <2>6. CASE ExecTaken(t)
      BY <1>1, <2>6 DEF ExecTaken, Go, Owner, TypeOK, called
    <2>7. CASE Clear(t)
      BY <1>1, <2>7 DEF Clear, Go, Owner, TypeOK, called
    <2>8. CASE Unlock(t)
      BY <1>1, <2>8, NoneAssumption DEF Unlock, Go, Owner, TypeOK, called
    <2>9. CASE ConnSetup(t)
      BY <1>1, <2>9 DEF ConnSetup, Go, Owner, TypeOK, called
    <2>10. CASE ConnProbe(t)
      BY <1>1, <2>10 DEF ConnProbe, Go, Owner, TypeOK, called
    <2>11. CASE ConnAgain(t)
      BY <1>1, <2>11 DEF ConnAgain, Go, Owner, TypeOK, called
    <2>12. CASE ConnGiveUp(t)
      BY <1>1, <2>12 DEF ConnGiveUp, Go, Owner, TypeOK, called
    <2>13. CASE ConnTaken(t)
      BY <1>1, <2>13 DEF ConnTaken, Go, Owner, TypeOK, called
    <2>14. CASE ConnDelete(t)
      BY <1>1, <2>14 DEF ConnDelete, Go, Owner, TypeOK, called
    <2> QED
      BY <1>1, <2>1, <2>2, <2>3, <2>4, <2>5, <2>6, <2>7, <2>8, <2>9, <2>10, <2>11, <2>12, <2>13, <2>14 DEF Step
  <1>2. ASSUME NEW t \in Callers, NEW k \in {"exec", "conn"}, Lock(t, k)
        PROVE  Owner'
    BY <1>2, NoneAssumption DEF Lock, Go, Owner, TypeOK
  <1>3. CASE Parse \/ NoAnswer
    BY <1>3, ParserFrame, ParserPlaces DEF Owner
  <1>4. CASE UNCHANGED vars
    BY <1>4 DEF vars, called, Owner
  <1> QED
    BY <1>1, <1>2, <1>3, <1>4 DEF Next

LEMMA RespNext ==
    ASSUME TypeOK, Owner, RespIsOfLockHolder, [Next]_vars
    PROVE  RespIsOfLockHolder'
  <1>1. ASSUME NEW t \in Callers, Step(t) \/ Timeout(t)
        PROVE  RespIsOfLockHolder'
    <2>1. CASE ExecSetup(t)
      BY <1>1, <2>1 DEF ExecSetup, Go, Owner, RespIsOfLockHolder, TypeOK
    <2>2. CASE ExecSend(t)
      BY <1>1, <2>2 DEF ExecSend, Go, Owner, RespIsOfLockHolder, TypeOK
    <2>3. CASE Take(t)
      BY <1>1, <2>3 DEF Take, Go, Owner, RespIsOfLockHolder, TypeOK
    <2>4. CASE Timeout(t)
      BY <1>1, <2>4 DEF Timeout, Go, Owner, RespIsOfLockHolder, TypeOK
    <2>5. CASE ExecExpired(t)
      BY <1>1, <2>5 DEF ExecExpired, Go, Owner, RespIsOfLockHolder, TypeOK
    <2>6. CASE ExecTaken(t)
      BY <1>1, <2>6 DEF ExecTaken, Go, Owner, RespIsOfLockHolder, TypeOK
    <2>7. CASE Clear(t)
      BY <1>1, <2>7 DEF Clear, Go, Owner, RespIsOfLockHolder, TypeOK
    <2>8. CASE Unlock(t)
      BY <1>1, <2>8 DEF Unlock, Go, Owner, RespIsOfLockHolder, TypeOK
    <2>9. CASE ConnSetup(t)
      BY <1>1, <2>9 DEF ConnSetup, Go, Owner, RespIsOfLockHolder, TypeOK
    <2>10. CASE ConnProbe(t)
      BY <1>1, <2>10 DEF ConnProbe, Go, Owner, RespIsOfLockHolder, TypeOK
    <2>11. CASE ConnAgain(t)
      BY <1>1, <2>11 DEF ConnAgain, Go, Owner, RespIsOfLockHolder, TypeOK
    <2>12. CASE ConnGiveUp(t)
      BY <1>1, <2>12 DEF ConnGiveUp, Go, Owner, RespIsOfLockHolder, TypeOK
    <2>13. CASE ConnTaken(t)
      BY <1>1, <2>13 DEF ConnTaken, Go, Owner, RespIsOfLockHolder, TypeOK
    <2>14. CASE ConnDelete(t)
      BY <1>1, <2>14 DEF ConnDelete, Go, Owner, RespIsOfLockHolder, TypeOK
    <2> QED
      BY <1>1, <2>1, <2>2, <2>3, <2>4, <2>5, <2>6, <2>7, <2>8, <2>9, <2>10, <2>11, <2>12, <2>13, <2>14 DEF Step
  <1>2. ASSUME NEW t \in Callers, NEW k \in {"exec", "conn"}, Lock(t, k)
        PROVE  RespIsOfLockHolder'
    BY <1>2, NoneAssumption DEF Lock, Go, RespIsOfLockHolder, TypeOK
  <1>3. CASE Parse \/ NoAnswer
    <2>1. CASE resp' = None
      BY <2>1 DEF RespIsOfLockHolder
    <2>2. CASE resp' = resp /\ resp # None
      <3>1. resp \in Callers
        BY <2>2 DEF TypeOK
      <3>2. lock' = lock /\ (pc'[resp] = pc[resp] \/ pc'[resp] = "taken")
        BY <1>3, <3>1, ParserFrame, ParserPlaces
      <3> QED
        BY <2>2, <3>2 DEF RespIsOfLockHolder
    <2> QED
      BY <1>3, <2>1, <2>2, ParserFrame
  <1>4. CASE UNCHANGED vars
    BY <1>4 DEF vars, RespIsOfLockHolder
  <1> QED
    BY <1>1, <1>2, <1>3, <1>4 DEF Next

-----------------------------------------------------------------------------
(* Every step keeps what a clean call knows *)

\* A line of t's own answer leaves only lines of that answer in t's response.
LEMMA StoreOwn ==
    ASSUME TypeOK, NEW t \in Callers, resp = t, Store(Command(t)),
           \A i \in 1 .. Len(buf[t]) : buf[t][i] = Command(t)
    PROVE  \A i \in 1 .. Len(buf'[t]) : buf'[t][i] = Command(t)
  <1>1. buf[t] \in Seq(Commands) /\ Command(t) \in Commands
    BY DEF TypeOK, Command, Commands
  <1>2. CASE Len(buf[t]) < Cap
    <2>1. buf'[t] = Append(buf[t], Command(t))
      BY <1>2 DEF Store, TypeOK
    <2> QED
      BY <1>1, <2>1, AppendProperties
  <1>3. CASE ~(Len(buf[t]) < Cap)
    BY <1>3 DEF Store
  <1> QED
    BY <1>2, <1>3

\* A caller's own step.  Only t is in a call, so t is the caller to look at.
LEMMA CleanStep ==
    ASSUME TypeOK, Owner, CleanInv, NEW t \in Callers, Step(t) \/ Timeout(t)
    PROVE  CleanInv'
  <1>1. ASSUME NEW u \in Callers, u # t
        PROVE  ~clean[u] /\ lock = t
    BY <1>1 DEF Owner, CleanInv, CleanCall, Step, Timeout, ExecSetup, ExecSend,
           Take, ExecExpired, ExecTaken, Clear, Unlock, ConnSetup, ConnProbe,
           ConnAgain, ConnGiveUp, ConnTaken, ConnDelete, Go
  <1>2. ASSUME NEW u \in Callers, u # t
        PROVE  ~clean'[u]
    BY <1>1, <1>2 DEF TypeOK, Step, Timeout, ExecSetup, ExecSend, Take, ExecExpired,
           ExecTaken, Clear, Unlock, ConnSetup, ConnProbe, ConnAgain, ConnGiveUp,
           ConnTaken, ConnDelete
  <1>3. SUFFICES ASSUME clean'[t] PROVE CleanCall(t)'
    BY <1>2 DEF CleanInv
  <1>4. ~ExecSetup(t) => clean[t] /\ CleanCall(t)
    BY <1>3 DEF CleanInv, TypeOK, Step, Timeout, ExecSend, Take, ExecExpired,
           ExecTaken, Clear, Unlock, ConnSetup, ConnProbe, ConnAgain, ConnGiveUp,
           ConnTaken, ConnDelete
  <1>5. CASE ExecSetup(t)
    <2>1. sem = 0 /\ pend = <<>> /\ kind[t] = "exec"
      BY <1>3, <1>5 DEF ExecSetup, Go, Owner, TypeOK
    <2>2. buf'[t] = <<>> /\ Len(<<>>) = 0
      BY <1>5 DEF ExecSetup, TypeOK
    <2> QED
      BY <1>5, <2>1, <2>2 DEF ExecSetup, Go, CleanCall, TypeOK, called, modem
  <1>6. CASE ExecSend(t)
    <2>1. pend = <<>> /\ sem = 0 /\ resp = t /\ Append(<<>>, Command(t)) = <<Command(t)>>
      BY <1>4, <1>6 DEF ExecSetup, ExecSend, Go, CleanCall
    <2>2. pend' = <<Command(t)>> /\ Command(t)' = Command(t)
      BY <1>6, <2>1 DEF ExecSend, Command, called
    <2> QED
      BY <1>4, <1>6, <2>1, <2>2 DEF ExecSetup, ExecSend, Go, CleanCall, TypeOK, called
  <1>7. CASE Take(t)
    BY <1>3, <1>4, <1>7 DEF ExecSetup, Take, Go, CleanCall, Done, Command, TypeOK,
           called, modem
  <1>8. CASE Timeout(t)
    BY <1>3, <1>4, <1>8 DEF ExecSetup, Timeout, Go, CleanCall, Done, Command, TypeOK,
           called, modem
  <1>9. CASE ExecExpired(t)
    BY <1>3, <1>4, <1>9 DEF ExecSetup, ExecExpired, Go, CleanCall, Done, Command, TypeOK,
           called, modem
  <1>10. CASE ExecTaken(t)
    BY <1>3, <1>4, <1>10 DEF ExecSetup, ExecTaken, Go, CleanCall, Done, Command, TypeOK,
           called, modem
  <1>11. CASE Clear(t)
    BY <1>3, <1>4, <1>11 DEF ExecSetup, Clear, Go, CleanCall, Done, Command, TypeOK,
           called, modem
  <1>12. CASE Unlock(t)
    BY <1>3, <1>4, <1>12 DEF ExecSetup, Unlock, Go, CleanCall, Done, Command, TypeOK,
           called, modem
  <1>13. CASE ConnSetup(t)
    BY <1>3, <1>4, <1>13 DEF ExecSetup, ConnSetup, Go, CleanCall, Done, Command, TypeOK,
           called, modem
  <1>14. CASE ConnProbe(t)
    BY <1>3, <1>4, <1>14 DEF ExecSetup, ConnProbe, Go, CleanCall, Done, Command, TypeOK,
           called, modem
  <1>15. CASE ConnAgain(t)
    BY <1>3, <1>4, <1>15 DEF ExecSetup, ConnAgain, Go, CleanCall, Done, Command, TypeOK,
           called, modem
  <1>16. CASE ConnGiveUp(t)
    BY <1>3, <1>4, <1>16 DEF ExecSetup, ConnGiveUp, Go, CleanCall, Done, Command, TypeOK,
           called, modem
  <1>17. CASE ConnTaken(t)
    BY <1>3, <1>4, <1>17 DEF ExecSetup, ConnTaken, Go, CleanCall, Done, Command, TypeOK,
           called, modem
  <1>18. CASE ConnDelete(t)
    BY <1>3, <1>4, <1>18 DEF ExecSetup, ConnDelete, Go, CleanCall, Done, Command, TypeOK,
           called, modem
  <1> QED
    BY <1>5, <1>6, <1>7, <1>8, <1>9, <1>10, <1>11, <1>12, <1>13, <1>14, <1>15, <1>16, <1>17, <1>18 DEF Step

\* A line or a silence of the modem.  Only t can be asleep, and the only command
\* outstanding is its own.
LEMMA CleanParser ==
    ASSUME TypeOK, Owner, RespIsOfLockHolder, CleanInv, Parse \/ NoAnswer
    PROVE  CleanInv'
  <1>1. SUFFICES ASSUME NEW t \in Callers, clean[t] PROVE CleanCall(t)'
    BY ParserFrame DEF CleanInv
  <1>2. CleanCall(t) /\ lock = t /\ pc[t] # "idle"
    BY <1>1 DEF CleanInv, CleanCall, Owner
  <1>3. \A u \in Callers : u # t => pc[u] = "idle"
    BY <1>2 DEF Owner
  <1>4. pend # <<>>
    BY <1>1 DEF Parse, DataLine, EndLine, NoAnswer
  <1>5. pend = <<Command(t)>> /\ Head(pend) = Command(t) /\ Tail(pend) = <<>>
    <2>1. pend = <<Command(t)>>
      BY <1>2, <1>4 DEF CleanCall
    <2>2. Head(<<Command(t)>>) = Command(t) /\ Tail(<<Command(t)>>) = <<>>
      OBVIOUS
    <2> QED
      BY <2>1, <2>2
  <1>6. resp = t \/ resp = None
    BY <1>2 DEF RespIsOfLockHolder
  <1>7. Command(t)' = Command(t)
    BY <1>1, ParserFrame DEF Command
  <1>8. \A i \in 1 .. Len(buf'[t]) : buf'[t][i] = Command(t)
    <2>1. CASE buf' = buf
      BY <1>2, <2>1 DEF CleanCall
    <2>2. CASE Store(Command(t)) /\ resp # None
      BY <1>2, <1>6, <2>2, StoreOwn DEF CleanCall
    <2> QED
      BY <1>1, <1>5, <2>1, <2>2 DEF Parse, DataLine, EndLine, NoAnswer
  <1>9. CASE DataLine \/ NoAnswer
    <2>1. pc' = pc /\ sem' = sem /\ resp' = resp /\ (pend' = pend \/ pend' = <<>>)
      BY <1>5, <1>9 DEF DataLine, NoAnswer
    <2>2. pc[t] \notin {"send", "taken"}
      BY <1>2, <1>4 DEF CleanCall, Done
    <2>3. pc[t] \in {"take", "asleep"} => resp = t /\ sem = 0
      BY <1>2, <1>4 DEF CleanCall, Done
    <2>4. pc[t] \in {"clear", "unlock"} => ret[t] = -2
      BY <1>2, <1>4 DEF CleanCall
    <2> QED
      BY <1>1, <1>2, <1>5, <1>7, <1>8, <2>1, <2>2, <2>3, <2>4, ParserFrame
         DEF CleanCall
  <1>10. ASSUME NEW end \in {"ok", "error"}, EndLine(end)
         PROVE  CleanCall(t)'
    <2>1. pend' = <<>> /\ answer'[t] = end
      BY <1>2, <1>5, <1>10 DEF EndLine, Answered
    <2>2. CASE pc[t] \in {"take", "asleep"}
      <3>1. resp = t /\ sem = 0 /\ resp # None
        BY <1>2, <1>4, <2>2, NoneAssumption DEF CleanCall, Done
      <3>2. status' = end /\ resp' = None /\ Notify
        BY <1>10, <3>1 DEF EndLine
      <3>3. Done(t)'
        BY <2>1, <3>2 DEF Done
      <3>4. CASE pc[t] = "take"
        <4>1. pc' = pc /\ sem' = 1
          BY <1>3, <3>1, <3>2, <3>4 DEF Notify
        <4> QED
          BY <1>1, <1>2, <1>7, <1>8, <2>1, <3>3, <3>4, <4>1, ParserFrame DEF CleanCall
      <3>5. CASE pc[t] = "asleep"
        <4>1. pc'[t] = "taken"
          BY <1>3, <3>2, <3>5 DEF Notify, TypeOK
        <4> QED
          BY <1>1, <1>2, <1>7, <1>8, <2>1, <3>3, <4>1, ParserFrame DEF CleanCall
      <3> QED
        BY <2>2, <3>4, <3>5
    <2>3. CASE pc[t] \notin {"take", "asleep"}
      <3>1. pc'[t] = pc[t]
        BY <1>1, <1>10, <2>3, ParserPlaces DEF Parse
      <3>2. pc[t] \notin {"send", "taken"}
        BY <1>2, <1>4 DEF CleanCall, Done
      <3>3. pc[t] \in {"clear", "unlock"} => ret[t] = -2
        BY <1>2, <1>4 DEF CleanCall
      <3> QED
        BY <1>1, <1>2, <1>7, <1>8, <2>1, <2>3, <3>1, <3>2, <3>3, ParserFrame
           DEF CleanCall
    <2> QED
      BY <2>2, <2>3
  <1> QED
    BY <1>1, <1>9, <1>10 DEF Parse

LEMMA CleanNext ==
    ASSUME TypeOK, Owner, RespIsOfLockHolder, CleanInv, [Next]_vars
    PROVE  CleanInv'
  <1>1. ASSUME NEW t \in Callers, NEW k \in {"exec", "conn"}, Lock(t, k)
        PROVE  CleanInv'
    <2>1. \A u \in Callers : ~clean[u]
      BY <1>1, NoneAssumption DEF Lock, Owner, CleanInv, CleanCall
    <2> QED
      BY <1>1, <2>1 DEF Lock, CleanInv
  <1>2. CASE UNCHANGED vars
    BY <1>2 DEF vars, called, modem, CleanInv, CleanCall, Done, Command
  <1> QED
    BY <1>1, <1>2, CleanStep, CleanParser DEF Next

-----------------------------------------------------------------------------
(* Every step keeps the account of the tokens *)

\* Only the holder of the lock is inside a call, and client->resp is not set yet
\* where a call begins.
LEMMA Alone ==
    ASSUME Owner, RespIsOfLockHolder, NEW t \in Callers, pc[t] # "idle"
    PROVE  /\ \A u \in Callers : u # t => pc[u] = "idle"
           /\ lock = t /\ lock # None
           /\ pc[t] \in {"setup", "connect"} => resp = None
  BY NoneAssumption DEF Owner, RespIsOfLockHolder

\* The steps of a caller.
LEMMA TokenStep ==
    ASSUME TypeOK, Owner, RespIsOfLockHolder, TokenInv,
           NEW t \in Callers, Step(t) \/ Timeout(t)
    PROVE  TokenInv'
  <1>1. pc[t] # "idle"
    BY DEF Step, Timeout, ExecSetup, ExecSend, Take, ExecExpired, ExecTaken, Clear,
           Unlock, ConnSetup, ConnProbe, ConnAgain, ConnGiveUp, ConnTaken, ConnDelete,
           Go
  <1>2. /\ \A u \in Callers : u # t => pc[u] = "idle"
        /\ lock = t /\ lock # None
        /\ pc[t] \in {"setup", "connect"} => resp = None
    BY <1>1, Alone
  <1>3. /\ sem \in Nat /\ late \in Nat /\ pc \in [Callers -> Places]
        /\ t # None
    BY NoneAssumption DEF TypeOK
  <1> USE <1>2, <1>3 DEF TokenInv, Tokens, Go
  <1>4. CASE ExecSetup(t)
    BY <1>4 DEF ExecSetup
  <1>5. CASE ExecSend(t)
    BY <1>5 DEF ExecSend
  <1>6. CASE Take(t)
    BY <1>6 DEF Take
  <1>7. CASE Timeout(t)
    BY <1>7 DEF Timeout
  <1>8. CASE ExecExpired(t)
    BY <1>8 DEF ExecExpired
  <1>9. CASE ExecTaken(t)
    BY <1>9 DEF ExecTaken
  <1>10. CASE Clear(t)
    BY <1>10 DEF Clear
  <1>11. CASE Unlock(t)
    <2>1. resp = None
      BY <1>11 DEF Unlock, RespIsOfLockHolder
    <2> QED
      BY <1>11, <2>1 DEF Unlock
  <1>12. CASE ConnSetup(t)
    BY <1>12 DEF ConnSetup
  <1>13. CASE ConnProbe(t)
    BY <1>13 DEF ConnProbe
  <1>14. CASE ConnAgain(t)
    BY <1>14 DEF ConnAgain
  <1>15. CASE ConnGiveUp(t)
    BY <1>15 DEF ConnGiveUp
  <1>16. CASE ConnTaken(t)
    BY <1>16 DEF ConnTaken
  <1>17. CASE ConnDelete(t)
    BY <1>17 DEF ConnDelete
  <1> QED
    BY <1>4, <1>5, <1>6, <1>7, <1>8, <1>9, <1>10, <1>11, <1>12, <1>13, <1>14,
       <1>15, <1>16, <1>17 DEF Step

\* The last line of an answer: what it releases it takes from client->resp.
LEMMA TokenLine ==
    ASSUME TypeOK, Owner, RespIsOfLockHolder, TokenInv,
           NEW end \in {"ok", "error"}, EndLine(end)
    PROVE  TokenInv'
  <1>1. sem \in Nat /\ late \in Nat /\ pc \in [Callers -> Places]
    BY DEF TypeOK
  <1>2. lock' = lock /\ late' = late
    BY DEF EndLine
  <1>3. CASE resp = None
    BY <1>2, <1>3 DEF EndLine, TokenInv, Tokens
  <1>4. CASE resp # None
    <2>1. resp' = None /\ Notify
      BY <1>4 DEF EndLine
    <2>2. lock # None
      BY <1>4 DEF RespIsOfLockHolder
    <2>3. ASSUME NEW t \in Callers, pc[t] = "asleep", pc' = [pc EXCEPT ![t] = "taken"],
                 sem' = sem
          PROVE  TokenInv'
      <3>1. \A u \in Callers : u # t => pc[u] = "idle"
        BY <2>3, Alone
      <3> QED
        BY <1>1, <1>2, <2>1, <2>2, <2>3, <3>1 DEF TokenInv, Tokens
    <2>4. ASSUME \A t \in Callers : pc[t] # "asleep", sem' = sem + 1, pc' = pc
          PROVE  TokenInv'
      BY <1>1, <1>2, <1>4, <2>1, <2>2, <2>4 DEF TokenInv, Tokens
    <2> QED
      BY <2>1, <2>3, <2>4 DEF Notify
  <1> QED
    BY <1>3, <1>4

LEMMA TokenNext ==
    ASSUME TypeOK, Owner, RespIsOfLockHolder, TokenInv, [Next]_vars
    PROVE  TokenInv'
  <1>1. ASSUME NEW t \in Callers, NEW k \in {"exec", "conn"}, Lock(t, k)
        PROVE  TokenInv'
    <2>1. lock = None /\ lock' = t /\ t # None /\ UNCHANGED <<sem, resp, late>>
      BY <1>1, NoneAssumption DEF Lock
    <2>2. pc' = [pc EXCEPT ![t] = IF k = "exec" THEN "setup" ELSE "connect"]
      BY <1>1 DEF Lock, Go
    <2>3. \A u \in Callers : pc[u] = "idle"
      BY <2>1, NoneAssumption DEF Owner
    <2> QED
      BY <2>1, <2>2, <2>3 DEF TokenInv, Tokens, TypeOK
  <1>2. CASE DataLine \/ NoAnswer \/ UNCHANGED vars
    BY <1>2 DEF DataLine, NoAnswer, vars, TokenInv, Tokens
  <1> QED
    BY <1>1, <1>2, TokenStep, TokenLine DEF Next, Parse

\* A step writes to a deleted response only after a timeout: where a response is
\* deleted and client->resp still points to it, the token to come is one of those
\* that TokenInv allows.
LEMMA WildNext ==
    ASSUME TypeOK, RespIsOfLockHolder, TokenInv, WildWriteNeedsTimeout, [Next]_vars
    PROVE  WildWriteNeedsTimeout'
  <1>1. late' \in {late, late + 1} /\ sem \in Nat /\ late \in Nat
    BY DEF TypeOK, Next, Lock, Step, Timeout, ExecSetup, ExecSend, Take, ExecExpired,
           ExecTaken, Clear, Unlock, ConnSetup, ConnProbe, ConnAgain, ConnGiveUp,
           ConnTaken, ConnDelete, Parse, DataLine, EndLine, NoAnswer, vars
  <1>2. wild' = wild \/ (resp # None /\ wild' = (wild \/ pc[resp] = "deleted"))
    BY DEF Next, Lock, Step, Timeout, ExecSetup, ExecSend, Take, ExecExpired,
           ExecTaken, Clear, Unlock, ConnSetup, ConnProbe, ConnAgain, ConnGiveUp,
           ConnTaken, ConnDelete, Parse, DataLine, EndLine, Store, NoAnswer, vars
  <1>3. resp # None /\ pc[resp] = "deleted" => late > 0
    BY <1>1 DEF TypeOK, TokenInv, Tokens
  <1>4. wild' => wild \/ (resp # None /\ pc[resp] = "deleted")
    BY <1>2, Zenon
  <1>5. wild' => late > 0
    BY <1>3, <1>4, Zenon DEF WildWriteNeedsTimeout
  <1>6. late > 0 => late' > 0
    BY <1>1
  <1> QED
    BY <1>5, <1>6, Zenon DEF WildWriteNeedsTimeout

-----------------------------------------------------------------------------
\* The inductive invariant: types, who is in a call, where client->resp points,
\* and what a clean call has met so far.
THEOREM AtClientInvariant == Spec => []IInv
  <1>1. Init => IInv
    BY IInvInit
  <1>2. IInv /\ [Next]_vars => IInv'
    BY TypeNext, OwnerNext, RespNext, CleanNext DEF IInv
  <1> QED
    BY <1>1, <1>2, PTL DEF Spec

\* client->resp never points to the response of a call that is over, for any
\* number of callers, of timeouts and of lines the modem sends or leaves out.
THEOREM AtClientRespIsOfLockHolder == Spec => []RespIsOfLockHolder
  <1>1. IInv => RespIsOfLockHolder
    BY DEF IInv
  <1> QED
    BY <1>1, AtClientInvariant, PTL

\* exec returns what the modem said to its own command whenever no token and no
\* command of an earlier call was outstanding when it began.
THEOREM AtClientCleanExecIsExact == Spec => []CleanExecIsExact
  <1>1. IInv => CleanExecIsExact
    BY DEF IInv, CleanInv, CleanCall, CleanExecIsExact
  <1> QED
    BY <1>1, AtClientInvariant, PTL

\* The account of the tokens holds as well, and no deleted response is written to
\* before a timeout.
LEMMA TokenInvariant == Spec => [](IInv /\ TokenInv /\ WildWriteNeedsTimeout)
  <1>1. Init => IInv /\ TokenInv /\ WildWriteNeedsTimeout
    BY IInvInit DEF Init, TokenInv, Tokens, WildWriteNeedsTimeout
  <1>2. IInv /\ TokenInv /\ WildWriteNeedsTimeout /\ [Next]_vars
            => IInv' /\ TokenInv' /\ WildWriteNeedsTimeout'
    BY TypeNext, OwnerNext, RespNext, CleanNext, TokenNext, WildNext DEF IInv
  <1> QED
    BY <1>1, <1>2, PTL DEF Spec

\* Types, and a response that never holds more lines than fit into it, for any
\* number of callers and lines.
THEOREM AtClientTypeOK == Spec => []TypeOK
  <1>1. IInv => TypeOK
    BY DEF IInv
  <1> QED
    BY <1>1, AtClientInvariant, PTL

\* Between two calls there is at most one token of resp_notice for every call that
\* has timed out, for any number of calls and probes.
THEOREM AtClientTokensComeFromTimeouts == Spec => []TokensComeFromTimeouts
  <1>1. IInv /\ TokenInv => TokensComeFromTimeouts
    BY DEF IInv, TypeOK, TokenInv, Tokens, TokensComeFromTimeouts
  <1> QED
    BY <1>1, TokenInvariant, PTL

\* The parser writes to a response that wait_connect has deleted only after some
\* call has timed out.
THEOREM AtClientWildWriteNeedsTimeout == Spec => []WildWriteNeedsTimeout
  BY TokenInvariant, PTL

-----------------------------------------------------------------------------
(* The client implements CommandChannel *)

\* Between its calls a caller has nothing to say about an answer.
Unsaid == \A t \in Callers : pc[t] = "idle" => answer[t] = "none" /\ ~clean[t]

\* What a caller at place p, about to return r, shows of its result.
ResultAt(p, r) ==
    IF p \in {"idle", "setup", "connect"} THEN "new"
    ELSE IF p \in {"send", "probe", "take", "asleep", "taken", "expired"} THEN "open"
    ELSE IF r = 0 THEN "ok" ELSE IF r = -1 THEN "error" ELSE "timeout"

\* The mapping where the lock is free, and where t holds it.
LEMMA FreeView ==
    ASSUME lock = None
    PROVE  Verdict = "none" /\ Fresh = FALSE /\ Result = "new"
  BY DEF Verdict, Fresh, Result

LEMMA HeldView ==
    ASSUME TypeOK, NEW t \in Callers, lock = t
    PROVE  Verdict = answer[t] /\ Fresh = clean[t] /\ Result = ResultAt(pc[t], ret[t])
  <1>1. t # None /\ clean[t] \in BOOLEAN
    BY NoneAssumption DEF TypeOK
  <1>2. Verdict = answer[t]
    BY <1>1 DEF Verdict
  <1>3. Fresh = clean[t]
    BY <1>1 DEF Fresh
  <1>4. Result = ResultAt(pc[t], ret[t])
    BY <1>1 DEF Result, ResultAt, TypeOK
  <1> QED
    BY <1>2, <1>3, <1>4

LEMMA UnsaidNext ==
    ASSUME TypeOK, Unsaid, [Next]_vars
    PROVE  Unsaid'
  <1>1. ASSUME NEW t \in Callers, Step(t) \/ Timeout(t), ~Unlock(t), NEW u \in Callers,
               pc'[u] = "idle"
        PROVE  answer'[u] = "none" /\ ~clean'[u]
    <2>1. pc[u] = "idle" /\ u # t
      BY <1>1 DEF TypeOK, Step, Timeout, ExecSetup, ExecSend, Take, ExecExpired,
             ExecTaken, Clear, ConnSetup, ConnProbe, ConnAgain, ConnGiveUp, ConnTaken,
             ConnDelete, Go
    <2>2. answer' = answer
      BY <1>1 DEF Step, Timeout, ExecSetup, ExecSend, Take, ExecExpired, ExecTaken,
             Clear, ConnSetup, ConnProbe, ConnAgain, ConnGiveUp, ConnTaken, ConnDelete
    <2>3. clean'[u] = clean[u]
      BY <1>1, <2>1 DEF TypeOK, Step, Timeout, ExecSetup, ExecSend, Take, ExecExpired,
             ExecTaken, Clear, ConnSetup, ConnProbe, ConnAgain, ConnGiveUp, ConnTaken,
             ConnDelete
    <2> QED
      BY <2>1, <2>2, <2>3 DEF Unsaid
  <1>2. ASSUME NEW t \in Callers, Unlock(t)
        PROVE  Unsaid'
    BY <1>2 DEF Unlock, Go, Unsaid, TypeOK
  <1>3. ASSUME NEW t \in Callers, NEW k \in {"exec", "conn"}, Lock(t, k)
        PROVE  Unsaid'
    BY <1>3 DEF Lock, Go, Unsaid, TypeOK
  <1>4. CASE Parse \/ NoAnswer
    <2>1. ASSUME NEW u \in Callers, pc'[u] = "idle"
          PROVE  pc[u] = "idle" /\ answer'[u] = answer[u]
      <3>1. pc[u] = "idle"
        BY <1>4, <2>1, ParserPlaces
      <3> QED
        BY <1>4, <3>1 DEF Parse, DataLine, EndLine, Answered, NoAnswer, TypeOK
    <2> QED
      BY <1>4, <2>1, ParserFrame DEF Unsaid
  <1>5. CASE UNCHANGED vars
    BY <1>5 DEF vars, Unsaid
  <1> QED
    BY <1>1, <1>2, <1>3, <1>4, <1>5 DEF Next, Unsaid

\* A call begins.
LEMMA LockIsEnter ==
    ASSUME TypeOK, TypeOK', Unsaid, NEW t \in Callers, NEW k \in {"exec", "conn"},
           Lock(t, k)
    PROVE  CC!Enter(t)
  <1>1. lock = None /\ Verdict = "none" /\ Fresh = FALSE /\ Result = "new"
    BY FreeView DEF Lock
  <1>2. t # None /\ lock' = t /\ pc[t] = "idle" /\ pc'[t] \in {"setup", "connect"}
    BY NoneAssumption DEF Lock, Go, TypeOK
  <1>3. answer'[t] = "none" /\ ~clean'[t]
    BY <1>2 DEF Lock, Unsaid
  <1>4. Verdict' = "none" /\ Result' = "new"
    BY <1>2, <1>3 DEF Verdict, Result
  <1>5. Fresh' = FALSE
    BY <1>2, <1>3 DEF Fresh
  <1> QED
    BY <1>1, <1>4, <1>5 DEF Lock, CC!Enter, modem

\* The steps of a caller between those two: what the users see is what t shows.
LEMMA StepIsChannel ==
    ASSUME TypeOK, TypeOK', Owner, CleanInv, TokenInv, NEW t \in Callers,
           Step(t) \/ Timeout(t), ~Unlock(t)
    PROVE  [CC!Next]_(CC!vars)
  <1>1. lock = t /\ lock' = t /\ t # None /\ calls' = calls
    BY NoneAssumption DEF Owner, Step, Timeout, ExecSetup, ExecSend, Take, ExecExpired,
           ExecTaken, Clear, ConnSetup, ConnProbe, ConnAgain, ConnGiveUp, ConnTaken,
           ConnDelete, Go, called
  <1>2. Verdict = answer[t] /\ Fresh = clean[t] /\ Result = ResultAt(pc[t], ret[t])
    BY <1>1, HeldView
  <1>3. answer' = answer
    BY DEF Step, Timeout, ExecSetup, ExecSend, Take, ExecExpired, ExecTaken, Clear,
           ConnSetup, ConnProbe, ConnAgain, ConnGiveUp, ConnTaken, ConnDelete
  <1>4. Verdict' = answer'[t] /\ Fresh' = clean'[t] /\ Result' = ResultAt(pc'[t], ret'[t])
    <2>1. Verdict' = answer'[t]
      BY <1>1 DEF Verdict
    <2>2. Fresh' = clean'[t]
      BY <1>1 DEF Fresh, TypeOK
    <2>3. Result' = ResultAt(pc'[t], ret'[t])
      BY <1>1 DEF Result, ResultAt
    <2> QED
      BY <2>1, <2>2, <2>3
  <1>5. pc \in [Callers -> Places] /\ ret \in [Callers -> {0, -1, -2}]
    BY DEF TypeOK
  <1>6. CASE ExecSetup(t)
    <2>1. pc[t] = "setup" /\ pc'[t] = "send" /\ UNCHANGED <<pend, late, sem>>
      BY <1>5, <1>6 DEF ExecSetup, Go, modem
    <2>2. clean'[t] <=> sem = 0 /\ pend = <<>>
      BY <1>6 DEF ExecSetup, TypeOK
    <2>3. sem <= late /\ sem \in Nat /\ late \in Nat
      BY <2>1 DEF TokenInv, Tokens, TypeOK
    <2>4. (clean'[t] => pend = <<>>) /\ (pend = <<>> /\ late = 0 => clean'[t])
      <3>1. late = 0 => sem = 0
        BY <2>3
      <3> QED
        BY <2>2, <3>1, Zenon
    <2>5. Result = "new" /\ Result' = "open"
      BY <1>2, <1>4, <2>1 DEF ResultAt
    <2>6. CC!BeginExec
      BY <1>1, <1>2, <1>3, <1>4, <2>1, <2>4, <2>5 DEF CC!BeginExec, TypeOK
    <2> QED
      BY <2>6 DEF CC!Next, CC!Serve
  <1>7. CASE ConnSetup(t)
    <2>1. pc[t] = "connect" /\ pc'[t] = "probe" /\ UNCHANGED <<pend, late, clean>>
      BY <1>5, <1>7 DEF ConnSetup, Go, modem
    <2>2. Result = "new" /\ Result' = "open"
      BY <1>2, <1>4, <2>1 DEF ResultAt
    <2>3. CC!BeginConnect
      BY <1>1, <1>2, <1>3, <1>4, <2>1, <2>2 DEF CC!BeginConnect
    <2> QED
      BY <2>3 DEF CC!Next, CC!Serve
  <1>8. CASE ExecSend(t) \/ ConnProbe(t)
    <2>1. /\ pc[t] \in {"send", "probe"} /\ pc'[t] = "take" /\ UNCHANGED <<late, clean, ret>>
          /\ pend' = Append(pend, Command(t))
      BY <1>5, <1>8 DEF ExecSend, ConnProbe, Go
    <2>2. Result = "open" /\ Result' = "open"
      BY <1>2, <1>4, <2>1 DEF ResultAt
    <2>3. CC!Send(t)
      BY <1>1, <1>2, <1>3, <1>4, <2>1, <2>2 DEF CC!Send, CC!Command, Command
    <2> QED
      BY <2>3 DEF CC!Next
  <1>9. CASE ExecExpired(t) \/ ConnGiveUp(t)
    <2>1. /\ pc[t] \in {"expired", "probe"} /\ pc'[t] \in {"clear", "delete"}
          /\ ret'[t] = -2 /\ late' = late + 1 /\ UNCHANGED <<pend, clean>>
      BY <1>5, <1>9 DEF ExecExpired, ConnGiveUp, Go, modem
    <2>2. Result = "open" /\ Result' = "timeout"
      BY <1>2, <1>4, <2>1 DEF ResultAt
    <2>3. CC!Settle("timeout")
      BY <1>1, <1>2, <1>3, <1>4, <2>1, <2>2 DEF CC!Settle
    <2> QED
      BY <2>3 DEF CC!Next, CC!Serve, CC!Results
  <1>10. CASE ExecTaken(t)
    <2> DEFINE r == IF status = "ok" THEN "ok" ELSE "error"
    <2>1. /\ pc[t] = "taken" /\ pc'[t] = "clear" /\ UNCHANGED <<pend, clean, late>>
          /\ ret'[t] = IF status = "ok" THEN 0 ELSE -1
      BY <1>5, <1>10 DEF ExecTaken, Go, modem
    <2>2. Result = "open" /\ Result' = r
      BY <1>2, <1>4, <2>1 DEF ResultAt
    <2>3. clean[t] => answer[t] = r /\ pend = <<>>
      BY <2>1 DEF CleanInv, CleanCall, Done
    <2>4. CC!Settle(r)
      BY <1>1, <1>2, <1>3, <1>4, <2>1, <2>2, <2>3 DEF CC!Settle
    <2> QED
      BY <2>4 DEF CC!Next, CC!Serve, CC!Results
  <1>11. CASE ConnTaken(t)
    <2>1. /\ pc[t] = "taken" /\ pc'[t] = "delete" /\ UNCHANGED <<pend, clean, late>>
          /\ ret'[t] = 0 /\ kind[t] = "conn"
      BY <1>5, <1>11 DEF ConnTaken, Go, modem
    <2>2. Result = "open" /\ Result' = "ok"
      BY <1>2, <1>4, <2>1 DEF ResultAt
    <2>3. ~clean[t]
      BY <2>1 DEF CleanInv, CleanCall
    <2>4. CC!Settle("ok")
      BY <1>1, <1>2, <1>3, <1>4, <2>1, <2>2, <2>3 DEF CC!Settle
    <2> QED
      BY <2>4 DEF CC!Next, CC!Serve, CC!Results
  <1>12. CASE Take(t) \/ Timeout(t) \/ ConnAgain(t)
    <2>1. /\ pc[t] \in {"take", "asleep", "expired"}
          /\ pc'[t] \in {"taken", "asleep", "expired", "probe"}
          /\ UNCHANGED <<pend, clean, late, ret>>
      BY <1>5, <1>12 DEF Take, Timeout, ConnAgain, Go, modem
    <2>2. Result' = Result
      BY <1>2, <1>4, <2>1 DEF ResultAt
    <2> QED
      BY <1>1, <1>2, <1>3, <1>4, <2>1, <2>2 DEF CC!vars
  <1>13. CASE Clear(t) \/ ConnDelete(t)
    <2>1. /\ pc[t] \in {"clear", "delete", "deleted"} /\ pc'[t] \in {"deleted", "unlock"}
          /\ UNCHANGED <<pend, clean, late, ret>>
      BY <1>5, <1>13 DEF Clear, ConnDelete, Go, modem
    <2>2. Result' = Result
      BY <1>2, <1>4, <2>1 DEF ResultAt
    <2> QED
      BY <1>1, <1>2, <1>3, <1>4, <2>1, <2>2 DEF CC!vars
  <1> QED
    BY <1>6, <1>7, <1>8, <1>9, <1>10, <1>11, <1>12, <1>13 DEF Step

\* A call returns.
LEMMA UnlockIsReturn ==
    ASSUME TypeOK, Owner, NEW t \in Callers, Unlock(t)
    PROVE  CC!Return
  <1>1. lock = t /\ t # None /\ pc[t] = "unlock" /\ lock' = None
    BY NoneAssumption DEF Unlock, Go, Owner
  <1>2. Result \in CC!Results
    <2>1. Result = ResultAt(pc[t], ret[t]) /\ ret[t] \in {0, -1, -2}
      BY <1>1, HeldView DEF TypeOK
    <2> QED
      BY <1>1, <2>1 DEF ResultAt, CC!Results
  <1>3. Verdict' = "none" /\ Fresh' = FALSE /\ Result' = "new"
    BY <1>1 DEF Verdict, Fresh, Result
  <1> QED
    BY <1>1, <1>2, <1>3 DEF Unlock, CC!Return, modem

\* What the parser and the modem do: nobody else's result changes, and a caller that
\* is woken has not ended its call.
LEMMA ParserIsChannel ==
    ASSUME TypeOK, TypeOK', Owner, Parse \/ NoAnswer
    PROVE  [CC!Next]_(CC!vars)
  <1>1. lock' = lock /\ calls' = calls /\ ret' = ret /\ clean' = clean /\ late' = late
    BY ParserFrame DEF Parse, DataLine, EndLine, NoAnswer
  <1>2. Fresh' = Fresh
    BY <1>1 DEF Fresh
  <1>3. Result' = Result
    <2>1. CASE lock = None
      BY <1>1, <2>1 DEF Result
    <2>2. CASE lock \in Callers
      <3>1. PICK t \in Callers : lock = t
        BY <2>2
      <3>2. pc'[t] = pc[t] \/ (pc[t] = "asleep" /\ pc'[t] = "taken")
        BY ParserPlaces
      <3>3. ResultAt(pc'[t], ret'[t]) = ResultAt(pc[t], ret[t])
        BY <1>1, <3>2 DEF ResultAt
      <3>4. Result = ResultAt(pc[t], ret[t])
        BY <3>1, HeldView
      <3>5. t # None /\ lock' = t
        BY <1>1, <3>1, NoneAssumption
      <3>6. Result' = ResultAt(pc'[t], ret'[t])
        BY <3>5 DEF Result, ResultAt
      <3> QED
        BY <3>3, <3>4, <3>6
    <2> QED
      BY <2>1, <2>2 DEF TypeOK
  <1>4. CASE DataLine
    <2>1. UNCHANGED <<pend, answer>>
      BY <1>4 DEF DataLine
    <2>2. Verdict' = Verdict
      BY <1>1, <2>1 DEF Verdict
    <2> QED
      BY <1>1, <1>2, <1>3, <2>1, <2>2 DEF CC!vars
  <1>5. CASE NoAnswer
    <2>1. Verdict' = Verdict
      BY <1>1, <1>5 DEF Verdict, NoAnswer
    <2>2. CC!Forget
      BY <1>1, <1>2, <1>3, <1>5, <2>1 DEF CC!Forget, NoAnswer
    <2> QED
      BY <2>2 DEF CC!Next
  <1>6. ASSUME NEW end \in {"ok", "error"}, EndLine(end)
        PROVE  CC!Next
    <2>1. pend # <<>> /\ pend' = Tail(pend) /\ answer' = Answered(end)
      BY <1>6 DEF EndLine
    <2>2. Verdict' = IF lock # None /\ Head(pend) = Command(lock) THEN end ELSE Verdict
      <3>1. CASE lock = None
        BY <1>1, <3>1 DEF Verdict
      <3>2. CASE lock # None
        <4>1. lock \in Callers /\ pc[lock] # "idle" /\ Verdict = answer[lock]
          BY <3>2 DEF TypeOK, Owner, Verdict
        <4>2. Verdict' = answer'[lock]
          BY <1>1, <3>2 DEF Verdict
        <4> QED
          BY <2>1, <3>2, <4>1, <4>2 DEF Answered
      <3> QED
        BY <3>1, <3>2
    <2>3. CC!Answer(end)
      BY <1>1, <1>2, <1>3, <2>1, <2>2 DEF CC!Answer, CC!Command, Command
    <2> QED
      BY <2>3 DEF CC!Next
  <1> QED
    BY <1>4, <1>5, <1>6 DEF Parse

LEMMA NextIsChannel ==
    ASSUME TypeOK, TypeOK', Owner, CleanInv, TokenInv, Unsaid, [Next]_vars
    PROVE  [CC!Next]_(CC!vars)
  <1>1. ASSUME NEW t \in Callers, NEW k \in {"exec", "conn"}, Lock(t, k)
        PROVE  CC!Next
    BY <1>1, LockIsEnter DEF CC!Next
  <1>2. ASSUME NEW t \in Callers, Step(t) \/ Timeout(t)
        PROVE  [CC!Next]_(CC!vars)
    <2>1. CASE Unlock(t)
      BY <2>1, UnlockIsReturn DEF CC!Next, CC!Serve
    <2> QED
      BY <1>2, <2>1, StepIsChannel
  <1>3. CASE UNCHANGED vars
    BY <1>3 DEF vars, called, modem, Verdict, Fresh, Result, CC!vars
  <1> QED
    BY <1>1, <1>2, <1>3, ParserIsChannel DEF Next

\* The client is a command channel (the safety part of ImplementsChannel): for any
\* callers, calls and probes and whatever the modem does, calls are let in one at a
\* time, each result is settled once, a call of exec that begins with nothing
\* outstanding gets what the modem said to it, and until some call times out that
\* is each exec that begins with no command unanswered.
THEOREM AtClientImplementsChannel == Spec => CC!SafeSpec
  <1> DEFINE Inv == IInv /\ TokenInv /\ WildWriteNeedsTimeout
  <1>1. Init => CC!Init /\ Unsaid
    <2> SUFFICES ASSUME Init PROVE CC!Init /\ Unsaid
      OBVIOUS
    <2>1. Verdict = "none" /\ Fresh = FALSE /\ Result = "new"
      BY FreeView DEF Init
    <2> QED
      BY <2>1 DEF Init, CC!Init, Unsaid
  <1>2. Inv /\ Unsaid /\ [Next]_vars => Unsaid'
    BY UnsaidNext DEF IInv
  <1>3. Inv /\ Inv' /\ Unsaid /\ [Next]_vars => [CC!Next]_(CC!vars)
    BY NextIsChannel DEF IInv
  <1>4. Spec => []Inv
    BY TokenInvariant
  <1> HIDE DEF Inv
  <1> QED
    BY <1>1, <1>2, <1>3, <1>4, PTL DEF Spec, CC!SafeSpec
=============================================================================
