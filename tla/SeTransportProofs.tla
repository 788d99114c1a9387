-------------------------- MODULE SeTransportProofs --------------------------
(***************************************************************************)
(* Proofs about SeTransport for every value of its constants.             *)
(***************************************************************************)
EXTENDS SeTransport, TLAPS

\* During an exchange current_opcode is one of the opcodes, so the read
\* length RespLen[current_opcode] is a number.
TypeInv ==
    /\ TypeOK
    /\ hpc # "ready" => current_opcode \in Opcodes

\* The chip holds a command or a response only while it is awake.
BufferOnlyWhenAwake == chipSt # "none" => power = "awake"

\* What the chip holds is always its answer to the latest command.
BufferHoldsCurrent == chipSt # "none" => chipSeq = seq

\* A successful se_read has already idled the chip.
SuccessLeavesChipQuiet ==
    (hpc = "returned" /\ result = 0) => power # "awake" /\ chipSt = "none"

\* The inductive invariant behind ReadReturnsCurrentResponse
IInv ==
    /\ TypeInv
    /\ BufferOnlyWhenAwake
    /\ BufferHoldsCurrent
    /\ SuccessLeavesChipQuiet
    /\ WatchdogPausedBetweenExchanges
    /\ ReadReturnsCurrentResponse
-----------------------------------------------------------------------------
\* Every byte count se_read_response can return is a natural number.
LEMMA DeliveryType ==
    ASSUME TypeInv, current_opcode \in Opcodes, NEW d \in Deliveries
    PROVE  /\ d.n \in Nat
           /\ d.intact \in BOOLEAN
           /\ d.intact => Transmitting /\ d.b0 = chipLen
  <1>1. RespLen[current_opcode] \in Nat
    BY OpcodesAssumption
  <1>2. \A L \in Nat : Counts(L) \subseteq Nat
    BY ValuesAssumption DEF Counts
  <1>3. CASE Transmitting
    BY <1>1, <1>2, <1>3 DEF Deliveries
  <1>4. CASE ~Transmitting
    <2>1. d = [n |-> 0, intact |-> FALSE, b0 |-> 0]
      BY <1>4 DEF Deliveries
    <2>2. QED
      BY <1>4, <2>1
  <1>5. QED
    BY <1>3, <1>4

\* The IDLE and SLEEP flags leave the chip in a well-typed power state.
LEMMA FlagsType ==
    ASSUME TypeInv, FlagIdle \/ FlagSleep
    PROVE  power' \in PowerStates /\ chipSt' \in BufferStates
  BY DEF FlagIdle, FlagSleep, TypeInv, TypeOK, PowerStates, BufferStates

LEMMA TypeInvInit == Init => TypeInv
  BY BoundsAssumption DEF Init, TypeInv, TypeOK, HostStates, PowerStates,
                          BufferStates

LEMMA TypeInvNext == TypeInv /\ [Next]_vars => TypeInv'
  <1> SUFFICES ASSUME TypeInv, [Next]_vars PROVE TypeInv'
    OBVIOUS
  <1> USE BoundsAssumption DEF TypeInv, TypeOK, HostStates, PowerStates, BufferStates,
              hostVars, dataVars, chipVars
  <1>1. ASSUME NEW op \in Opcodes, SeWrite(op) PROVE TypeInv'
    <2>1. RespLen[op] + 3 \in Nat /\ seq + 1 \in 0..MaxSeq
      BY <1>1, OpcodesAssumption, BoundsAssumption DEF SeWrite
    <2>2. chipSt' \in BufferStates /\ chipSeq' \in 0..MaxSeq
          /\ chipLen' \in Nat /\ chipBody' \in Payloads \cup Codes \cup {Garbage}
      BY <1>1, <2>1, ValuesAssumption DEF SeWrite
    <2>3. QED
      BY <1>1, <2>1, <2>2 DEF SeWrite, se_wake
  <1>2. CASE ReadStart
    BY <1>2, BoundsAssumption DEF ReadStart
  <1>3. CASE ReadAttempt
    <2>1. PICK d \in Deliveries :
                \/ Verdict(d) = "retry" /\ RetryPass
                \/ Verdict(d) = "error" /\ ErrorReturn
                \/ Verdict(d) = "accept" /\ Accept(d)
      BY <1>3 DEF ReadAttempt
    <2>2. d.n \in Nat
      BY <1>3, DeliveryType DEF ReadAttempt
    <2>3. UNCHANGED <<current_opcode, seq>> /\ retry >= 0 /\ hpc = "reading"
      BY <1>3 DEF ReadAttempt
    <2>4. CASE RetryPass
      BY <2>3, <2>4 DEF RetryPass, TryAgain
    <2>5. CASE ErrorReturn
      BY <2>3, <2>5 DEF ErrorReturn
    <2>6. CASE Accept(d)
      <3>1. power' \in PowerStates /\ chipSt' \in BufferStates
        BY <2>6, FlagsType DEF Accept
      <3>2. QED
        BY <2>2, <2>3, <2>6, <3>1 DEF Accept
    <2>7. QED
      BY <2>1, <2>4, <2>5, <2>6
  <1>4. CASE ReadRetryOut
    BY <1>4 DEF ReadRetryOut
  <1>5. CASE CallerSleep
    BY <1>5, FlagsType DEF CallerSleep
  <1>6. CASE CallerNext
    BY <1>6 DEF CallerNext, chipVars
  <1>7. CASE SeIdle \/ SeSleep
    BY <1>7, FlagsType DEF SeIdle, SeSleep, hostVars
  <1>8. CASE ChipExecute
    BY <1>8 DEF ChipExecute, hostVars
  <1>9. CASE ChipWatchdog
    BY <1>9 DEF ChipWatchdog, hostVars
  <1>10. CASE UNCHANGED vars
    BY <1>10 DEF vars, hostVars, dataVars, chipVars
  <1>11. QED
    BY <1>1, <1>2, <1>3, <1>4, <1>5, <1>6, <1>7, <1>8, <1>9, <1>10 DEF Next

\* Type correctness: every reachable state of the driver and the chip is
\* well typed (se_read's counter stays in -1..MaxRetry, the copy count is a
\* number, the chip's buffer and power state are among their values).
THEOREM TypeCorrect == Spec => []TypeOK
  <1>1. Spec => []TypeInv
    BY TypeInvInit, TypeInvNext, PTL DEF Spec
  <1>2. QED
    BY <1>1, PTL DEF TypeInv
-----------------------------------------------------------------------------
\* se_read accepts a framed response only when its bytes are the chip's own
\* (their CRC matched), and only when there were at least 4 of them.
LEMMA AcceptedFrame ==
    ASSUME NEW d, d.n \in Int, Verdict(d) = "accept"
    PROVE  /\ d.n >= 4
           /\ current_opcode # OP_Info => d.intact
  <1>1. d.n >= 4
    BY DEF Verdict
  <1>2. current_opcode # OP_Info => check_crc(d)
    BY <1>1 DEF Verdict
  <1>3. QED
    BY <1>1, <1>2 DEF check_crc

\* A response of 4 or more bytes is only ever read from a transmitting chip.
LEMMA AcceptedFromTransmitting ==
    ASSUME TypeInv, current_opcode \in Opcodes, NEW d \in Deliveries,
           d.n >= 4
    PROVE  Transmitting
  <1>1. CASE ~Transmitting
    <2>1. d = [n |-> 0, intact |-> FALSE, b0 |-> 0]
      BY <1>1 DEF Deliveries
    <2>2. QED
      BY <2>1
  <1>2. QED
    BY <1>1

\* With flags that are always heard, IDLE and SLEEP leave the chip quiet.
LEMMA FlagsQuiet ==
    ASSUME ~LossyFlags, BufferOnlyWhenAwake, FlagIdle \/ FlagSleep
    PROVE  power' # "awake" /\ chipSt' = "none"
  BY DEF FlagIdle, FlagSleep, BufferOnlyWhenAwake

LEMMA IInvInit == Init => IInv
  BY TypeInvInit DEF Init, IInv, BufferOnlyWhenAwake, BufferHoldsCurrent,
                     SuccessLeavesChipQuiet, WatchdogPausedBetweenExchanges,
                     ReadReturnsCurrentResponse

LEMMA IInvNext == ~LossyFlags /\ IInv /\ [Next]_vars => IInv'
  <1> SUFFICES ASSUME ~LossyFlags, IInv, [Next]_vars PROVE IInv'
    OBVIOUS
  <1>0. TypeInv'
    BY TypeInvNext DEF IInv
  <1> USE <1>0 DEF IInv, BufferOnlyWhenAwake, BufferHoldsCurrent,
                   SuccessLeavesChipQuiet, WatchdogPausedBetweenExchanges,
                   ReadReturnsCurrentResponse, hostVars, dataVars, chipVars
  <1>1. ASSUME NEW op \in Opcodes, SeWrite(op) PROVE IInv'
    BY <1>1 DEF SeWrite, se_wake
  <1>2. CASE ReadStart
    BY <1>2 DEF ReadStart
  <1>3. CASE ReadAttempt
    <2>1. PICK d \in Deliveries :
                \/ Verdict(d) = "retry" /\ RetryPass
                \/ Verdict(d) = "error" /\ ErrorReturn
                \/ Verdict(d) = "accept" /\ Accept(d)
      BY <1>3 DEF ReadAttempt
    <2>2. UNCHANGED <<current_opcode, seq>> /\ hpc = "reading"
      BY <1>3 DEF ReadAttempt
    <2>3. current_opcode \in Opcodes
      BY <2>2 DEF TypeInv
    <2>4. CASE Verdict(d) = "retry" /\ RetryPass
      BY <2>2, <2>4 DEF RetryPass
    <2>5. CASE Verdict(d) = "error" /\ ErrorReturn
      BY <2>2, <2>5 DEF ErrorReturn
    <2>6. CASE Verdict(d) = "accept" /\ Accept(d)
      <3>0. d.n \in Nat
        BY <2>2, <2>3, DeliveryType
      <3>1. d.n >= 4 /\ (current_opcode # OP_Info => d.intact)
        BY <2>6, <3>0, AcceptedFrame
      <3>2. Transmitting
        BY <2>3, <3>1, AcceptedFromTransmitting
      <3>3. power' = "idle" /\ chipSt' = "none"
        BY <2>6, <3>2 DEF Accept, FlagIdle, Transmitting
      <3>4. current_opcode' # OP_Info => dataSeq' = seq'
        BY <2>2, <2>6, <3>1, <3>2 DEF Accept, Transmitting
      <3>5. QED
        BY <2>2, <2>6, <3>3, <3>4 DEF Accept
    <2>7. QED
      BY <2>1, <2>4, <2>5, <2>6
  <1>4. CASE ReadRetryOut
    BY <1>4 DEF ReadRetryOut
  <1>5. CASE CallerSleep
    BY <1>5, FlagsQuiet DEF CallerSleep
  <1>6. CASE CallerNext
    BY <1>6 DEF CallerNext
  <1>7. CASE SeIdle \/ SeSleep
    BY <1>7, FlagsQuiet DEF SeIdle, SeSleep
  <1>8. CASE ChipExecute
    BY <1>8 DEF ChipExecute
  <1>9. CASE ChipWatchdog
    BY <1>9 DEF ChipWatchdog
  <1>10. CASE UNCHANGED vars
    BY <1>10 DEF vars
  <1>11. QED
    BY <1>1, <1>2, <1>3, <1>4, <1>5, <1>6, <1>7, <1>8, <1>9, <1>10 DEF Next

\* Response integrity: when the chip hears every IDLE and SLEEP flag, a
\* successful se_read of a framed command always returns the chip's answer
\* to that command (never a stale frame left from an earlier command, never
\* corrupted bytes), and between exchanges the chip is idle or asleep with
\* an empty IO buffer, for any retry budget, opcodes and read lengths.
THEOREM ResponseIntegrity ==
    ~LossyFlags => (Spec => [](ReadReturnsCurrentResponse
                               /\ WatchdogPausedBetweenExchanges))
  <1> SUFFICES ASSUME ~LossyFlags
               PROVE  Spec => [](ReadReturnsCurrentResponse
                                 /\ WatchdogPausedBetweenExchanges)
    OBVIOUS
  <1>1. IInv => ReadReturnsCurrentResponse /\ WatchdogPausedBetweenExchanges
    BY DEF IInv
  <1>2. Spec => []IInv
    BY IInvInit, IInvNext, PTL DEF Spec
  <1>3. QED
    BY <1>1, <1>2, PTL

\* When the chip hears every IDLE and SLEEP flag, it is never left awake,
\* with its watchdog running or a response held, between two exchanges:
\* se_read idles it after a successful read and every caller's se_sleep
\* follows a failed one, for all values of the constants.
THEOREM WatchdogPaused ==
    ~LossyFlags => (Spec => []WatchdogPausedBetweenExchanges)
  <1> SUFFICES ASSUME ~LossyFlags PROVE Spec => []WatchdogPausedBetweenExchanges
    OBVIOUS
  <1>1. Spec => [](ReadReturnsCurrentResponse /\ WatchdogPausedBetweenExchanges)
    BY ResponseIntegrity
  <1>2. QED
    BY <1>1, PTL
=============================================================================
