------------------------- MODULE ExchangeRefinement -------------------------
(***************************************************************************)
(* Proof that SeTransport implements the abstract Exchange under the      *)
(* refinement mapping X of SeTransport, when every flag is heard.         *)
(***************************************************************************)
EXTENDS SeTransportProofs

\* The host is between se_write and se_read's return.
Pending == hpc \in {"sent", "reading"}

\* The initial state is the abstract initial state.
LEMMA InitMaps == Init => X!Init
  BY DEF Init, X!Init

\* Every step of se_write, se_read and their callers is an abstract step
\* or leaves the abstract exchange unchanged.
LEMMA StepMaps ==
    ASSUME ~LossyFlags, IInv, IInv', [Next]_vars
    PROVE  [X!Next]_X!xvars
  <1> USE DEF X!xvars
  <1>1. ASSUME NEW op \in Opcodes, SeWrite(op) PROVE X!Issue(op)
    <2>1. hpc = "ready" /\ hpc' = "sent" /\ seq < MaxSeq
          /\ current_opcode' = op /\ seq' = seq + 1
          /\ result' = result /\ dataSeq' = dataSeq
      BY <1>1 DEF SeWrite, dataVars
    <2>2. QED
      BY <2>1 DEF X!Issue
  <1>2. CASE ReadStart
    BY <1>2 DEF ReadStart, dataVars
  <1>3. CASE ReadAttempt
    <2>1. PICK d \in Deliveries :
                \/ Verdict(d) = "retry" /\ RetryPass
                \/ Verdict(d) = "error" /\ ErrorReturn
                \/ Verdict(d) = "accept" /\ Accept(d)
      BY <1>3 DEF ReadAttempt
    <2>2. UNCHANGED <<current_opcode, seq>> /\ hpc = "reading"
      BY <1>3 DEF ReadAttempt
    <2>3. CASE Verdict(d) = "retry" /\ RetryPass
      BY <2>2, <2>3 DEF RetryPass, dataVars
    <2>4. CASE Verdict(d) = "error" /\ ErrorReturn
      <3>1. X!Fail
        BY <2>2, <2>4 DEF ErrorReturn, dataVars, X!Fail
      <3>2. QED
        BY <3>1 DEF X!Next
    <2>5. CASE Verdict(d) = "accept" /\ Accept(d)
      <3>1. hpc' = "returned" /\ result' = 0
        BY <2>5 DEF Accept
      <3>2. current_opcode # OP_Info => dataSeq' = seq
        BY <2>2, <3>1 DEF IInv, ReadReturnsCurrentResponse
      <3>3. dataSeq' \in 0..MaxSeq
        BY DEF IInv, TypeInv, TypeOK
      <3>4. X!Answer
        BY <2>2, <3>1, <3>2, <3>3 DEF X!Answer
      <3>5. QED
        BY <3>4 DEF X!Next
    <2>6. QED
      BY <2>1, <2>3, <2>4, <2>5
  <1>4. CASE ReadRetryOut
    <2>1. X!Fail
      BY <1>4 DEF ReadRetryOut, dataVars, X!Fail
    <2>2. QED
      BY <2>1 DEF X!Next
  <1>5. CASE CallerSleep \/ CallerNext
    <2>1. X!Release
      BY <1>5 DEF CallerSleep, CallerNext, dataVars, X!Release
    <2>2. QED
      BY <2>1 DEF X!Next
  <1>6. CASE SeIdle \/ SeSleep \/ ChipExecute \/ ChipWatchdog
    <2>1. UNCHANGED <<hpc, current_opcode, seq, result, dataSeq>>
      BY <1>6 DEF SeIdle, SeSleep, ChipExecute, ChipWatchdog, hostVars, dataVars
    <2>2. QED
      BY <2>1
  <1>7. CASE UNCHANGED vars
    BY <1>7 DEF vars, hostVars, dataVars
  <1>8. QED
    <2>1. ASSUME NEW op \in Opcodes, SeWrite(op) PROVE [X!Next]_X!xvars
      BY <1>1, <2>1 DEF X!Next
    <2>2. QED
      BY <1>2, <1>3, <1>4, <1>5, <1>6, <1>7, <2>1 DEF Next

\* Refinement: when the chip hears every IDLE and SLEEP flag, se_write and
\* se_read implement the abstract exchange for every value of the
\* constants: each command is answered once, by a failure or by its own
\* response, before the caller releases the chip for the next one.
THEOREM TransportRefinesExchange == ~LossyFlags => (Spec => ImplementsExchange)
  <1> SUFFICES ASSUME ~LossyFlags PROVE Spec => X!Spec
    BY DEF ImplementsExchange
  <1>1. Spec => []IInv
    BY IInvInit, IInvNext, PTL DEF Spec
  <1>2. IInv /\ IInv' /\ [Next]_vars => [X!Next]_X!xvars
    BY StepMaps
  <1>3. QED
    BY <1>1, <1>2, InitMaps, PTL DEF Spec, X!Spec
=============================================================================
