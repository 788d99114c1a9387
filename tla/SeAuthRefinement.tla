-------------------------- MODULE SeAuthRefinement --------------------------
(***************************************************************************)
(* Proof that SeAuth implements the abstract SeService under the mapping   *)
(* S of SeAuth, on an honest bus and for writes of at most 96 bytes.       *)
(***************************************************************************)
EXTENDS SeAuthProofs

\* The inductive invariant behind the refinement
RInv == IInv /\ WInv

\* Only se_encrypted_write's Write changes a slot.
LEMMA WriterIsWrite ==
    ASSUME TypeInv, [Next]_vars, slot' # slot
    PROVE  pc = "write"
  <1>1. CASE PickNonce
    <2> DEFINE c == [op |-> "Nonce", numin |-> NumIn]
    <2>1. PICK o \in Outcomes(c) : ChipTakes(c, o)
      BY <1>1 DEF PickNonce
    <2>2. QED
      BY <2>1, OnlyWriteWrites DEF ChipTakes
  <1>2. CASE CheckMacX
    <2> DEFINE kn == IF call = "checkmac" THEN arg.kn ELSE KEYNUM_pairing
               secret == IF call = "checkmac" THEN arg.secret ELSE PairingSecret
               c == [op |-> "CheckMac", kn |-> kn, resp |-> <<"cm", secret, hostTK>>]
    <2>1. PICK o \in Outcomes(c) : ChipTakes(c, o)
      BY <1>2 DEF CheckMacX
    <2>2. QED
      BY <2>1, OnlyWriteWrites DEF ChipTakes
  <1>3. CASE GenDigX
    <2> DEFINE c == [op |-> "GenDig", kn |-> arg.kn]
    <2>1. PICK o \in Outcomes(c) : ChipTakes(c, o)
      BY <1>3 DEF GenDigX
    <2>2. QED
      BY <2>1, OnlyWriteWrites DEF ChipTakes
  <1>4. CASE MacX
    <2> DEFINE c == [op |-> "MAC"]
    <2>1. PICK o \in Outcomes(c) : ChipTakes(c, o)
      BY <1>4 DEF MacX
    <2>2. QED
      BY <2>1, OnlyWriteWrites DEF ChipTakes
  <1>5. CASE StartCheckMac \/ StartCheckMacHard \/ StartEncryptedWrite \/ UNCHANGED vars
    BY <1>5 DEF StartCheckMac, StartCheckMacHard, StartEncryptedWrite, vars
  <1>6. CASE WriteX
    BY <1>6 DEF WriteX
  <1>7. QED
    BY <1>1, <1>2, <1>3, <1>4, <1>5, <1>6 DEF Next

\* A step that changes a slot writes the next block of the running
\* se_encrypted_write, as SeService's WriteBlock does.
LEMMA WriteMaps ==
    ASSUME ~Attacker, Lens \subseteq 1..96, PInv, [Next]_vars, slot' # slot
    PROVE  /\ pc # "idle"
           /\ blk \in S!Blk
           /\ S!WriteBlock(blk)
  <1>1. pc = "write" /\ call = "encrypted_write"
    BY WriterIsWrite DEF PInv, TypeInv, CallsAtPc
  <1>2. /\ slot' = [slot EXCEPT ![DataSlot][blk] = arg.data[blk]]
        /\ \A b \in 0..(blk - 1) : slot[DataSlot][b] = arg.data[b]
    BY OrderStep
  <1>3. /\ arg.len \in 1..96
        /\ arg.len - 32 * blk > 0
        /\ blk \in 0..2
    BY <1>1 DEF PInv, WriteProgress, TypeInv, TypeOK, Blk
  <1>4. blk \in 0..((arg.len + 31) \div 32 - 1)
    BY <1>3
  <1>5. QED
    BY <1>1, <1>2, <1>3, <1>4 DEF S!WriteBlock, S!Covered, S!Blk

\* A step inside a public call leaves the call, its arguments and its
\* return value as they were.
LEMMA RunningFacts ==
    ASSUME TypeInv, [Next]_vars, pc # "idle", pc' # "idle"
    PROVE  call' = call /\ arg' = arg /\ ret' = ret
  <1>1. CASE PickNonce
    <2> DEFINE c == [op |-> "Nonce", numin |-> NumIn]
    <2>1. PICK o \in Outcomes(c) :
            IF o.rc # 0
            THEN IF pc = "cm_nonce" THEN CheckMacReturns(-1) ELSE Return(-1)
            ELSE UNCHANGED <<call, arg, ret>>
      BY <1>1 DEF PickNonce
    <2>2. QED
      BY <2>1, CheckMacReturnsFacts, ReturnFacts DEF TypeInv
  <1>2. CASE CheckMacX
    <2>1. PICK v : CheckMacReturns(v)
      BY <1>2 DEF CheckMacX
    <2>2. QED
      BY <2>1, CheckMacReturnsFacts DEF TypeInv
  <1>3. CASE GenDigX
    BY <1>3, ReturnFacts DEF GenDigX
  <1>4. CASE MacX
    BY <1>4, ReturnFacts DEF MacX
  <1>5. CASE WriteX
    BY <1>5, ReturnFacts DEF WriteX
  <1>6. CASE StartCheckMac \/ StartCheckMacHard \/ StartEncryptedWrite \/ UNCHANGED vars
    BY <1>6 DEF StartCheckMac, StartCheckMacHard, StartEncryptedWrite, vars, hostVars
  <1>7. QED
    BY <1>1, <1>2, <1>3, <1>4, <1>5, <1>6 DEF Next

\* What the chip's CheckMac says 0 to: the response over its own slot and
\* TempKey.
LEMMA CheckMacAccepts ==
    ASSUME NEW c, c.op = "CheckMac", Exec(c).status = 0
    PROVE  c.resp = <<"cm", slot[c.kn], tk>>
  BY AuthAssumption DEF Exec

\* A step that ends a public call keeps its call and arguments;
\* se_encrypted_write returns 0 or -1, and se_checkmac returns 0 only on
\* the chip's word that the slot holds the secret.
LEMMA ReturningFacts ==
    ASSUME ~Attacker, IInv, [Next]_vars, pc # "idle", pc' = "idle"
    PROVE  /\ call' = call /\ arg' = arg
           /\ call = "encrypted_write" => ret' \in {0, -1}
           /\ (call = "checkmac" /\ ret' = 0) => slot' = slot /\ slot[arg.kn] = arg.secret
  <1> USE DEF IInv
  <1>1. CASE PickNonce
    <2> DEFINE c == [op |-> "Nonce", numin |-> NumIn]
    <2>1. PICK o \in Outcomes(c) :
            IF o.rc # 0
            THEN IF pc = "cm_nonce" THEN CheckMacReturns(-1) ELSE Return(-1)
            ELSE pc' = IF pc = "cm_nonce" THEN "cm_check" ELSE "gd_gendig"
      BY <1>1 DEF PickNonce
    <2>2. call' = call /\ arg' = arg /\ ret' = -1
      BY <2>1, CheckMacReturnsFacts, ReturnFacts DEF TypeInv
    <2>3. QED
      BY <2>2
  <1>2. CASE CheckMacX
    <2> DEFINE kn == IF call = "checkmac" THEN arg.kn ELSE KEYNUM_pairing
               secret == IF call = "checkmac" THEN arg.secret ELSE PairingSecret
               c == [op |-> "CheckMac", kn |-> kn, resp |-> <<"cm", secret, hostTK>>]
    <2>1. PICK o \in Outcomes(c) :
              /\ ChipTakes(c, o)
              /\ CheckMacReturns(IF o.rc # 0 THEN -2 ELSE 0)
      BY <1>2 DEF CheckMacX
    <2>2. /\ call' = call /\ arg' = arg
          /\ ret' \in {IF o.rc # 0 THEN -2 ELSE 0, -1}
          /\ call # "checkmac" => ret' = -1
      BY <2>1, CheckMacReturnsFacts DEF TypeInv
    <2>3. slot' = slot
      BY <2>1, OnlyWriteWrites DEF ChipTakes
    <2>4. ASSUME call = "checkmac", ret' = 0 PROVE slot[arg.kn] = arg.secret
      <3>1. o.rc = 0
        BY <2>2, <2>4
      <3>2. ~Wide(c) /\ COMM_ERR # 0
        BY AuthAssumption DEF Wide
      <3>3. Exec(c).status = 0
        BY <3>1, <3>2, HonestOutcome
      <3>4. c.resp = <<"cm", slot[c.kn], tk>>
        BY <3>3, CheckMacAccepts
      <3>5. tk = hostTK
        BY <1>2 DEF CheckMacX, KeysHeld
      <3>6. QED
        BY <2>4, <3>4, <3>5
    <2>5. QED
      BY <2>2, <2>3, <2>4
  <1>3. CASE GenDigX
    BY <1>3, ReturnFacts DEF GenDigX
  <1>4. CASE MacX
    <2>1. call = "checkmac_hard"
      BY <1>4 DEF MacX, TypeInv, CallsAtPc
    <2>2. QED
      BY <1>4, <2>1, ReturnFacts DEF MacX
  <1>5. CASE WriteX
    <2>1. call = "encrypted_write"
      BY <1>5 DEF WriteX, TypeInv, CallsAtPc
    <2>2. PICK v \in {0, -1} : Return(v)
      BY <1>5 DEF WriteX
    <2>3. QED
      BY <2>1, <2>2, ReturnFacts
  <1>6. CASE StartCheckMac \/ StartCheckMacHard \/ StartEncryptedWrite \/ UNCHANGED vars
    BY <1>6 DEF StartCheckMac, StartCheckMacHard, StartEncryptedWrite, vars, hostVars
  <1>7. QED
    BY <1>1, <1>2, <1>3, <1>4, <1>5, <1>6 DEF Next

-----------------------------------------------------------------------------
\* The initial state is SeService's initial state.
LEMMA InitMaps == Init => S!Init
  BY DEF Init, S!Init

\* Every step of SeAuth is a step of SeService or leaves its state alone.
LEMMA StepMaps ==
    ASSUME ~Attacker, Lens \subseteq 1..96, RInv, RInv', [Next]_vars
    PROVE  [S!Next]_S!svars
  <1> USE DEF S!svars
  <1>0. TypeInv /\ PInv
    BY DEF RInv, IInv, WInv
  <1>1. CASE pc = "idle"
    <2>1. StartCheckMac \/ StartCheckMacHard \/ StartEncryptedWrite \/ UNCHANGED vars
      BY <1>1 DEF Next, PickNonce, CheckMacX, GenDigX, MacX, WriteX
    <2>2. CASE StartCheckMac \/ StartCheckMacHard
      <3>1. S!Call
        BY <1>1, <2>2 DEF StartCheckMac, StartCheckMacHard, S!Call
      <3>2. QED
        BY <3>1 DEF S!Next
    <2>3. CASE StartEncryptedWrite
      <3>1. S!Call
        BY <1>1, <2>3 DEF StartEncryptedWrite, S!Call
      <3>2. QED
        BY <3>1 DEF S!Next
    <2>4. CASE UNCHANGED vars
      BY <2>4 DEF vars, hostVars
    <2>5. QED
      BY <2>1, <2>2, <2>3, <2>4
  <1>2. CASE pc # "idle" /\ pc' # "idle"
    <2>1. call' = call /\ arg' = arg /\ ret' = ret
      BY <1>0, <1>2, RunningFacts
    <2>2. CASE slot' = slot
      BY <2>1, <2>2, <1>2
    <2>3. CASE slot' # slot
      <3>1. blk \in S!Blk /\ S!WriteBlock(blk)
        BY <1>0, <2>3, WriteMaps
      <3>2. S!Write
        BY <1>2, <2>1, <3>1 DEF S!Write
      <3>3. QED
        BY <3>2 DEF S!Next
    <2>4. QED
      BY <2>2, <2>3
  <1>3. CASE pc # "idle" /\ pc' = "idle"
    <2>1. /\ call' = call /\ arg' = arg
          /\ call = "encrypted_write" => ret' \in {0, -1}
          /\ (call = "checkmac" /\ ret' = 0) => slot' = slot /\ slot[arg.kn] = arg.secret
      BY <1>3, ReturningFacts DEF RInv
    <2>2. call \in {"checkmac", "checkmac_hard", "encrypted_write"}
      BY <1>0, <1>3 DEF TypeInv, TypeOK, CallsAtPc
    <2>3. ret' \in S!Codes
      BY <2>1, <2>2 DEF RInv, IInv, TypeInv, TypeOK, S!Codes
    <2>4. ret' = 0 => S!Kept(slot')
      <3>1. CASE call = "checkmac"
        BY <2>1, <3>1 DEF S!Kept
      <3>2. CASE call = "checkmac_hard"
        BY <1>3, <2>1, <3>2 DEF RInv, IInv, CheckMacHardAuthentic, S!Kept
      <3>3. CASE call = "encrypted_write"
        BY <1>3, <2>1, <3>3 DEF RInv, WInv, EncryptedWriteComplete, S!Kept, S!Covered,
                                S!Blk, Blk
      <3>4. QED
        BY <2>2, <3>1, <3>2, <3>3
    <2>5. UNCHANGED slot \/ \E b \in S!Blk : S!WriteBlock(b)
      <3>1. CASE slot' # slot
        BY <1>0, <3>1, WriteMaps
      <3>2. QED
        BY <3>1
    <2>6. S!Return
      BY <1>3, <2>1, <2>3, <2>4, <2>5 DEF S!Return
    <2>7. QED
      BY <2>6 DEF S!Next
  <1>4. QED
    BY <1>1, <1>2, <1>3

\* On an honest bus and for writes of at most 96 bytes, se_checkmac,
\* se_checkmac_hard and se_encrypted_write implement SeService for every
\* value of the constants: a 0 return keeps the call's promise, slots
\* change only by a running write's blocks in order, and a write never
\* returns -2.
THEOREM AuthRefinesService ==
    ~Attacker /\ Lens \subseteq 1..96 => (Spec => ImplementsService)
  <1> SUFFICES ASSUME ~Attacker, Lens \subseteq 1..96 PROVE Spec => S!Spec
    BY DEF ImplementsService
  <1>1. Init => RInv
    BY IInvInit, WInvInit DEF RInv
  <1>2. RInv /\ [Next]_vars => RInv'
    BY IInvNext, WInvNext DEF RInv
  <1>3. Spec => []RInv
    BY <1>1, <1>2, PTL DEF Spec
  <1>4. RInv /\ RInv' /\ [Next]_vars => [S!Next]_S!svars
    BY StepMaps
  <1>5. QED
    BY <1>3, <1>4, InitMaps, PTL DEF Spec, S!Spec

=============================================================================
