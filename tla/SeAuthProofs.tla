---------------------------- MODULE SeAuthProofs ----------------------------
(***************************************************************************)
(* Proofs about SeAuth for every value of its constants.                  *)
(***************************************************************************)
EXTENDS SeAuth, TLAPS

\* The pcs of SeAuth
PCs == {"idle", "cm_nonce", "cm_check", "gd_nonce", "gd_gendig", "mac", "write"}

\* Which public function can be at which exchange
CallsAtPc ==
    /\ pc \in {"cm_nonce", "cm_check"} => call \in {"checkmac", "encrypted_write"}
    /\ pc \in {"gd_nonce", "gd_gendig"} => call \in {"checkmac_hard", "encrypted_write"}
    /\ pc = "mac" => call = "checkmac_hard"
    /\ pc = "write" => call = "encrypted_write"

\* TypeOK, and the arguments of a running se_encrypted_write
TypeInv ==
    /\ TypeOK
    /\ CallsAtPc
    /\ call = "encrypted_write" => arg.data \in [0..3 -> Values]

\* The host's tempkey and digest, and the chip's TempKey, while a function
\* holds them
KeysHeld ==
    /\ pc \in {"cm_check", "gd_gendig"} => tk = hostTK /\ hostTK # NoKey
    /\ pc \in {"mac", "write"} =>
         /\ digest = <<"gendig", arg.kn, arg.secret, digest[4]>>
         /\ tk = <<"gendig", arg.kn, slot[arg.kn], digest[4]>>

\* The inductive invariant behind TempKeyAgreement and CheckMacHardAuthentic
IInv ==
    /\ TypeInv
    /\ KeysHeld
    /\ CheckMacHardAuthentic
-----------------------------------------------------------------------------
\* What the chip's Write leaves in its slots is well typed.
LEMMA WriteType ==
    ASSUME NEW sl \in [Slots -> Content], NEW ds \in Slots, NEW b \in Blk,
           NEW v \in Values
    PROVE  [sl EXCEPT ![ds][b] = v] \in [Slots -> Content]
  <1>1. [sl[ds] EXCEPT ![b] = v] \in Content
    BY DEF Content
  <1>2. QED
    BY <1>1

\* The chip's status is a status byte, and its slots change only by a Write.
LEMMA ExecType ==
    ASSUME NEW c, TypeInv
    PROVE  /\ Exec(c).status \in Statuses
           /\ \/ Exec(c).slot = slot
              \/ Exec(c).slot = [slot EXCEPT ![DataSlot][c.blk] = c.val]
  BY DEF Exec, Statuses

\* Every outcome of an exchange leaves an rc and slots of these shapes.
LEMMA OutcomeShape ==
    ASSUME NEW c, NEW o \in Outcomes(c)
    PROVE  /\ o.rc \in {-1, Exec(c).status, COMM_ERR, 0, CHECKMAC_FAIL, EXEC_ERR}
           /\ o.slot \in {slot, Exec(c).slot}
  BY DEF Outcomes

\* What one exchange can leave: a well-typed chip and rc.
LEMMA OutcomeType ==
    ASSUME TypeInv, NEW c, NEW o \in Outcomes(c),
           c.op \notin {"Nonce", "GenDig", "MAC", "CheckMac"} =>
               c.val \in Values /\ c.blk \in Blk
    PROVE  /\ o.rc \in {-1} \cup Statuses
           /\ o.slot \in [Slots -> Content]
  <1>1. Exec(c).status \in Statuses
    BY ExecType
  <1>2. Exec(c).slot \in [Slots -> Content]
    <2>1. CASE Exec(c).slot = slot
      BY <2>1 DEF TypeInv, TypeOK
    <2>2. CASE Exec(c).slot # slot
      <3>1. c.op \notin {"Nonce", "GenDig", "MAC", "CheckMac"}
        BY <2>2 DEF Exec
      <3>2. Exec(c).slot = [slot EXCEPT ![DataSlot][c.blk] = c.val]
        BY <2>2, ExecType
      <3>3. QED
        BY <3>1, <3>2, WriteType, AuthAssumption DEF TypeInv, TypeOK
    <2>3. QED
      BY <2>1, <2>2
  <1>3. QED
    BY <1>1, <1>2, OutcomeShape DEF Statuses, TypeInv, TypeOK

\* Without an attacker, an exchange gives the chip's answer, a garbled
\* command's COMM_ERR, or -1.
LEMMA HonestOutcome ==
    ASSUME ~Attacker, NEW c, NEW o \in Outcomes(c)
    PROVE  \/ o.rc = -1
           \/ /\ o.tk = Exec(c).tk /\ o.slot = Exec(c).slot
              /\ o.rc = Exec(c).status /\ o.val = Exec(c).val
              /\ Wide(c) => o.rc = 0
           \/ ~Wide(c) /\ o.rc = COMM_ERR /\ o.tk = tk /\ o.slot = slot
  <1> DEFINE e == Exec(c)
             Lost(s) == [tk |-> NoKey, slot |-> s.slot, rc |-> -1, val |-> NoKey]
             Got(s, r, v) == [tk |-> s.tk, slot |-> s.slot, rc |-> r, val |-> v]
  <1>1. CASE Wide(c)
    <2>1. \/ o = Lost(e) \/ o = Lost([tk |-> tk, slot |-> slot])
          \/ o = IF e.status = 0 THEN Got(e, 0, e.val) ELSE Lost(e)
      BY <1>1 DEF Outcomes
    <2>2. QED
      BY <1>1, <2>1
  <1>2. CASE ~Wide(c)
    <2>1. \/ o = Lost(e) \/ o = Lost([tk |-> tk, slot |-> slot])
          \/ o = Got(e, e.status, NoKey)
          \/ o = Got([tk |-> tk, slot |-> slot], COMM_ERR, NoKey)
      BY <1>2 DEF Outcomes
    <2>2. e.val = NoKey
      BY <1>2 DEF Exec, Wide
    <2>3. QED
      BY <1>2, <2>1, <2>2
  <1>3. QED
    BY <1>1, <1>2

\* Return(v) ends the public function.
LEMMA ReturnFacts ==
    ASSUME NEW v, Return(v)
    PROVE  /\ pc' = "idle" /\ ret' = v /\ attempt' = 0 /\ blk' = 0
           /\ call' = call /\ arg' = arg
  BY DEF Return

\* Where se_checkmac's return leads.
LEMMA CheckMacReturnsFacts ==
    ASSUME NEW v, CheckMacReturns(v), TypeOK
    PROVE  /\ call' = call /\ arg' = arg
           /\ pc' \in {"idle", "gd_nonce", "cm_nonce"}
           /\ pc' = "idle" => ret' \in {v, -1} /\ (call # "checkmac" => ret' = -1) /\ blk' = 0
           /\ pc' # "idle" => blk' = blk /\ left' = left /\ ret' = ret
           /\ pc' = "gd_nonce" => call # "checkmac"
           /\ attempt' \in 0..2 /\ blk' \in Blk
  <1>1. CASE call = "checkmac"
    BY <1>1, ReturnFacts DEF CheckMacReturns, Blk
  <1>2. CASE call # "checkmac" /\ v = 0
    BY <1>2 DEF CheckMacReturns, TypeOK
  <1>3. CASE call # "checkmac" /\ v # 0 /\ attempt + 1 < 3
    BY <1>3 DEF CheckMacReturns, TypeOK
  <1>4. CASE call # "checkmac" /\ v # 0 /\ ~(attempt + 1 < 3)
    BY <1>4, ReturnFacts DEF CheckMacReturns, Blk
  <1>5. QED
    BY <1>1, <1>2, <1>3, <1>4
-----------------------------------------------------------------------------
LEMMA TypeInvInit == Init => TypeInv
  BY AuthAssumption DEF Init, TypeInv, TypeOK, CallsAtPc, Statuses, Blk

LEMMA TypeInvNext == TypeInv /\ [Next]_vars => TypeInv'
  <1> SUFFICES ASSUME TypeInv, [Next]_vars PROVE TypeInv'
    OBVIOUS
  <1> USE DEF TypeInv, TypeOK, CallsAtPc
  <1>1. CASE StartCheckMac \/ StartCheckMacHard \/ StartEncryptedWrite
    BY <1>1, AuthAssumption DEF StartCheckMac, StartCheckMacHard, StartEncryptedWrite,
                                Statuses
  <1>2. CASE PickNonce
    <2> DEFINE c == [op |-> "Nonce", numin |-> NumIn]
    <2>1. PICK o \in Outcomes(c) :
              /\ ChipTakes(c, o)
              /\ UNCHANGED cmrc
              /\ IF o.rc # 0
                 THEN IF pc = "cm_nonce" THEN CheckMacReturns(-1) ELSE Return(-1)
                 ELSE /\ hostTK' = <<"nonce", o.val, NumIn>>
                      /\ pc' = IF pc = "cm_nonce" THEN "cm_check" ELSE "gd_gendig"
                      /\ UNCHANGED <<call, arg, ret, attempt, blk, left, digest>>
      BY <1>2 DEF PickNonce
    <2>2. slot' \in [Slots -> Content] /\ rng' \in 0..MaxRng
      <3>1. o.slot \in [Slots -> Content]
        BY OutcomeType
      <3>2. rng' \in 0..MaxRng
        BY <1>2, AuthAssumption DEF PickNonce
      <3>3. QED
        BY <2>1, <3>1, <3>2 DEF ChipTakes
    <2>3. CASE o.rc # 0 /\ pc = "cm_nonce"
      BY <1>2, <2>1, <2>2, <2>3, CheckMacReturnsFacts DEF PickNonce
    <2>4. CASE o.rc # 0 /\ pc # "cm_nonce"
      BY <1>2, <2>1, <2>2, <2>4, ReturnFacts DEF PickNonce, Blk
    <2>5. CASE o.rc = 0
      BY <1>2, <2>1, <2>2, <2>5 DEF PickNonce
    <2>6. QED
      BY <2>3, <2>4, <2>5
  <1>3. CASE CheckMacX
    <2> DEFINE kn == IF call = "checkmac" THEN arg.kn ELSE KEYNUM_pairing
               secret == IF call = "checkmac" THEN arg.secret ELSE PairingSecret
               c == [op |-> "CheckMac", kn |-> kn, resp |-> <<"cm", secret, hostTK>>]
    <2>1. PICK o \in Outcomes(c) :
              /\ ChipTakes(c, o)
              /\ cmrc' = o.rc
              /\ CheckMacReturns(IF o.rc # 0 THEN -2 ELSE 0)
      BY <1>3 DEF CheckMacX
    <2>2. slot' \in [Slots -> Content] /\ cmrc' \in {-1} \cup Statuses
      BY <2>1, OutcomeType DEF ChipTakes
    <2>3. QED
      BY <1>3, <2>1, <2>2, CheckMacReturnsFacts DEF CheckMacX
  <1>4. CASE GenDigX
    <2> DEFINE c == [op |-> "GenDig", kn |-> arg.kn]
    <2>1. PICK o \in Outcomes(c) :
              /\ ChipTakes(c, o)
              /\ IF o.rc # 0
                 THEN Return(-1)
                 ELSE /\ digest' = <<"gendig", arg.kn, arg.secret, hostTK>>
                      /\ hostTK' = NoKey
                      /\ pc' = IF call = "checkmac_hard" THEN "mac" ELSE "write"
                      /\ UNCHANGED <<call, arg, ret, attempt, blk, left>>
      BY <1>4 DEF GenDigX
    <2>2. slot' \in [Slots -> Content]
      BY <2>1, OutcomeType DEF ChipTakes
    <2>3. QED
      BY <1>4, <2>1, <2>2, ReturnFacts DEF GenDigX, Blk
  <1>5. CASE MacX
    <2> DEFINE c == [op |-> "MAC"]
    <2>1. PICK o \in Outcomes(c) :
              /\ ChipTakes(c, o)
              /\ Return(IF o.rc = 0 /\ o.val = <<"mac", PairingSecret, digest>>
                        THEN 0 ELSE -2)
      BY <1>5 DEF MacX
    <2>2. slot' \in [Slots -> Content]
      BY <2>1, OutcomeType DEF ChipTakes
    <2>3. QED
      BY <1>5, <2>1, <2>2, ReturnFacts DEF MacX, Blk
  <1>6. CASE WriteX
    <2> DEFINE c == [op |-> "Write", blk |-> blk, mac |-> digest, val |-> arg.data[blk]]
    <2>1. PICK o \in Outcomes(c) :
              /\ ChipTakes(c, o)
              /\ IF o.rc # 0
                 THEN Return(-1)
                 ELSE IF blk + 1 < 3 /\ left - 32 > 0
                 THEN /\ blk' = blk + 1
                      /\ left' = left - 32
                      /\ attempt' = 0
                      /\ digest' = NoKey
                      /\ pc' = "cm_nonce"
                      /\ UNCHANGED <<call, arg, ret, hostTK>>
                 ELSE Return(0)
      BY <1>6 DEF WriteX
    <2>2. arg.data[blk] \in Values
      BY <1>6 DEF WriteX, Blk
    <2>3. slot' \in [Slots -> Content]
      BY <2>1, <2>2, OutcomeType DEF ChipTakes
    <2>4. QED
      BY <1>6, <2>1, <2>3, ReturnFacts DEF WriteX, Blk
  <1>7. CASE UNCHANGED vars
    BY <1>7 DEF vars, hostVars
  <1>8. QED
    BY <1>1, <1>2, <1>3, <1>4, <1>5, <1>6, <1>7 DEF Next

\* Type correctness: with or without an attacker on the bus, every
\* reachable state of the protocol functions is well typed; in particular
\* se_pair_unlock never makes more than three attempts and
\* se_encrypted_write never addresses a block past the third.
THEOREM AuthTypeCorrect == Spec => []TypeOK
  <1>1. Spec => []TypeInv
    BY TypeInvInit, TypeInvNext, PTL DEF Spec
  <1>2. QED
    BY <1>1, PTL DEF TypeInv
-----------------------------------------------------------------------------
LEMMA IInvInit == Init => IInv
  BY TypeInvInit DEF Init, IInv, KeysHeld, CheckMacHardAuthentic

LEMMA IInvNext == ~Attacker /\ IInv /\ [Next]_vars => IInv'
  <1> SUFFICES ASSUME ~Attacker, IInv, [Next]_vars PROVE IInv'
    OBVIOUS
  <1>0. TypeInv'
    BY TypeInvNext DEF IInv
  <1> USE <1>0 DEF IInv
  <1>1. CASE StartCheckMac \/ StartCheckMacHard \/ StartEncryptedWrite
    BY <1>1 DEF StartCheckMac, StartCheckMacHard, StartEncryptedWrite, KeysHeld,
                CheckMacHardAuthentic
  <1>2. CASE PickNonce
    <2> DEFINE c == [op |-> "Nonce", numin |-> NumIn]
    <2>1. PICK o \in Outcomes(c) :
              /\ ChipTakes(c, o)
              /\ UNCHANGED cmrc
              /\ IF o.rc # 0
                 THEN IF pc = "cm_nonce" THEN CheckMacReturns(-1) ELSE Return(-1)
                 ELSE /\ hostTK' = <<"nonce", o.val, NumIn>>
                      /\ pc' = IF pc = "cm_nonce" THEN "cm_check" ELSE "gd_gendig"
                      /\ UNCHANGED <<call, arg, ret, attempt, blk, left, digest>>
      BY <1>2 DEF PickNonce
    <2>2. CASE o.rc # 0 /\ pc = "cm_nonce"
      BY <2>1, <2>2, CheckMacReturnsFacts DEF TypeInv, KeysHeld, CheckMacHardAuthentic
    <2>3. CASE o.rc # 0 /\ pc # "cm_nonce"
      BY <2>1, <2>3, ReturnFacts DEF KeysHeld, CheckMacHardAuthentic
    <2>4. CASE o.rc = 0
      <3>0. Exec(c).tk = <<"nonce", RandOut, NumIn>> /\ Exec(c).val = RandOut /\ Wide(c)
        BY DEF Exec, Wide
      <3>1. o.tk = <<"nonce", RandOut, NumIn>> /\ o.val = RandOut
        BY <2>4, <3>0, HonestOutcome
      <3>2. tk' = hostTK' /\ hostTK' # NoKey
        BY <2>1, <2>4, <3>1 DEF ChipTakes, NoKey
      <3>3. pc' \in {"cm_check", "gd_gendig"}
        BY <2>1, <2>4
      <3>4. QED
        BY <3>2, <3>3 DEF KeysHeld, CheckMacHardAuthentic
    <2>5. QED
      BY <2>2, <2>3, <2>4
  <1>3. CASE CheckMacX
    <2> DEFINE kn == IF call = "checkmac" THEN arg.kn ELSE KEYNUM_pairing
               secret == IF call = "checkmac" THEN arg.secret ELSE PairingSecret
               c == [op |-> "CheckMac", kn |-> kn, resp |-> <<"cm", secret, hostTK>>]
    <2>1. PICK o \in Outcomes(c) :
              /\ ChipTakes(c, o)
              /\ cmrc' = o.rc
              /\ CheckMacReturns(IF o.rc # 0 THEN -2 ELSE 0)
      BY <1>3 DEF CheckMacX
    <2>2. call \in {"checkmac", "encrypted_write"}
      BY <1>3 DEF CheckMacX, TypeInv, CallsAtPc
    <2>3. QED
      BY <2>1, <2>2, CheckMacReturnsFacts DEF TypeInv, KeysHeld, CheckMacHardAuthentic
  <1>4. CASE GenDigX
    <2> DEFINE c == [op |-> "GenDig", kn |-> arg.kn]
    <2>1. PICK o \in Outcomes(c) :
              /\ ChipTakes(c, o)
              /\ IF o.rc # 0
                 THEN Return(-1)
                 ELSE /\ digest' = <<"gendig", arg.kn, arg.secret, hostTK>>
                      /\ hostTK' = NoKey
                      /\ pc' = IF call = "checkmac_hard" THEN "mac" ELSE "write"
                      /\ UNCHANGED <<call, arg, ret, attempt, blk, left>>
      BY <1>4 DEF GenDigX
    <2>2. CASE o.rc # 0
      BY <2>1, <2>2, ReturnFacts DEF KeysHeld, CheckMacHardAuthentic
    <2>3. CASE o.rc = 0
      <3>1. pc = "gd_gendig" /\ tk = hostTK /\ tk # NoKey
        BY <1>4 DEF GenDigX, KeysHeld
      <3>2. COMM_ERR # 0
        BY AuthAssumption
      <3>0. /\ Exec(c).tk = <<"gendig", arg.kn, slot[arg.kn], tk>>
            /\ Exec(c).slot = slot /\ ~Wide(c)
        BY <3>1 DEF Exec, Wide
      <3>3. o.tk = <<"gendig", arg.kn, slot[arg.kn], tk>> /\ o.slot = slot
        BY <2>3, <3>0, <3>2, HonestOutcome
      <3>4. /\ digest' = <<"gendig", arg'.kn, arg'.secret, digest'[4]>>
            /\ tk' = <<"gendig", arg'.kn, slot'[arg'.kn], digest'[4]>>
        BY <2>1, <2>3, <3>1, <3>3 DEF ChipTakes
      <3>5. pc' \in {"mac", "write"}
        BY <2>1, <2>3
      <3>6. QED
        BY <3>4, <3>5 DEF KeysHeld, CheckMacHardAuthentic
    <2>4. QED
      BY <2>2, <2>3
  <1>5. CASE MacX
    <2> DEFINE c == [op |-> "MAC"]
    <2>1. PICK o \in Outcomes(c) :
              /\ ChipTakes(c, o)
              /\ Return(IF o.rc = 0 /\ o.val = <<"mac", PairingSecret, digest>>
                        THEN 0 ELSE -2)
      BY <1>5 DEF MacX
    <2>2. CASE o.rc = 0 /\ o.val = <<"mac", PairingSecret, digest>>
      <3>1. pc = "mac" /\ tk = <<"gendig", arg.kn, slot[arg.kn], digest[4]>>
            /\ digest = <<"gendig", arg.kn, arg.secret, digest[4]>>
        BY <1>5 DEF MacX, KeysHeld
      <3>2. tk # NoKey
        BY <3>1 DEF NoKey
      <3>0. Exec(c).val = <<"mac", slot[KEYNUM_pairing], tk>> /\ Exec(c).slot = slot
            /\ Wide(c)
        BY <3>2 DEF Exec, Wide
      <3>3. o.val = <<"mac", slot[KEYNUM_pairing], tk>> /\ o.slot = slot
        BY <2>2, <3>0, HonestOutcome
      <3>4. slot[arg.kn] = arg.secret
        BY <2>2, <3>1, <3>3
      <3>5. QED
        BY <2>1, <3>3, <3>4, ReturnFacts DEF ChipTakes, KeysHeld, CheckMacHardAuthentic
    <2>3. CASE ~(o.rc = 0 /\ o.val = <<"mac", PairingSecret, digest>>)
      BY <2>1, <2>3, ReturnFacts DEF KeysHeld, CheckMacHardAuthentic
    <2>4. QED
      BY <2>2, <2>3
  <1>6. CASE WriteX
    <2> DEFINE c == [op |-> "Write", blk |-> blk, mac |-> digest, val |-> arg.data[blk]]
    <2>1. PICK o \in Outcomes(c) :
              /\ ChipTakes(c, o)
              /\ IF o.rc # 0
                 THEN Return(-1)
                 ELSE IF blk + 1 < 3 /\ left - 32 > 0
                 THEN /\ blk' = blk + 1
                      /\ left' = left - 32
                      /\ attempt' = 0
                      /\ digest' = NoKey
                      /\ pc' = "cm_nonce"
                      /\ UNCHANGED <<call, arg, ret, hostTK>>
                 ELSE Return(0)
      BY <1>6 DEF WriteX
    <2>2. call = "encrypted_write"
      BY <1>6 DEF WriteX, TypeInv, CallsAtPc
    <2>3. pc' \in {"idle", "cm_nonce"} /\ call' = call
      BY <2>1, ReturnFacts
    <2>4. QED
      BY <2>2, <2>3 DEF KeysHeld, CheckMacHardAuthentic
  <1>7. CASE UNCHANGED vars
    BY <1>7 DEF vars, hostVars, KeysHeld, CheckMacHardAuthentic
  <1>8. QED
    BY <1>1, <1>2, <1>3, <1>4, <1>5, <1>6, <1>7 DEF Next

\* Without an attacker on the bus, host and chip agree on TempKey at every
\* exchange that relies on it (the se_sleep after se_pick_nonce is never
\* heard), and se_checkmac_hard returns 0 only when the chip's slot holds
\* the secret it was given, for all slots, secrets and retry bounds.
THEOREM HonestAuthentication ==
    ~Attacker => (Spec => [](TempKeyAgreement /\ CheckMacHardAuthentic))
  <1> SUFFICES ASSUME ~Attacker
               PROVE  Spec => [](TempKeyAgreement /\ CheckMacHardAuthentic)
    OBVIOUS
  <1>1. IInv => TempKeyAgreement /\ CheckMacHardAuthentic
    BY DEF IInv, KeysHeld, TempKeyAgreement
  <1>2. Spec => []IInv
    BY IInvInit, IInvNext, PTL DEF Spec
  <1>3. QED
    BY <1>1, <1>2, PTL
-----------------------------------------------------------------------------
(* se_encrypted_write                                                     *)

\* Only the chip's Write changes its slots.
LEMMA OnlyWriteWrites ==
    ASSUME NEW c, c.op \in {"Nonce", "GenDig", "MAC", "CheckMac"}, NEW o \in Outcomes(c)
    PROVE  o.slot = slot
  <1>1. Exec(c).slot = slot
    BY DEF Exec
  <1>2. QED
    BY <1>1, OutcomeShape

\* How far a running se_encrypted_write has got: blocks 0..blk-1 are in
\* the data slot, and len has been decreased once per block.
WriteProgress ==
    /\ pc = "idle" => blk = 0
    /\ call = "encrypted_write" => arg.len \in Lens
    /\ (call = "encrypted_write" /\ pc # "idle") =>
         /\ left = arg.len - 32 * blk
         /\ left > 0
         /\ \A b \in 0..(blk - 1) : slot[DataSlot][b] = arg.data[b]

\* The inductive invariant behind WritesInOrder
PInv ==
    /\ TypeInv
    /\ WriteProgress

\* The inductive invariant behind EncryptedWriteComplete
WInv ==
    /\ PInv
    /\ EncryptedWriteComplete

LEMMA PInvInit == Init => PInv
  BY TypeInvInit DEF Init, PInv, WriteProgress

LEMMA WInvInit == Init => WInv
  BY PInvInit DEF Init, WInv, EncryptedWriteComplete

\* The last block: what se_encrypted_write has written when it leaves its
\* loop is all of len, as long as len is at most 96.
LEMMA LastBlock ==
    ASSUME NEW len \in 1..96, NEW k \in Blk,
           ~(k + 1 < 3 /\ len - 32 * k - 32 > 0)
    PROVE  \A b \in 0..((len + 31) \div 32 - 1) : b \in 0..k
  BY DEF Blk

LEMMA PInvNext == ~Attacker /\ PInv /\ [Next]_vars => PInv'
  <1> SUFFICES ASSUME ~Attacker, PInv, [Next]_vars PROVE PInv'
    OBVIOUS
  <1>0. TypeInv'
    BY TypeInvNext DEF PInv
  <1> USE <1>0 DEF PInv
  <1>1. CASE StartCheckMac \/ StartCheckMacHard
    BY <1>1 DEF StartCheckMac, StartCheckMacHard, WriteProgress
  <1>2. CASE StartEncryptedWrite
    <2>1. arg'.len \in Lens /\ left' = arg'.len /\ blk' = 0 /\ pc' = "cm_nonce"
          /\ call' = "encrypted_write"
      BY <1>2 DEF StartEncryptedWrite, WriteProgress
    <2>2. arg'.len \in 1..128
      BY <2>1, AuthAssumption
    <2>3. left' = arg'.len - 32 * blk' /\ left' > 0
      BY <2>1, <2>2
    <2>4. \A b \in 0..(blk' - 1) : slot'[DataSlot][b] = arg'.data[b]
      BY <2>1
    <2>5. QED
      BY <2>1, <2>3, <2>4 DEF WriteProgress
  <1>3. CASE PickNonce
    <2> DEFINE c == [op |-> "Nonce", numin |-> NumIn]
    <2>1. PICK o \in Outcomes(c) :
              /\ ChipTakes(c, o)
              /\ UNCHANGED cmrc
              /\ IF o.rc # 0
                 THEN IF pc = "cm_nonce" THEN CheckMacReturns(-1) ELSE Return(-1)
                 ELSE /\ hostTK' = <<"nonce", o.val, NumIn>>
                      /\ pc' = IF pc = "cm_nonce" THEN "cm_check" ELSE "gd_gendig"
                      /\ UNCHANGED <<call, arg, ret, attempt, blk, left, digest>>
      BY <1>3 DEF PickNonce
    <2>2. slot' = slot
      BY <2>1, OnlyWriteWrites DEF ChipTakes
    <2>3. CASE o.rc # 0 /\ pc = "cm_nonce"
      BY <2>1, <2>2, <2>3, CheckMacReturnsFacts
         DEF TypeInv, WriteProgress
    <2>4. CASE o.rc # 0 /\ pc # "cm_nonce"
      BY <2>1, <2>2, <2>4, ReturnFacts DEF WriteProgress
    <2>5. CASE o.rc = 0
      BY <1>3, <2>1, <2>2, <2>5 DEF PickNonce, WriteProgress
    <2>6. QED
      BY <2>3, <2>4, <2>5
  <1>4. CASE CheckMacX
    <2> DEFINE kn == IF call = "checkmac" THEN arg.kn ELSE KEYNUM_pairing
               secret == IF call = "checkmac" THEN arg.secret ELSE PairingSecret
               c == [op |-> "CheckMac", kn |-> kn, resp |-> <<"cm", secret, hostTK>>]
    <2>1. PICK o \in Outcomes(c) :
              /\ ChipTakes(c, o)
              /\ cmrc' = o.rc
              /\ CheckMacReturns(IF o.rc # 0 THEN -2 ELSE 0)
      BY <1>4 DEF CheckMacX
    <2>2. slot' = slot
      BY <2>1, OnlyWriteWrites DEF ChipTakes
    <2>3. pc \in {"cm_check"}
      BY <1>4 DEF CheckMacX
    <2>4. QED
      BY <2>1, <2>2, <2>3, CheckMacReturnsFacts
         DEF TypeInv, WriteProgress
  <1>5. CASE GenDigX
    <2> DEFINE c == [op |-> "GenDig", kn |-> arg.kn]
    <2>1. PICK o \in Outcomes(c) :
              /\ ChipTakes(c, o)
              /\ IF o.rc # 0
                 THEN Return(-1)
                 ELSE /\ digest' = <<"gendig", arg.kn, arg.secret, hostTK>>
                      /\ hostTK' = NoKey
                      /\ pc' = IF call = "checkmac_hard" THEN "mac" ELSE "write"
                      /\ UNCHANGED <<call, arg, ret, attempt, blk, left>>
      BY <1>5 DEF GenDigX
    <2>2. slot' = slot /\ pc = "gd_gendig"
      BY <1>5, <2>1, OnlyWriteWrites DEF ChipTakes, GenDigX
    <2>3. QED
      BY <2>1, <2>2, ReturnFacts DEF WriteProgress
  <1>6. CASE MacX
    <2> DEFINE c == [op |-> "MAC"]
    <2>1. PICK o \in Outcomes(c) :
              /\ ChipTakes(c, o)
              /\ Return(IF o.rc = 0 /\ o.val = <<"mac", PairingSecret, digest>>
                        THEN 0 ELSE -2)
      BY <1>6 DEF MacX
    <2>2. slot' = slot /\ call = "checkmac_hard"
      BY <1>6, <2>1, OnlyWriteWrites DEF ChipTakes, MacX, TypeInv, CallsAtPc
    <2>3. QED
      BY <2>1, <2>2, ReturnFacts DEF WriteProgress
  <1>7. CASE WriteX
    <2> DEFINE c == [op |-> "Write", blk |-> blk, mac |-> digest, val |-> arg.data[blk]]
               new == [slot EXCEPT ![DataSlot][blk] = arg.data[blk]]
    <2>1. PICK o \in Outcomes(c) :
              /\ ChipTakes(c, o)
              /\ IF o.rc # 0
                 THEN Return(-1)
                 ELSE IF blk + 1 < 3 /\ left - 32 > 0
                 THEN /\ blk' = blk + 1
                      /\ left' = left - 32
                      /\ attempt' = 0
                      /\ digest' = NoKey
                      /\ pc' = "cm_nonce"
                      /\ UNCHANGED <<call, arg, ret, hostTK>>
                 ELSE Return(0)
      BY <1>7 DEF WriteX
    <2>2. /\ pc = "write" /\ call = "encrypted_write"
          /\ left = arg.len - 32 * blk /\ left > 0
          /\ \A b \in 0..(blk - 1) : slot[DataSlot][b] = arg.data[b]
          /\ blk \in Blk /\ arg.len \in 1..128
          /\ slot \in [Slots -> Content] /\ DataSlot \in Slots
      BY <1>7, AuthAssumption DEF WriteX, TypeInv, CallsAtPc, TypeOK, WriteProgress
    <2>3. CASE o.rc # 0
      BY <2>1, <2>3, ReturnFacts DEF WriteProgress
    <2>4. CASE o.rc = 0
      <3>1. COMM_ERR # 0
        BY AuthAssumption
      <3>2. Exec(c).status = 0 /\ o.slot = Exec(c).slot
        BY <2>4, <3>1, HonestOutcome DEF Wide
      <3>3. Exec(c).slot = new
        <4>1. CHECKMAC_FAIL # 0 /\ EXEC_ERR # 0
          BY AuthAssumption
        <4>2. tk # NoKey /\ c.mac = tk
          BY <3>2, <4>1 DEF Exec
        <4>3. QED
          BY <4>2 DEF Exec
      <3>4. slot' = new
        BY <2>1, <3>2, <3>3 DEF ChipTakes
      <3>5. \A b \in 0..blk : slot'[DataSlot][b] = arg.data[b]
        BY <2>2, <3>4 DEF Content, Blk
      <3>6. CASE blk + 1 < 3 /\ left - 32 > 0
        <4>1. /\ blk' = blk + 1 /\ left' = left - 32 /\ pc' = "cm_nonce"
              /\ call' = call /\ arg' = arg
          BY <2>1, <2>4, <3>6
        <4>2. left' = arg'.len - 32 * blk' /\ left' > 0
          BY <2>2, <3>6, <4>1 DEF Blk
        <4>3. \A b \in 0..(blk' - 1) : slot'[DataSlot][b] = arg'.data[b]
          BY <2>2, <3>5, <4>1 DEF Blk
        <4>4. QED
          BY <4>1, <4>2, <4>3 DEF WriteProgress
      <3>7. CASE ~(blk + 1 < 3 /\ left - 32 > 0)
        <4>1. pc' = "idle" /\ blk' = 0 /\ call' = call /\ arg' = arg
          BY <2>1, <2>4, <3>7, ReturnFacts
        <4>2. QED
          BY <4>1 DEF WriteProgress
      <3>8. QED
        BY <3>6, <3>7
    <2>5. QED
      BY <2>3, <2>4
  <1>8. CASE UNCHANGED vars
    BY <1>8 DEF vars, hostVars, WriteProgress
  <1>9. QED
    BY <1>1, <1>2, <1>3, <1>4, <1>5, <1>6, <1>7, <1>8 DEF Next

\* Without an attacker, a Write answered 0 is the chip's own: it wrote
\* the host's block.
LEMMA HonestWrite ==
    ASSUME ~Attacker, TypeInv, NEW c, c.op = "Write", NEW o \in Outcomes(c), o.rc = 0
    PROVE  o.slot = [slot EXCEPT ![DataSlot][c.blk] = c.val]
  <1>1. COMM_ERR # 0 /\ CHECKMAC_FAIL # 0 /\ EXEC_ERR # 0
    BY AuthAssumption
  <1>2. ~Wide(c)
    BY DEF Wide
  <1>3. Exec(c).status = 0 /\ o.slot = Exec(c).slot
    BY <1>1, <1>2, HonestOutcome
  <1>4. tk # NoKey /\ c.mac = tk
    BY <1>1, <1>3 DEF Exec
  <1>5. QED
    BY <1>3, <1>4 DEF Exec

LEMMA WInvNext == ~Attacker /\ Lens \subseteq 1..96 /\ WInv /\ [Next]_vars => WInv'
  <1> SUFFICES ASSUME ~Attacker, Lens \subseteq 1..96, WInv, [Next]_vars PROVE WInv'
    OBVIOUS
  <1>0. PInv' /\ TypeInv
    BY PInvNext DEF WInv, PInv
  <1>1. SUFFICES ASSUME pc' = "idle", call' = "encrypted_write", ret' = 0
                 PROVE  \A b \in 0..((arg'.len + 31) \div 32 - 1) :
                            b \in Blk /\ slot'[DataSlot][b] = arg'.data[b]
    BY <1>0 DEF WInv, EncryptedWriteComplete
  <1>2. CASE WriteX
    <2> DEFINE c == [op |-> "Write", blk |-> blk, mac |-> digest, val |-> arg.data[blk]]
    <2>1. PICK o \in Outcomes(c) :
              /\ ChipTakes(c, o)
              /\ IF o.rc # 0
                 THEN Return(-1)
                 ELSE IF blk + 1 < 3 /\ left - 32 > 0
                 THEN /\ blk' = blk + 1
                      /\ left' = left - 32
                      /\ attempt' = 0
                      /\ digest' = NoKey
                      /\ pc' = "cm_nonce"
                      /\ UNCHANGED <<call, arg, ret, hostTK>>
                 ELSE Return(0)
      BY <1>2 DEF WriteX
    <2>2. /\ \A b \in 0..(blk - 1) : slot[DataSlot][b] = arg.data[b]
          /\ left = arg.len - 32 * blk
          /\ blk \in Blk /\ arg.len \in 1..96
          /\ slot \in [Slots -> Content] /\ DataSlot \in Slots
      BY <1>2, AuthAssumption
         DEF WriteX, WInv, PInv, TypeInv, CallsAtPc, TypeOK, WriteProgress
    <2>3. o.rc = 0 /\ ~(blk + 1 < 3 /\ left - 32 > 0) /\ arg' = arg
      BY <1>1, <2>1, ReturnFacts
    <2>4. slot' = [slot EXCEPT ![DataSlot][blk] = arg.data[blk]]
      BY <1>0, <2>1, <2>3, HonestWrite DEF ChipTakes
    <2>5. \A b \in 0..blk : slot'[DataSlot][b] = arg.data[b]
      BY <2>2, <2>4 DEF Content, Blk
    <2>6. \A b \in 0..((arg.len + 31) \div 32 - 1) : b \in 0..blk
      BY <2>2, <2>3, LastBlock
    <2>7. QED
      BY <2>2, <2>3, <2>5, <2>6 DEF Blk
  <1>3. CASE StartCheckMac \/ StartCheckMacHard \/ StartEncryptedWrite
    BY <1>1, <1>3 DEF StartCheckMac, StartCheckMacHard, StartEncryptedWrite
  <1>4. CASE PickNonce
    <2> DEFINE c == [op |-> "Nonce", numin |-> NumIn]
    <2>1. PICK o \in Outcomes(c) :
              IF o.rc # 0
              THEN IF pc = "cm_nonce" THEN CheckMacReturns(-1) ELSE Return(-1)
              ELSE pc' = IF pc = "cm_nonce" THEN "cm_check" ELSE "gd_gendig"
      BY <1>4 DEF PickNonce
    <2>2. QED
      BY <1>0, <1>1, <2>1, CheckMacReturnsFacts, ReturnFacts DEF TypeInv
  <1>5. CASE CheckMacX
    <2>1. \E v \in {0, -2} : CheckMacReturns(v)
      BY <1>5 DEF CheckMacX
    <2>2. QED
      BY <1>0, <1>1, <2>1, CheckMacReturnsFacts DEF TypeInv
  <1>6. CASE GenDigX
    <2> DEFINE c == [op |-> "GenDig", kn |-> arg.kn]
    <2>1. PICK o \in Outcomes(c) :
              IF o.rc # 0
              THEN Return(-1)
              ELSE pc' = IF call = "checkmac_hard" THEN "mac" ELSE "write"
      BY <1>6 DEF GenDigX
    <2>2. QED
      BY <1>1, <2>1, ReturnFacts
  <1>7. CASE MacX
    <2>1. call = "checkmac_hard" /\ \E v \in {0, -2} : Return(v)
      BY <1>0, <1>7 DEF MacX, TypeInv, CallsAtPc
    <2>2. QED
      BY <1>1, <2>1, ReturnFacts
  <1>8. CASE UNCHANGED vars
    BY <1>1, <1>8 DEF vars, hostVars, WInv, EncryptedWriteComplete
  <1>9. QED
    BY <1>2, <1>3, <1>4, <1>5, <1>6, <1>7, <1>8 DEF Next

\* Without an attacker, when every len passed is at most 96 bytes,
\* se_encrypted_write returns 0 only after every block of its data is in
\* the data slot, whatever the bus loses and however often se_pair_unlock
\* retries.
THEOREM EncryptedWriteCompleteness ==
    ~Attacker /\ Lens \subseteq 1..96 => (Spec => []EncryptedWriteComplete)
  <1> SUFFICES ASSUME ~Attacker, Lens \subseteq 1..96
               PROVE  Spec => []EncryptedWriteComplete
    OBVIOUS
  <1>1. Spec => []WInv
    BY WInvInit, WInvNext, PTL DEF Spec
  <1>2. QED
    BY <1>1, PTL DEF WInv

\* Every step that changes the chip's slots is se_encrypted_write's Write
\* of block blk, and a running se_encrypted_write has blocks 0..blk-1 in
\* place.
LEMMA OrderStep ==
    ASSUME PInv, [Next]_vars, slot' # slot
    PROVE  /\ slot' = [slot EXCEPT ![DataSlot][blk] = arg.data[blk]]
           /\ \A b \in 0..(blk - 1) : slot[DataSlot][b] = arg.data[b]
  <1>1. CASE WriteX
    <2> DEFINE c == [op |-> "Write", blk |-> blk, mac |-> digest, val |-> arg.data[blk]]
    <2>1. PICK o \in Outcomes(c) : ChipTakes(c, o)
      BY <1>1 DEF WriteX
    <2>2. \/ Exec(c).slot = slot
          \/ Exec(c).slot = [slot EXCEPT ![DataSlot][blk] = arg.data[blk]]
      BY ExecType DEF PInv
    <2>3. slot' = [slot EXCEPT ![DataSlot][blk] = arg.data[blk]]
      BY <2>1, <2>2, OutcomeShape DEF ChipTakes
    <2>4. \A b \in 0..(blk - 1) : slot[DataSlot][b] = arg.data[b]
      BY <1>1 DEF WriteX, PInv, TypeInv, CallsAtPc, WriteProgress
    <2>5. QED
      BY <2>3, <2>4
  <1>2. CASE PickNonce
    <2> DEFINE c == [op |-> "Nonce", numin |-> NumIn]
    <2>1. PICK o \in Outcomes(c) : ChipTakes(c, o)
      BY <1>2 DEF PickNonce
    <2>2. QED
      BY <2>1, OnlyWriteWrites DEF ChipTakes
  <1>3. CASE CheckMacX
    <2> DEFINE kn == IF call = "checkmac" THEN arg.kn ELSE KEYNUM_pairing
               secret == IF call = "checkmac" THEN arg.secret ELSE PairingSecret
               c == [op |-> "CheckMac", kn |-> kn, resp |-> <<"cm", secret, hostTK>>]
    <2>1. PICK o \in Outcomes(c) : ChipTakes(c, o)
      BY <1>3 DEF CheckMacX
    <2>2. QED
      BY <2>1, OnlyWriteWrites DEF ChipTakes
  <1>4. CASE GenDigX
    <2> DEFINE c == [op |-> "GenDig", kn |-> arg.kn]
    <2>1. PICK o \in Outcomes(c) : ChipTakes(c, o)
      BY <1>4 DEF GenDigX
    <2>2. QED
      BY <2>1, OnlyWriteWrites DEF ChipTakes
  <1>5. CASE MacX
    <2> DEFINE c == [op |-> "MAC"]
    <2>1. PICK o \in Outcomes(c) : ChipTakes(c, o)
      BY <1>5 DEF MacX
    <2>2. QED
      BY <2>1, OnlyWriteWrites DEF ChipTakes
  <1>6. CASE StartCheckMac \/ StartCheckMacHard \/ StartEncryptedWrite \/ UNCHANGED vars
    BY <1>6 DEF StartCheckMac, StartCheckMacHard, StartEncryptedWrite, vars
  <1>7. QED
    BY <1>1, <1>2, <1>3, <1>4, <1>5, <1>6 DEF Next

\* Without an attacker, se_encrypted_write writes its blocks in order: the
\* chip's data slot changes only by the Write of block blk, to the host's
\* data for it, once blocks 0..blk-1 hold theirs, for every length; a
\* block whose se_encrypted_write32 fails ends the loop (rv < 0 returns -1)
\* before a later block is written, whatever the bus loses.
THEOREM WritesOrdered == ~Attacker => (Spec => WritesInOrder)
  <1> SUFFICES ASSUME ~Attacker PROVE Spec => WritesInOrder
    OBVIOUS
  <1>1. Spec => []PInv
    BY PInvInit, PInvNext, PTL DEF Spec
  <1>2. PInv /\ [Next]_vars =>
          [slot' # slot =>
             /\ slot' = [slot EXCEPT ![DataSlot][blk] = arg.data[blk]]
             /\ \A b \in 0..(blk - 1) : slot[DataSlot][b] = arg.data[b]]_vars
    BY OrderStep
  <1>3. QED
    BY <1>1, <1>2, PTL DEF Spec, WritesInOrder
=============================================================================
