---------------------------- MODULE SeAuthAttack ----------------------------
(***************************************************************************)
(* Proof that se_checkmac_hard returns 0 only for the slot's real secret, *)
(* even when an active attacker on the bus replaces the chip's responses. *)
(* The argument is freshness: each se_checkmac_hard binds the MAC it      *)
(* accepts to the numin of its own Nonce, which no response the attacker  *)
(* has seen contains.                                                    *)
(***************************************************************************)
EXTENDS SeAuthProofs

\* A nonce key t was made from a numin drawn before the n-th Nonce
NonceOld(t, n) == t[1] = "nonce" => \E r \in 0..(n - 1) : t[3] = <<"host", r>>

\* A MAC value m over a GenDig over a nonce made before the n-th Nonce
MacOld(m, n) == (m[1] = "mac" /\ m[3][1] = "gendig") => NonceOld(m[3][4], n)

\* The numin of the running call's latest se_pick_nonce
Current == <<"host", rng - 1>>

\* The numins the MACs on the bus may carry: all drawn so far, except this
\* call's while it is between its Nonce and its MAC
Horizon == IF pc \in {"gd_gendig", "mac"} THEN rng - 1 ELSE rng

\* No key of the chip and no MAC on the bus carries a numin the host has not
\* drawn yet; while se_checkmac_hard is between its Nonce and its MAC, none
\* the attacker has seen carries this call's numin.
Fresh ==
    /\ NonceOld(tk, rng)
    /\ tk[1] = "gendig" => NonceOld(tk[4], rng)
    /\ \A m \in seen : MacOld(m, Horizon)

\* The host's tempkey and digest hold this call's numin, and a GenDig of the
\* chip over this call's nonce was taken over the slot as it is now.
ThisCall ==
    /\ pc = "gd_gendig" => hostTK[1] = "nonce" /\ hostTK[3] = Current
    /\ pc = "mac" => /\ digest = <<"gendig", arg.kn, arg.secret, digest[4]>>
                     /\ digest[4][1] = "nonce"
                     /\ digest[4][3] = Current
    /\ (/\ pc \in {"gd_gendig", "mac"}
        /\ tk[1] = "gendig" /\ tk[4][1] = "nonce" /\ tk[4][3] = Current)
       => tk[3] = slot[tk[2]]

\* The inductive invariant behind CheckMacHardAuthentic under the attacker
AInv ==
    /\ TypeInv
    /\ Fresh
    /\ ThisCall
    /\ CheckMacHardAuthentic
-----------------------------------------------------------------------------
\* A numin older than n is older than any k >= n.
LEMMA NonceOldMono ==
    ASSUME NEW t, NEW n \in Int, NEW k \in Int, n <= k, NonceOld(t, n)
    PROVE  NonceOld(t, k)
  BY DEF NonceOld

LEMMA MacOldMono ==
    ASSUME NEW m, NEW n \in Int, NEW k \in Int, n <= k, MacOld(m, n)
    PROVE  MacOld(m, k)
  BY NonceOldMono DEF MacOld

\* Whatever the attacker does, the chip's TempKey after an exchange is the
\* one the command gives it, the one it had, or none, and the value the
\* host reads is the chip's, none, or one seen on the bus before.
LEMMA AttackOutcome ==
    ASSUME NEW c, NEW o \in Outcomes(c)
    PROVE  /\ o.tk \in {Exec(c).tk, tk, NoKey}
           /\ o.val \in {Exec(c).val, NoKey} \cup seen
  BY DEF Outcomes

\* The attacker learns only the 32-byte answers of Nonce and MAC.
LEMMA SeenGrows ==
    ASSUME NEW c, NEW o, ChipTakes(c, o)
    PROVE  /\ seen' \subseteq seen \cup {Exec(c).val}
           /\ ~Wide(c) => seen' = seen
  BY DEF ChipTakes

\* NoKey is neither a nonce, a GenDig nor a MAC.
LEMMA NoKeyShape ==
    NoKey[1] \notin {"nonce", "gendig", "mac"}
  BY DEF NoKey

LEMMA AInvInit == Init => AInv
  BY TypeInvInit DEF Init, AInv, Fresh, ThisCall, NonceOld, NoKey, CheckMacHardAuthentic

LEMMA AInvNext == AInv /\ [Next]_vars => AInv'
  <1> SUFFICES ASSUME AInv, [Next]_vars PROVE AInv'
    OBVIOUS
  <1>0. TypeInv'
    BY TypeInvNext DEF AInv
  <1> USE <1>0 DEF AInv
  <1> rng \in Nat
    BY DEF TypeInv, TypeOK
  <1>1. CASE StartCheckMac \/ StartCheckMacHard \/ StartEncryptedWrite
    <2>1. /\ pc = "idle" /\ pc' \in {"cm_nonce", "gd_nonce"}
          /\ UNCHANGED <<tk, seen, rng, slot>>
      BY <1>1 DEF StartCheckMac, StartCheckMacHard, StartEncryptedWrite
    <2>2. Horizon' = Horizon
      BY <2>1 DEF Horizon
    <2>3. QED
      BY <2>1, <2>2 DEF Fresh, ThisCall, CheckMacHardAuthentic
  <1>2. CASE PickNonce
    <2> DEFINE c == [op |-> "Nonce", numin |-> NumIn]
    <2>1. PICK o \in Outcomes(c) :
              /\ ChipTakes(c, o)
              /\ UNCHANGED cmrc
              /\ IF o.rc # 0
                 THEN IF pc = "cm_nonce" THEN CheckMacReturns(-1) ELSE Return(-1)
                 ELSE /\ hostTK' = <<"nonce", o.val, NumIn>>
                      /\ pc' = IF pc = "cm_nonce" THEN "cm_check" ELSE "gd_gendig"
                      /\ UNCHANGED <<call, arg, ret, attempt, blk, left, digest>>
      BY <1>2 DEF PickNonce
    <2>2. /\ pc \in {"cm_nonce", "gd_nonce"} /\ rng' = rng + 1 /\ slot' = slot
          /\ Horizon = rng
      BY <1>2, <2>1, OnlyWriteWrites DEF PickNonce, ChipTakes, Horizon
    <2>3. /\ Exec(c).tk = <<"nonce", RandOut, <<"host", rng>>>>
          /\ Exec(c).val = <<"chip", rng>>
      BY DEF Exec, RandOut, NumIn
    <2>4. tk' \in {<<"nonce", RandOut, <<"host", rng>>>>, tk, NoKey}
      BY <2>1, <2>3, AttackOutcome DEF ChipTakes
    <2>5. seen' \subseteq seen \cup {<<"chip", rng>>}
      BY <2>1, <2>3, SeenGrows
    <2>6. pc' \in {"idle", "cm_nonce", "gd_nonce", "cm_check", "gd_gendig"}
      BY <2>1, <2>2, CheckMacReturnsFacts, ReturnFacts DEF TypeInv
    <2>7. Horizon' \in {rng, rng + 1}
      BY <2>2, <2>6 DEF Horizon
    <2>8. NonceOld(tk', rng') /\ (tk'[1] = "gendig" => NonceOld(tk'[4], rng'))
      <3>1. CASE tk' = <<"nonce", RandOut, <<"host", rng>>>>
        BY <2>2, <3>1 DEF NonceOld
      <3>2. CASE tk' = tk
        BY <2>2, <3>2, NonceOldMono DEF Fresh
      <3>3. CASE tk' = NoKey
        BY <3>3, NoKeyShape DEF NonceOld
      <3>4. QED
        BY <2>4, <3>1, <3>2, <3>3
    <2>9. \A m \in seen' : MacOld(m, Horizon')
      <3>1. SUFFICES ASSUME NEW m \in seen' PROVE MacOld(m, Horizon')
        OBVIOUS
      <3>2. CASE m \in seen
        BY <2>2, <2>7, <3>2, MacOldMono DEF Fresh
      <3>3. CASE m = <<"chip", rng>>
        BY <3>3 DEF MacOld
      <3>4. QED
        BY <2>5, <3>2, <3>3
    <2>10. ThisCall'
      <3>1. CASE o.rc = 0 /\ pc = "gd_nonce"
        <4>1. pc' = "gd_gendig" /\ hostTK' = <<"nonce", o.val, <<"host", rng>>>>
          BY <2>1, <3>1 DEF NumIn
        <4>2. Current' = <<"host", rng>>
          BY <2>2 DEF Current
        <4>3. ~(tk'[1] = "gendig" /\ tk'[4][1] = "nonce" /\ tk'[4][3] = Current')
          <5>1. CASE tk' = tk
            <6>1. tk[1] = "gendig" => NonceOld(tk[4], rng)
              BY DEF Fresh
            <6>2. QED
              BY <4>2, <5>1, <6>1 DEF NonceOld
          <5>2. QED
            BY <2>4, <5>1, NoKeyShape
        <4>4. QED
          BY <4>1, <4>2, <4>3 DEF ThisCall
      <3>2. CASE ~(o.rc = 0 /\ pc = "gd_nonce")
        <4>1. pc' \notin {"gd_gendig", "mac"}
          BY <2>1, <2>2, <3>2, CheckMacReturnsFacts, ReturnFacts DEF TypeInv
        <4>2. QED
          BY <4>1 DEF ThisCall
      <3>3. QED
        BY <3>1, <3>2
    <2>11. CheckMacHardAuthentic'
      <3>1. CASE o.rc = 0
        BY <2>1, <3>1 DEF CheckMacHardAuthentic
      <3>2. CASE o.rc # 0 /\ pc = "cm_nonce"
        <4>1. call \in {"checkmac", "encrypted_write"}
          BY <2>2, <3>2 DEF TypeInv, CallsAtPc
        <4>2. QED
          BY <2>1, <3>2, <4>1, CheckMacReturnsFacts DEF TypeInv, CheckMacHardAuthentic
      <3>3. CASE o.rc # 0 /\ pc # "cm_nonce"
        BY <2>1, <3>3, ReturnFacts DEF CheckMacHardAuthentic
      <3>4. QED
        BY <3>1, <3>2, <3>3
    <2>12. QED
      BY <2>8, <2>9, <2>10, <2>11 DEF Fresh
  <1>3. CASE CheckMacX
    <2> DEFINE kn == IF call = "checkmac" THEN arg.kn ELSE KEYNUM_pairing
               secret == IF call = "checkmac" THEN arg.secret ELSE PairingSecret
               c == [op |-> "CheckMac", kn |-> kn, resp |-> <<"cm", secret, hostTK>>]
    <2>1. PICK o \in Outcomes(c) :
              /\ ChipTakes(c, o)
              /\ cmrc' = o.rc
              /\ CheckMacReturns(IF o.rc # 0 THEN -2 ELSE 0)
      BY <1>3 DEF CheckMacX
    <2>2. /\ pc = "cm_check" /\ call \in {"checkmac", "encrypted_write"}
          /\ UNCHANGED <<rng, seen>>
      BY <1>3, <2>1, SeenGrows DEF CheckMacX, TypeInv, CallsAtPc, Wide
    <2>3. tk' \in {tk, NoKey}
      <3>1. Exec(c).tk = tk
        BY DEF Exec
      <3>2. QED
        BY <2>1, <3>1, AttackOutcome DEF ChipTakes
    <2>4. pc' \in {"idle", "gd_nonce", "cm_nonce"} /\ call' = call
      BY <2>1, CheckMacReturnsFacts DEF TypeInv
    <2>5. Horizon' = Horizon
      BY <2>2, <2>4 DEF Horizon
    <2>6. Fresh'
      BY <2>2, <2>3, <2>5, NoKeyShape DEF Fresh, NonceOld
    <2>7. QED
      BY <2>2, <2>4, <2>6 DEF ThisCall, CheckMacHardAuthentic
  <1>4. CASE GenDigX
    <2> DEFINE c == [op |-> "GenDig", kn |-> arg.kn]
               g == <<"gendig", arg.kn, slot[arg.kn], tk>>
    <2>1. PICK o \in Outcomes(c) :
              /\ ChipTakes(c, o)
              /\ IF o.rc # 0
                 THEN Return(-1)
                 ELSE /\ digest' = <<"gendig", arg.kn, arg.secret, hostTK>>
                      /\ hostTK' = NoKey
                      /\ pc' = IF call = "checkmac_hard" THEN "mac" ELSE "write"
                      /\ UNCHANGED <<call, arg, ret, attempt, blk, left>>
      BY <1>4 DEF GenDigX
    <2>2. /\ pc = "gd_gendig" /\ UNCHANGED <<rng, seen, slot>>
      BY <1>4, <2>1, SeenGrows, OnlyWriteWrites DEF GenDigX, ChipTakes, Wide
    <2>3. tk' \in {g, tk, NoKey}
      <3>1. Exec(c).tk \in {g, tk}
        BY DEF Exec
      <3>2. QED
        BY <2>1, <3>1, AttackOutcome DEF ChipTakes
    <2>4. pc' \in {"idle", "mac", "write"}
      BY <2>1, ReturnFacts
    <2>5. Horizon' \in {rng - 1, rng} /\ Horizon = rng - 1
      BY <2>2, <2>4 DEF Horizon
    <2>6. NonceOld(tk', rng') /\ (tk'[1] = "gendig" => NonceOld(tk'[4], rng'))
      <3>1. CASE tk' = g
        BY <2>2, <3>1 DEF Fresh, NonceOld
      <3>2. QED
        BY <2>2, <2>3, <3>1, NoKeyShape DEF Fresh, NonceOld
    <2>7. \A m \in seen' : MacOld(m, Horizon')
      BY <2>2, <2>5, MacOldMono DEF Fresh
    <2>8. ThisCall'
      <3>1. CASE o.rc = 0 /\ call = "checkmac_hard"
        <4>1. /\ pc' = "mac" /\ arg' = arg
              /\ digest' = <<"gendig", arg.kn, arg.secret, hostTK>>
          BY <2>1, <3>1
        <4>2. hostTK[1] = "nonce" /\ hostTK[3] = Current /\ Current' = Current
          BY <2>2 DEF ThisCall, Current
        <4>3. (tk'[1] = "gendig" /\ tk'[4][1] = "nonce" /\ tk'[4][3] = Current')
                 => tk'[3] = slot'[tk'[2]]
          <5>1. CASE tk' = g
            BY <2>2, <5>1
          <5>2. CASE tk' = tk
            BY <2>2, <4>2, <5>2 DEF ThisCall
          <5>3. QED
            BY <2>3, <5>1, <5>2, NoKeyShape
        <4>4. QED
          BY <4>1, <4>2, <4>3 DEF ThisCall
      <3>2. CASE ~(o.rc = 0 /\ call = "checkmac_hard")
        <4>1. pc' \notin {"gd_gendig", "mac"}
          BY <2>1, <3>2, ReturnFacts
        <4>2. QED
          BY <4>1 DEF ThisCall
      <3>3. QED
        BY <3>1, <3>2
    <2>9. CheckMacHardAuthentic'
      BY <2>1, ReturnFacts DEF CheckMacHardAuthentic
    <2>10. QED
      BY <2>6, <2>7, <2>8, <2>9 DEF Fresh
  <1>5. CASE MacX
    <2> DEFINE c == [op |-> "MAC"]
               expected == <<"mac", PairingSecret, digest>>
    <2>1. PICK o \in Outcomes(c) :
              /\ ChipTakes(c, o)
              /\ Return(IF o.rc = 0 /\ o.val = expected THEN 0 ELSE -2)
      BY <1>5 DEF MacX
    <2>2. /\ pc = "mac" /\ UNCHANGED <<rng, slot>> /\ Horizon = rng - 1
      BY <1>5, <2>1, OnlyWriteWrites DEF MacX, ChipTakes, Horizon
    <2>3. Exec(c).tk = tk /\ Exec(c).val \in {NoKey, <<"mac", slot[KEYNUM_pairing], tk>>}
      BY DEF Exec
    <2>4. tk' \in {tk, NoKey}
      BY <2>1, <2>3, AttackOutcome DEF ChipTakes
    <2>5. pc' = "idle" /\ call' = call /\ arg' = arg /\ Horizon' = rng
      BY <2>1, <2>2, ReturnFacts DEF Horizon
    <2>6. NonceOld(tk', rng') /\ (tk'[1] = "gendig" => NonceOld(tk'[4], rng'))
      BY <2>2, <2>4, NoKeyShape DEF Fresh, NonceOld
    <2>7. \A m \in seen' : MacOld(m, Horizon')
      <3>1. SUFFICES ASSUME NEW m \in seen' PROVE MacOld(m, rng)
        BY <2>5
      <3>2. CASE m \in seen
        BY <2>2, <3>2, MacOldMono DEF Fresh
      <3>3. CASE m = NoKey
        BY <3>3, NoKeyShape DEF MacOld
      <3>4. CASE m = <<"mac", slot[KEYNUM_pairing], tk>>
        BY <3>4 DEF Fresh, MacOld
      <3>5. QED
        BY <2>1, <2>3, <3>2, <3>3, <3>4, SeenGrows
    <2>8. ThisCall'
      BY <2>5 DEF ThisCall
    \* The MAC the host accepts names this call's numin, so it is none the
    \* attacker has seen: it is the chip's own, over a GenDig of the real slot.
    <2>9. CASE o.rc = 0 /\ o.val = expected
      <3>1. /\ digest = <<"gendig", arg.kn, arg.secret, digest[4]>>
            /\ digest[4][1] = "nonce" /\ digest[4][3] = Current
        BY <2>2 DEF ThisCall
      <3>2. expected \notin seen
        <4>1. SUFFICES ASSUME expected \in seen PROVE FALSE
          OBVIOUS
        <4>2. MacOld(expected, rng - 1)
          BY <2>2, <4>1 DEF Fresh
        <4>3. \E r \in 0..(rng - 2) : digest[4][3] = <<"host", r>>
          BY <3>1, <4>2 DEF MacOld, NonceOld
        <4>4. QED
          BY <3>1, <4>3 DEF Current
      <3>3. expected # NoKey
        BY NoKeyShape
      <3>4. expected = <<"mac", slot[KEYNUM_pairing], tk>>
        BY <2>3, <2>9, <3>2, <3>3, AttackOutcome
      <3>5. tk = digest
        BY <3>4
      <3>6. slot[arg.kn] = arg.secret
        BY <2>2, <3>1, <3>5 DEF ThisCall
      <3>7. CheckMacHardAuthentic'
        BY <2>2, <2>5, <3>6 DEF CheckMacHardAuthentic
      <3>8. QED
        BY <2>6, <2>7, <2>8, <3>7 DEF Fresh
    <2>10. CASE ~(o.rc = 0 /\ o.val = expected)
      <3>1. ret' = -2
        BY <2>1, <2>10, ReturnFacts
      <3>2. QED
        BY <2>6, <2>7, <2>8, <3>1 DEF Fresh, CheckMacHardAuthentic
    <2>11. QED
      BY <2>9, <2>10
  <1>6. CASE WriteX
    <2> DEFINE c == [op |-> "Write", blk |-> blk, mac |-> digest, val |-> arg.data[blk]]
    <2>1. PICK o \in Outcomes(c) :
              /\ ChipTakes(c, o)
              /\ IF o.rc # 0
                 THEN Return(-1)
                 ELSE IF blk + 1 < 3 /\ left - 32 > 0
                 THEN /\ blk' = blk + 1
                      /\ left' = left - 32
                      /\ attempt' = 0
                      /\ digest' = NoKey
                      /\ pc' = "cm_nonce"
                      /\ UNCHANGED <<call, arg, ret, hostTK>>
                 ELSE Return(0)
      BY <1>6 DEF WriteX
    <2>2. /\ pc = "write" /\ call = "encrypted_write" /\ UNCHANGED <<rng, seen>>
      BY <1>6, <2>1, SeenGrows DEF WriteX, TypeInv, CallsAtPc, Wide
    <2>3. tk' \in {tk, NoKey}
      <3>1. Exec(c).tk = tk
        BY DEF Exec
      <3>2. QED
        BY <2>1, <3>1, AttackOutcome DEF ChipTakes
    <2>4. pc' \in {"idle", "cm_nonce"} /\ call' = call
      BY <2>1, ReturnFacts
    <2>5. Horizon' = Horizon
      BY <2>2, <2>4 DEF Horizon
    <2>6. Fresh'
      BY <2>2, <2>3, <2>5, NoKeyShape DEF Fresh, NonceOld
    <2>7. QED
      BY <2>2, <2>4, <2>6 DEF ThisCall, CheckMacHardAuthentic
  <1>7. CASE UNCHANGED vars
    BY <1>7 DEF vars, hostVars, Fresh, Horizon, ThisCall, Current, CheckMacHardAuthentic
  <1>8. QED
    BY <1>1, <1>2, <1>3, <1>4, <1>5, <1>6, <1>7 DEF Next

\* Against an active attacker who replaces any response on the bus with a
\* status byte of its choice or a 32-byte value it has seen before,
\* se_checkmac_hard returns 0 only when the chip's slot holds the secret it
\* was given, for all slots, secrets, data and bounds.  The host's fresh
\* numin is what makes every MAC it accepts the chip's answer to this call.
THEOREM AttackerAuthentication == Spec => []CheckMacHardAuthentic
  <1>1. Spec => []AInv
    BY AInvInit, AInvNext, PTL DEF Spec
  <1>2. QED
    BY <1>1, PTL DEF AInv
=============================================================================
