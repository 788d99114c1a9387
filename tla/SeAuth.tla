------------------------------- MODULE SeAuth -------------------------------
(***************************************************************************)
(* AuthProtocol: se_pick_nonce, se_gendig_slot, se_is_correct_tempkey,    *)
(* se_checkmac, se_pair_unlock, se_checkmac_hard, se_encrypted_write32    *)
(* and se_encrypted_write, over the Exchange abstraction of SeTransport.  *)
(*                                                                         *)
(* Each se_write / se_read / se_sleep triple is one atomic step.  Its     *)
(* outcome is one that ExchangeRefinement shows the transport can give:   *)
(* the chip's answer to this command, or -1.  A 1-byte read (se_read1)    *)
(* also takes the chip's 4-byte error frame as data, so its return value  *)
(* is the chip's status byte.  After an answer se_read has sent IDLE, the *)
(* caller's SLEEP is not heard and TempKey survives; after -1 the SLEEP   *)
(* is heard, or the watchdog has already fired, and TempKey is lost.     *)
(*                                                                         *)
(* Hashes are symbolic tuples, equal only when their inputs are equal.    *)
(* When Attacker holds, an active attacker on the bus may replace any     *)
(* response: a status byte by any status, a 32-byte value by one it saw   *)
(* on the bus.                                                            *)
(***************************************************************************)
EXTENDS Integers

CONSTANTS
    Slots,            \* key slots of the chip
    KEYNUM_pairing,   \* slot holding the pairing secret
    DataSlot,         \* the data_slot se_encrypted_write writes
    WriteKN,          \* write_kn: the slot of the write key
    Values,           \* contents of one 32-byte block
    SlotInit,         \* the chip's slots at power-up
    PairingSecret,    \* rom_secrets->pairing_secret
    Secrets,          \* secret arguments of se_checkmac and se_checkmac_hard
    WriteKeys,        \* write_key arguments of se_encrypted_write
    Datas,            \* data arguments of se_encrypted_write, block by block
    Lens,             \* len arguments of se_encrypted_write
    MaxRng,           \* bound on the Nonce commands of a behaviour
    Attacker,         \* whether an attacker may replace responses
    CHECKMAC_FAIL,    \* the chip's status byte for a miscompare
    EXEC_ERR,         \* its status byte for an execution error
    COMM_ERR          \* its status byte for a garbled command

Blk == 0..2
Content == [Blk -> Values]
Statuses == {0, CHECKMAC_FAIL, EXEC_ERR, COMM_ERR}

ASSUME AuthAssumption ==
    /\ {KEYNUM_pairing, DataSlot, WriteKN} \subseteq Slots
    /\ SlotInit \in [Slots -> Content]
    /\ PairingSecret = SlotInit[KEYNUM_pairing]
    /\ Secrets \cup WriteKeys \subseteq Content
    /\ Datas \subseteq [0..3 -> Values]
    /\ Lens \subseteq 1..128
    /\ MaxRng \in Nat
    /\ Attacker \in BOOLEAN
    /\ {CHECKMAC_FAIL, EXEC_ERR, COMM_ERR} \subseteq 1..255

VARIABLES
    call,     \* the public function running: "none", "checkmac", "checkmac_hard", "encrypted_write"
    pc,       \* the exchange it is at, or "idle" once it has returned
    arg,      \* its arguments: kn, secret (the write key for a write), data, len
    ret,      \* its return value
    cmrc,     \* the rc of the last CheckMac read
    attempt,  \* se_pair_unlock's i
    blk,      \* se_encrypted_write's blk
    left,     \* and its len
    hostTK,   \* the tempkey se_pick_nonce computed
    digest,   \* the digest se_gendig_slot computed
    rng,      \* Nonce commands so far: the source of fresh numin and chip randomness
    tk,       \* the chip's TempKey
    slot,     \* the chip's slots
    seen      \* 32-byte responses the attacker has seen on the bus

hostVars == <<call, pc, arg, ret, cmrc, attempt, blk, left, hostTK, digest>>
vars == <<hostVars, rng, tk, slot, seen>>

NoKey == <<"none">>

\* 32-byte responses, read with se_read(buf, 32); the others with se_read1
Wide(c) == c.op \in {"Nonce", "MAC"}

-----------------------------------------------------------------------------
(* The chip (not code of this repository).                                *)

RandOut == <<"chip", rng>>

\* What the chip does with a command it receives: its new TempKey and
\* slots, its status byte, and the 32-byte value of a Nonce or MAC
Exec(c) ==
    LET Do(k, sl, st, v) == [tk |-> k, slot |-> sl, status |-> st, val |-> v]
    IN
    IF c.op = "Nonce"
    THEN Do(<<"nonce", RandOut, c.numin>>, slot, 0, RandOut)
    ELSE IF tk = NoKey
    THEN Do(tk, slot, EXEC_ERR, NoKey)
    ELSE IF c.op = "GenDig"
    THEN Do(<<"gendig", c.kn, slot[c.kn], tk>>, slot, 0, NoKey)
    ELSE IF c.op = "MAC"
    THEN Do(tk, slot, 0, <<"mac", slot[KEYNUM_pairing], tk>>)
    ELSE IF c.op = "CheckMac"
    THEN Do(tk, slot, IF c.resp = <<"cm", slot[c.kn], tk>> THEN 0 ELSE CHECKMAC_FAIL, NoKey)
    \* Write: it decrypts with its TempKey and checks the MAC over the plaintext
    ELSE IF c.mac = tk
    THEN Do(tk, [slot EXCEPT ![DataSlot][c.blk] = c.val], 0, NoKey)
    ELSE Do(tk, slot, CHECKMAC_FAIL, NoKey)

\* The outcomes of one exchange: the chip's state after it and the caller's
\* se_sleep, se_read's or se_read1's rc and, for se_read(buf, 32), the bytes
\* in buf.  A status other than 0 in a 32-byte read is the 4-byte error
\* frame, on which se_read returns -1 without idling the chip.
Outcomes(c) ==
    LET e == Exec(c)
        now == [tk |-> tk, slot |-> slot]
        Lost(s) == [tk |-> NoKey, slot |-> s.slot, rc |-> -1, val |-> NoKey]
        Got(s, r, v) == [tk |-> s.tk, slot |-> s.slot, rc |-> r, val |-> v]
        answered == IF ~Wide(c) THEN Got(e, e.status, NoKey)
                    ELSE IF e.status = 0 THEN Got(e, 0, e.val)
                    ELSE Lost(e)
        garbled == IF Wide(c) THEN {} ELSE {Got(now, COMM_ERR, NoKey)}
        forged == IF ~Attacker THEN {}
                  ELSE IF Wide(c) THEN {Got(s, 0, v) : s \in {e, now}, v \in seen}
                  ELSE {Got(s, r, NoKey) : s \in {e, now}, r \in {0, CHECKMAC_FAIL, EXEC_ERR}}
    IN  {answered, Lost(e), Lost(now)} \cup garbled \cup forged

\* The chip's side of an exchange, and what the attacker learns from it
ChipTakes(c, o) ==
    /\ tk' = o.tk
    /\ slot' = o.slot
    /\ seen' = IF Attacker /\ Wide(c) /\ Exec(c).status = 0
               THEN seen \cup {Exec(c).val} ELSE seen

-----------------------------------------------------------------------------
(* The host.                                                              *)

\* Mutant: numin is the same in every call (an RNG that repeats)
NumIn_stale == <<"host", 0>>

\* rng_buffer(numin, 20): fresh for every Nonce
NumIn == <<"host", rng>>

\* The public function returns v; its locals are gone
Return(v) ==
    /\ pc' = "idle"
    /\ ret' = v
    /\ attempt' = 0
    /\ blk' = 0
    /\ left' = 0
    /\ hostTK' = NoKey
    /\ digest' = NoKey
    /\ UNCHANGED <<call, arg>>

\* Mutant: se_pair_unlock loops while i <= attempts
CheckMacReturns_four_attempts(v) ==
    IF call = "checkmac" THEN Return(v)
    ELSE IF v = 0
    THEN /\ pc' = "gd_nonce"
         /\ hostTK' = NoKey
         /\ UNCHANGED <<call, arg, ret, attempt, blk, left, digest>>
    ELSE IF attempt + 1 <= 3
    THEN /\ pc' = "cm_nonce"
         /\ attempt' = attempt + 1
         /\ hostTK' = NoKey
         /\ UNCHANGED <<call, arg, ret, blk, left, digest>>
    ELSE Return(-1)

\* se_checkmac returns v: to the caller of se_checkmac, or inside
\* se_pair_unlock, which returns 0 at once, tries again, or gives up after
\* three attempts (and se_encrypted_write32, se_encrypted_write with it)
CheckMacReturns(v) ==
    IF call = "checkmac" THEN Return(v)
    ELSE IF v = 0
    THEN /\ pc' = "gd_nonce"
         /\ hostTK' = NoKey
         /\ UNCHANGED <<call, arg, ret, attempt, blk, left, digest>>
    ELSE IF attempt + 1 < 3
    THEN /\ pc' = "cm_nonce"
         /\ attempt' = attempt + 1
         /\ hostTK' = NoKey
         /\ UNCHANGED <<call, arg, ret, blk, left, digest>>
    ELSE Return(-1)

Init ==
    /\ call = "none"
    /\ pc = "idle"
    /\ arg = [kn |-> KEYNUM_pairing, secret |-> PairingSecret, data |-> <<>>, len |-> 0]
    /\ ret = 0
    /\ cmrc = 0
    /\ attempt = 0
    /\ blk = 0
    /\ left = 0
    /\ hostTK = NoKey
    /\ digest = NoKey
    /\ rng = 0
    /\ tk = NoKey
    /\ slot = SlotInit
    /\ seen = {}

\* Entry to se_checkmac(keynum, secret): first se_pick_nonce
StartCheckMac ==
    /\ pc = "idle"
    /\ \E kn \in Slots, s \in Secrets :
         arg' = [kn |-> kn, secret |-> s, data |-> <<>>, len |-> 0]
    /\ call' = "checkmac"
    /\ pc' = "cm_nonce"
    /\ ret' = 0
    /\ cmrc' = 0
    /\ UNCHANGED <<attempt, blk, left, hostTK, digest, rng, tk, slot, seen>>

\* Entry to se_checkmac_hard(keynum, secret): se_gendig_slot's se_pick_nonce
StartCheckMacHard ==
    /\ pc = "idle"
    /\ \E kn \in Slots, s \in Secrets :
         arg' = [kn |-> kn, secret |-> s, data |-> <<>>, len |-> 0]
    /\ call' = "checkmac_hard"
    /\ pc' = "gd_nonce"
    /\ ret' = 0
    /\ cmrc' = 0
    /\ UNCHANGED <<attempt, blk, left, hostTK, digest, rng, tk, slot, seen>>

\* Entry to se_encrypted_write(DataSlot, WriteKN, write_key, data, len):
\* block 0's se_encrypted_write32 starts with se_pair_unlock's first se_checkmac
StartEncryptedWrite ==
    /\ pc = "idle"
    /\ \E k \in WriteKeys, d \in Datas, n \in Lens :
         arg' = [kn |-> WriteKN, secret |-> k, data |-> d, len |-> n]
    /\ call' = "encrypted_write"
    /\ pc' = "cm_nonce"
    /\ ret' = 0
    /\ cmrc' = 0
    /\ left' = arg'.len
    /\ UNCHANGED <<attempt, blk, hostTK, digest, rng, tk, slot, seen>>

\* se_pick_nonce: Nonce with a fresh numin, se_read(randout, 32), se_sleep;
\* on success the host's tempkey is the hash of randout and numin
PickNonce ==
    /\ pc \in {"cm_nonce", "gd_nonce"}
    /\ rng < MaxRng
    /\ rng' = rng + 1
    /\ LET c == [op |-> "Nonce", numin |-> NumIn] IN
       \E o \in Outcomes(c) :
         /\ ChipTakes(c, o)
         /\ UNCHANGED cmrc
         /\ IF o.rc # 0
            THEN IF pc = "cm_nonce" THEN CheckMacReturns(-1) ELSE Return(-1)
            ELSE /\ hostTK' = <<"nonce", o.val, NumIn>>
                 /\ pc' = IF pc = "cm_nonce" THEN "cm_check" ELSE "gd_gendig"
                 /\ UNCHANGED <<call, arg, ret, attempt, blk, left, digest>>

\* Mutant: se_checkmac tests rc < 0 instead of rc != 0 after se_read1
CheckMacX_rc_negative ==
    /\ pc = "cm_check"
    /\ LET kn == IF call = "checkmac" THEN arg.kn ELSE KEYNUM_pairing
           secret == IF call = "checkmac" THEN arg.secret ELSE PairingSecret
           c == [op |-> "CheckMac", kn |-> kn, resp |-> <<"cm", secret, hostTK>>]
       IN \E o \in Outcomes(c) :
            /\ ChipTakes(c, o)
            /\ cmrc' = o.rc
            /\ CheckMacReturns(IF o.rc < 0 THEN -2 ELSE 0)
    /\ UNCHANGED rng

\* se_checkmac's CheckMac: the response the host computed from the secret
\* and its tempkey, se_read1, se_sleep; rc != 0 returns -2
CheckMacX ==
    /\ pc = "cm_check"
    /\ LET kn == IF call = "checkmac" THEN arg.kn ELSE KEYNUM_pairing
           secret == IF call = "checkmac" THEN arg.secret ELSE PairingSecret
           c == [op |-> "CheckMac", kn |-> kn, resp |-> <<"cm", secret, hostTK>>]
       IN \E o \in Outcomes(c) :
            /\ ChipTakes(c, o)
            /\ cmrc' = o.rc
            /\ CheckMacReturns(IF o.rc # 0 THEN -2 ELSE 0)
    /\ UNCHANGED rng

\* Mutant: se_gendig_slot tests rc < 0 instead of rc != 0
GenDigX_rc_negative ==
    /\ pc = "gd_gendig"
    /\ LET c == [op |-> "GenDig", kn |-> arg.kn] IN
       \E o \in Outcomes(c) :
         /\ ChipTakes(c, o)
         /\ IF o.rc < 0
            THEN Return(-1)
            ELSE /\ digest' = <<"gendig", arg.kn, arg.secret, hostTK>>
                 /\ hostTK' = NoKey
                 /\ pc' = IF call = "checkmac_hard" THEN "mac" ELSE "write"
                 /\ UNCHANGED <<call, arg, ret, attempt, blk, left>>
    /\ UNCHANGED <<cmrc, rng>>

\* se_gendig_slot's GenDig, se_read1, se_sleep; rc != 0 returns -1 (from
\* se_checkmac_hard, or from se_encrypted_write32 and se_encrypted_write);
\* else the host's digest is the hash of the slot secret it was given and
\* its tempkey
GenDigX ==
    /\ pc = "gd_gendig"
    /\ LET c == [op |-> "GenDig", kn |-> arg.kn] IN
       \E o \in Outcomes(c) :
         /\ ChipTakes(c, o)
         /\ IF o.rc # 0
            THEN Return(-1)
            ELSE /\ digest' = <<"gendig", arg.kn, arg.secret, hostTK>>
                 /\ hostTK' = NoKey
                 /\ pc' = IF call = "checkmac_hard" THEN "mac" ELSE "write"
                 /\ UNCHANGED <<call, arg, ret, attempt, blk, left>>
    /\ UNCHANGED <<cmrc, rng>>

\* Mutant: se_checkmac_hard does not look at se_is_correct_tempkey's answer
MacX_no_compare ==
    /\ pc = "mac"
    /\ LET c == [op |-> "MAC"] IN
       \E o \in Outcomes(c) :
         /\ ChipTakes(c, o)
         /\ Return(0)
    /\ UNCHANGED <<cmrc, rng>>

\* se_is_correct_tempkey(digest): MAC, se_read(resp, 32), se_sleep, and the
\* compare with the MAC the host computes over the pairing secret and the
\* digest; se_checkmac_hard returns -2 unless it is true
MacX ==
    /\ pc = "mac"
    /\ LET c == [op |-> "MAC"] IN
       \E o \in Outcomes(c) :
         /\ ChipTakes(c, o)
         /\ Return(IF o.rc = 0 /\ o.val = <<"mac", PairingSecret, digest>>
                   THEN 0 ELSE -2)
    /\ UNCHANGED <<cmrc, rng>>

\* Mutant: se_encrypted_write stops at blk < 2
WriteX_two_blocks ==
    /\ pc = "write"
    /\ LET c == [op |-> "Write", blk |-> blk, mac |-> digest, val |-> arg.data[blk]] IN
       \E o \in Outcomes(c) :
         /\ ChipTakes(c, o)
         /\ IF o.rc # 0
            THEN Return(-1)
            ELSE IF blk + 1 < 2 /\ left - 32 > 0
            THEN /\ blk' = blk + 1
                 /\ left' = left - 32
                 /\ attempt' = 0
                 /\ digest' = NoKey
                 /\ pc' = "cm_nonce"
                 /\ UNCHANGED <<call, arg, ret, hostTK>>
            ELSE Return(0)
    /\ UNCHANGED <<cmrc, rng>>

\* Mutant: se_encrypted_write ignores se_encrypted_write32's rv until the
\* loop ends
WriteX_ignore_rv ==
    /\ pc = "write"
    /\ LET c == [op |-> "Write", blk |-> blk, mac |-> digest, val |-> arg.data[blk]] IN
       \E o \in Outcomes(c) :
         /\ ChipTakes(c, o)
         /\ IF blk + 1 < 3 /\ left - 32 > 0
            THEN /\ blk' = blk + 1
                 /\ left' = left - 32
                 /\ attempt' = 0
                 /\ digest' = NoKey
                 /\ pc' = "cm_nonce"
                 /\ UNCHANGED <<call, arg, ret, hostTK>>
            ELSE Return(IF o.rc # 0 THEN -1 ELSE 0)
    /\ UNCHANGED <<cmrc, rng>>

\* se_encrypted_write32's Write of the block encrypted with the digest and
\* its MAC, se_read1, se_sleep: rc != 0 returns -1 (and so does
\* se_encrypted_write); else se_encrypted_write goes on while blk < 3 and
\* len > 0, starting the next block with se_pair_unlock
WriteX ==
    /\ pc = "write"
    /\ LET c == [op |-> "Write", blk |-> blk, mac |-> digest, val |-> arg.data[blk]] IN
       \E o \in Outcomes(c) :
         /\ ChipTakes(c, o)
         /\ IF o.rc # 0
            THEN Return(-1)
            ELSE IF blk + 1 < 3 /\ left - 32 > 0
            THEN /\ blk' = blk + 1
                 /\ left' = left - 32
                 /\ attempt' = 0
                 /\ digest' = NoKey
                 /\ pc' = "cm_nonce"
                 /\ UNCHANGED <<call, arg, ret, hostTK>>
            ELSE Return(0)
    /\ UNCHANGED <<cmrc, rng>>

Next ==
    \/ StartCheckMac
    \/ StartCheckMacHard
    \/ StartEncryptedWrite
    \/ PickNonce
    \/ CheckMacX
    \/ GenDigX
    \/ MacX
    \/ WriteX

Spec == Init /\ [][Next]_vars

-----------------------------------------------------------------------------
TypeOK ==
    /\ call \in {"none", "checkmac", "checkmac_hard", "encrypted_write"}
    /\ pc \in {"idle", "cm_nonce", "cm_check", "gd_nonce", "gd_gendig", "mac", "write"}
    /\ ret \in {0, -1, -2}
    /\ cmrc \in {-1} \cup Statuses
    /\ attempt \in 0..2
    /\ blk \in Blk
    /\ rng \in 0..MaxRng
    /\ slot \in [Slots -> Content]

\* Host and chip agree on TempKey: after se_pick_nonce returns 0 the chip's
\* TempKey is the one the host computed (the se_sleep that follows is not
\* heard, as se_read left the chip idle), and after se_gendig_slot returns
\* 0 the chip's TempKey is the GenDig of its own slot over that same nonce.
TempKeyAgreement ==
    /\ pc \in {"cm_check", "gd_gendig"} => tk = hostTK
    /\ pc \in {"mac", "write"} =>
         tk = <<"gendig", digest[2], slot[digest[2]], digest[4]>>

\* se_checkmac_hard returns 0 only if the chip's slot holds the secret it
\* was given, even when an attacker replaces the chip's responses.
CheckMacHardAuthentic ==
    (pc = "idle" /\ call = "checkmac_hard" /\ ret = 0) => slot[arg.kn] = arg.secret

\* When se_encrypted_write returns 0, every one of the len bytes it was
\* given is in the data slot: each 32-byte block up to the last is written.
EncryptedWriteComplete ==
    (pc = "idle" /\ call = "encrypted_write" /\ ret = 0) =>
        \A b \in 0..((arg.len + 31) \div 32 - 1) :
            b \in Blk /\ slot[DataSlot][b] = arg.data[b]

\* The chip's data slot changes only by se_encrypted_write's Write of block
\* blk, to the host's data for it, and only once blocks 0..blk-1 hold their
\* data: a failed block stops the loop before any later block is written.
WritesInOrder ==
    [][slot' # slot =>
         /\ slot' = [slot EXCEPT ![DataSlot][blk] = arg.data[blk]]
         /\ \A b \in 0..(blk - 1) : slot[DataSlot][b] = arg.data[b]]_vars

\* se_checkmac's -2 means the chip said no (spec: an authentication failure,
\* distinct from -1, a transport failure): the CheckMac read got an answer.
CheckMacCodes ==
    (pc = "idle" /\ call = "checkmac" /\ ret = -2) => cmrc # -1

\* The service AuthProtocol promises its callers, seen through the host's
\* state: a call is running while pc is not idle.
S == INSTANCE SeService WITH
        scall <- call, sarg <- arg, sbusy <- (pc # "idle"), sret <- ret, sslot <- slot

\* se_checkmac, se_checkmac_hard and se_encrypted_write implement SeService:
\* a 0 return means the slot holds the secret (se_checkmac on the chip's
\* word, se_checkmac_hard on its MAC) or every block of the data is
\* written; slots change only by se_encrypted_write's blocks, in order;
\* Nonce, GenDig, retries and the bus are invisible to the caller.
ImplementsService == S!Spec

=============================================================================
