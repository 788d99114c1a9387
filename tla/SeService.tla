------------------------------ MODULE SeService ------------------------------
(***************************************************************************)
(* What AuthProtocol promises the code that calls it: one public call at   *)
(* a time (se_checkmac, se_checkmac_hard or se_encrypted_write) runs and   *)
(* returns 0, -1 or -2.  A 0 return means what the call is for: the chip's *)
(* slot holds the secret it was given, or every block of the data is in    *)
(* the data slot.  Slots change only while se_encrypted_write runs, one    *)
(* block at a time and in order; a write that fails may already have       *)
(* written the block it was at.  se_encrypted_write never returns -2.      *)
(***************************************************************************)
EXTENDS Integers

CONSTANTS Slots, KEYNUM_pairing, DataSlot, WriteKN, SlotInit, PairingSecret,
          Secrets, WriteKeys, Datas, Lens

VARIABLES
    scall,   \* the public call running, or the last one to return
    sarg,    \* its arguments
    sbusy,   \* whether it is running
    sret,    \* its return value
    sslot    \* the chip's slots

svars == <<scall, sarg, sbusy, sret, sslot>>

\* The blocks of the data slot, and those a write of n bytes covers
Blk == 0..2
Covered(n) == 0..((n + 31) \div 32 - 1)

\* What a 0 return of the call promises of the slots s after it
Kept(s) ==
    IF scall = "encrypted_write"
    THEN \A b \in Covered(sarg.len) : b \in Blk /\ s[DataSlot][b] = sarg.data[b]
    ELSE s[sarg.kn] = sarg.secret

\* The return values of the call
Codes == IF scall = "encrypted_write" THEN {0, -1} ELSE {0, -1, -2}

Init ==
    /\ scall = "none"
    /\ sarg = [kn |-> KEYNUM_pairing, secret |-> PairingSecret, data |-> <<>>, len |-> 0]
    /\ sbusy = FALSE
    /\ sret = 0
    /\ sslot = SlotInit

\* A caller starts a public call with its arguments
Call ==
    /\ ~sbusy
    /\ \/ \E c \in {"checkmac", "checkmac_hard"}, kn \in Slots, s \in Secrets :
            /\ scall' = c
            /\ sarg' = [kn |-> kn, secret |-> s, data |-> <<>>, len |-> 0]
       \/ \E k \in WriteKeys, d \in Datas, n \in Lens :
            /\ scall' = "encrypted_write"
            /\ sarg' = [kn |-> WriteKN, secret |-> k, data |-> d, len |-> n]
    /\ sbusy' = TRUE
    /\ sret' = 0
    /\ UNCHANGED sslot

\* Block b of the running write lands in the data slot, once every earlier
\* block holds its data
WriteBlock(b) ==
    /\ scall = "encrypted_write"
    /\ b \in Covered(sarg.len)
    /\ \A e \in 0..(b - 1) : sslot[DataSlot][e] = sarg.data[e]
    /\ sslot' = [sslot EXCEPT ![DataSlot][b] = sarg.data[b]]

\* A block is written and the write goes on
Write ==
    /\ sbusy
    /\ \E b \in Blk : WriteBlock(b)
    /\ UNCHANGED <<scall, sarg, sbusy, sret>>

\* The call returns, its last block perhaps written in the same step; 0
\* only if the call kept its promise
Return ==
    /\ sbusy
    /\ sbusy' = FALSE
    /\ \/ UNCHANGED sslot
       \/ \E b \in Blk : WriteBlock(b)
    /\ \E v \in Codes : sret' = v /\ (v = 0 => Kept(sslot'))
    /\ UNCHANGED <<scall, sarg>>

Next == Call \/ Write \/ Return

Spec == Init /\ [][Next]_svars
=============================================================================
