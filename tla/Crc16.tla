------------------------------- MODULE Crc16 -------------------------------
(***************************************************************************)
(* CRC16Chain: se_crc16_chain, bit by bit, as se_write chains it: once    *)
(* over the five header bytes from framed_len on with a zero seed, and,   *)
(* when there is a body, again over the body from the first call's       *)
(* crc[2].  The frame se_write puts on the bus is compared with what the  *)
(* chip checks: framed_len bytes, whose last two are the CRC-16 (0x8005)  *)
(* of the others, computed by long division of the augmented message.     *)
(***************************************************************************)
EXTENDS Integers, Sequences, Bitwise

CONSTANTS
    Ops,      \* opcodes
    P1s,      \* p1 values
    P2s,      \* p2 values
    Bodies    \* data[0..data_len-1] values

ASSUME CrcAssumption ==
    /\ Ops \subseteq 0..255
    /\ P1s \subseteq 0..255
    /\ P2s \subseteq 0..65535
    /\ Bodies \subseteq Seq(0..255)

VARIABLES
    header,          \* known.framed_len .. known.p2_msb
    body,            \* data
    part,            \* the se_crc16_chain call running: "header", "body", "done"
    crc,             \* the caller's uint8_t crc[2]
    crc_register,    \* se_crc16_chain's uint16_t register
    counter,         \* its byte index
    shift_register   \* its uint8_t bit mask

vars == <<header, body, part, crc, crc_register, counter, shift_register>>

polynom == 32773   \* 0x8005

\* The bytes the current call runs over
Data == IF part = "header" THEN header ELSE body

\* crc_register = crc[0] | crc[1] << 8
Load(c) == c[1] + c[2] * 256

\* crc[0] = low byte, crc[1] = high byte
Store(r) == <<r % 256, r \div 256>>

Init ==
    /\ \E op \in Ops, p1 \in P1s, p2 \in P2s, d \in Bodies :
         /\ header = <<(Len(d) + 7) % 256, op, p1, p2 % 256, (p2 \div 256) % 256>>
         /\ body = d
    /\ part = "header"
    /\ crc = <<0, 0>>
    /\ crc_register = 0
    /\ counter = 0
    /\ shift_register = 1

\* Mutant: the register is shifted as an int, not kept to 16 bits
ShiftBit_no_wrap ==
    /\ part # "done"
    /\ counter < Len(Data)
    /\ LET data_bit == IF (Data[counter + 1] & shift_register) # 0 THEN 1 ELSE 0
           crc_bit == crc_register \div 32768
           shifted == crc_register * 2
           next_mask == (shift_register * 2) % 256
       IN /\ crc_register' = IF data_bit # crc_bit THEN shifted ^^ polynom ELSE shifted
          /\ shift_register' = IF next_mask = 0 THEN 1 ELSE next_mask
          /\ counter' = IF next_mask = 0 THEN counter + 1 ELSE counter
    /\ UNCHANGED <<header, body, part, crc>>

\* One pass of the inner loop: data_bit, crc_bit, shift, conditional XOR
ShiftBit ==
    /\ part # "done"
    /\ counter < Len(Data)
    /\ LET data_bit == IF (Data[counter + 1] & shift_register) # 0 THEN 1 ELSE 0
           crc_bit == crc_register \div 32768
           shifted == (crc_register * 2) % 65536
           next_mask == (shift_register * 2) % 256
       IN /\ crc_register' = IF data_bit # crc_bit THEN shifted ^^ polynom ELSE shifted
          /\ shift_register' = IF next_mask = 0 THEN 1 ELSE next_mask
          /\ counter' = IF next_mask = 0 THEN counter + 1 ELSE counter
    /\ UNCHANGED <<header, body, part, crc>>

\* Mutant: the register is not loaded from crc[2], so the chain restarts at 0
EndCall_no_chain ==
    /\ part # "done"
    /\ counter >= Len(Data)
    /\ crc' = Store(crc_register)
    /\ part' = IF part = "header" /\ body # <<>> THEN "body" ELSE "done"
    /\ crc_register' = 0
    /\ counter' = 0
    /\ shift_register' = 1
    /\ UNCHANGED <<header, body>>

\* The loop ends: write crc[2]; se_write then chains over the body if any,
\* and that call starts by loading its register from crc[2]
EndCall ==
    /\ part # "done"
    /\ counter >= Len(Data)
    /\ crc' = Store(crc_register)
    /\ part' = IF part = "header" /\ body # <<>> THEN "body" ELSE "done"
    /\ crc_register' = Load(Store(crc_register))
    /\ counter' = 0
    /\ shift_register' = 1
    /\ UNCHANGED <<header, body>>

Next == ShiftBit \/ EndCall

Spec == Init /\ [][Next]_vars

\* What _send_serialized puts on the bus after the ioflag byte
Frame == header \o body \o crc

-----------------------------------------------------------------------------
(* Reference: the CRC-16 of a message is the remainder of M(x) * x^16    *)
(* divided by G(x) = x^16 + x^15 + x^2 + 1, the first bit sent (bit 0 of *)
(* the first byte) being the highest coefficient of M.  It is computed    *)
(* a byte at a time from a table of remainders, by polynomial long        *)
(* division on 24-bit numbers.                                            *)

G == 98309   \* 0x18005

\* Tbl[i] = i(x) * x^16 mod G(x), dividing from bit 23 down to bit 16
Tbl[i \in 0..255] ==
    LET div[j \in 0..8] ==
            IF j = 0 THEN i * 65536
            ELSE LET v == div[j - 1]
                     b == 24 - j
                 IN IF (v \div 2^b) % 2 = 1 THEN v ^^ (G * 2^(b - 16)) ELSE v
    IN div[8]

\* The byte as a polynomial: bit 0, sent first, is the coefficient of x^7
Rev8(v) ==
    LET bit(k) == (v \div 2^k) % 2
    IN  bit(0) * 128 + bit(1) * 64 + bit(2) * 32 + bit(3) * 16
      + bit(4) * 8 + bit(5) * 4 + bit(6) * 2 + bit(7)

\* rem * x^8 + a * x^16 mod G, one message byte a at a time
RefCrc(bytes) ==
    LET rem[k \in 0..Len(bytes)] ==
            IF k = 0 THEN 0
            ELSE ((rem[k - 1] % 256) * 256)
                   ^^ Tbl[(rem[k - 1] \div 256) ^^ Rev8(bytes[k])]
    IN rem[Len(bytes)]

-----------------------------------------------------------------------------
TypeOK ==
    /\ part \in {"header", "body", "done"}
    /\ crc_register \in 0..65535
    /\ shift_register \in {1, 2, 4, 8, 16, 32, 64, 128}
    /\ crc \in (0..255) \X (0..255)

\* The chip accepts every command frame se_write sends: framed_len counts
\* the bytes from itself to the end, and the last two are, low byte first,
\* the CRC of the others, although se_write computed it in two chained calls.
ChipAcceptsCommand ==
    part = "done" =>
        LET f == Frame IN
        /\ Len(f) = f[1]
        /\ Load(<<f[Len(f) - 1], f[Len(f)]>>) = RefCrc(SubSeq(f, 1, Len(f) - 2))
=============================================================================
