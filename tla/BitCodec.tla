------------------------------ MODULE BitCodec ------------------------------
(***************************************************************************)
(* BitLink: the pulse encoding of one byte (_send_bits), and the receive  *)
(* half of se_read_response: the _read_byte loop that counts and buffers  *)
(* pulses until the bus goes quiet, the truncation "actual &= ~7", and    *)
(* deserialize, which turns groups of 8 pulses back into bytes.           *)
(*                                                                         *)
(* The chip encodes its frame with the same pulse code the host uses.     *)
(* The bus may stretch one low pulse by a bit-time, append up to seven    *)
(* stray pulses at the end and, when LeadingStray holds, put one stray    *)
(* pulse in front of the frame.                                           *)
(***************************************************************************)
EXTENDS Integers, Sequences, SequencesExt, Bitwise

CONSTANTS
    Frames,        \* byte sequences the chip may send
    MaxLens,       \* max_len values se_read passes (len + 3)
    TrailLens,     \* numbers of stray pulses after the frame
    LeadingStray   \* whether a stray pulse may precede the frame

ASSUME CodecAssumption ==
    /\ \A f \in Frames : f \in Seq(0..255) /\ Len(f) > 0
    /\ MaxLens \subseteq Nat \ {0}
    /\ TrailLens \subseteq 0..7
    /\ LeadingStray \in BOOLEAN

VARIABLES
    frame,    \* what the chip sent
    maxLen,   \* se_read_response's max_len
    wire,     \* pulses still to arrive
    raw,      \* the raw[max_expect] buffer, as far as written
    actual,   \* pulses counted, later truncated
    pc,       \* "recv", "deser" or "done"
    from,     \* deserialize: pulses already consumed
    fromLen,  \* deserialize: from_len
    into,     \* deserialize: the bytes written into buf
    maxInto   \* deserialize: max_into

vars == <<frame, maxLen, wire, raw, actual, pc, from, fromLen, into, maxInto>>

BIT0 == 125   \* 0x7d
BIT1 == 127   \* 0x7f

\* _send_bits(tx): one pulse per bit, least significant bit first
SendBits(tx) == [i \in 1..8 |-> IF (tx & 2^(i - 1)) # 0 THEN BIT1 ELSE BIT0]

\* _send_serialized(buf, len)
SendSerialized(buf) == FlattenSeq([k \in 1..Len(buf) |-> SendBits(buf[k])])

\* A low pulse held one bit-time too long, as the 7-bit UART samples it
Stretched(p) == IF p = BIT1 THEN {126} ELSE {124, 121}

\* The pulse sequences that can arrive for a frame
Wires(f) ==
    LET s == SendSerialized(f)
        glitched == {s} \cup
            UNION {{[s EXCEPT ![i] = q] : q \in Stretched(s[i])} : i \in 1..Len(s)}
        lead == IF LeadingStray THEN {<<>>, <<BIT1>>} ELSE {<<>>}
    IN {l \o g \o [j \in 1..t |-> BIT1] : l \in lead, g \in glitched, t \in TrailLens}

\* Mutant: the "#else" branch of deserialize, a pulse is 1 only if it is BIT1
IsOne_exact(p) == p = BIT1

\* deserialize's bit test: (from[i] ^ 0x7F) < 2
IsOne(p) == (p ^^ 127) < 2

\* The byte deserialize builds from the 8 pulses after position k of raw
\* (a pulse past what the receive loop stored reads as 0 here)
DecodeAt(k) ==
    LET pulse(i) == IF k + i <= Len(raw) THEN raw[k + i] ELSE 0
        rv[i \in 0..8] == IF i = 0 THEN 0
                          ELSE rv[i - 1] + (IF IsOne(pulse(i)) THEN 2^(i - 1) ELSE 0)
    IN rv[8]

MaxExpect == (maxLen + 1) * 8

Init ==
    /\ frame \in Frames
    /\ maxLen \in MaxLens
    /\ wire \in Wires(frame)
    /\ raw = <<>>
    /\ actual = 0
    /\ pc = "recv"
    /\ from = 0
    /\ fromLen = 0
    /\ into = <<>>
    /\ maxInto = 0

\* _read_byte returns a pulse: count it, keep it while the buffer has room
ReadPulse ==
    /\ pc = "recv"
    /\ wire # <<>>
    /\ raw' = IF actual < MaxExpect THEN Append(raw, Head(wire) % 128) ELSE raw
    /\ actual' = actual + 1
    /\ wire' = Tail(wire)
    /\ UNCHANGED <<frame, maxLen, pc, from, fromLen, into, maxInto>>

\* Mutant: the count is handed to deserialize without "actual &= ~7"
RxTimeout_no_truncate ==
    /\ pc = "recv"
    /\ wire = <<>>
    /\ pc' = "deser"
    /\ from' = 0
    /\ fromLen' = actual
    /\ maxInto' = maxLen
    /\ UNCHANGED <<frame, maxLen, wire, raw, actual, into>>

\* _read_byte times out: actual &= ~7, then deserialize(raw, actual, buf, max_len)
RxTimeout ==
    /\ pc = "recv"
    /\ wire = <<>>
    /\ actual' = actual - (actual % 8)
    /\ pc' = "deser"
    /\ from' = 0
    /\ fromLen' = actual - (actual % 8)
    /\ maxInto' = maxLen
    /\ UNCHANGED <<frame, maxLen, wire, raw, into>>

\* One pass of deserialize's loop
DeserializeStep ==
    /\ pc = "deser"
    /\ fromLen > 0
    /\ into' = Append(into, DecodeAt(from))
    /\ from' = from + 8
    /\ fromLen' = fromLen - 8
    /\ maxInto' = maxInto - 1
    /\ pc' = IF maxInto - 1 <= 0 THEN "done" ELSE "deser"
    /\ UNCHANGED <<frame, maxLen, wire, raw, actual>>

\* deserialize runs out of input
DeserializeEnd ==
    /\ pc = "deser"
    /\ fromLen <= 0
    /\ pc' = "done"
    /\ UNCHANGED <<frame, maxLen, wire, raw, actual, from, fromLen, into, maxInto>>

Next == ReadPulse \/ RxTimeout \/ DeserializeStep \/ DeserializeEnd

Spec == Init /\ [][Next]_vars

\* se_read_response's return value, actual / 8
Returned == actual \div 8

-----------------------------------------------------------------------------
\* Whatever stretched pulse and trailing strays the bus adds, se_read_response
\* hands back the first max_len bytes the chip sent and counts all of them.
DecodeRecoversFrame ==
    pc = "done" =>
        /\ into = SubSeq(frame, 1, IF Len(frame) < maxLen THEN Len(frame) ELSE maxLen)
        /\ Returned = Len(frame)

\* deserialize, called with every counted pulse as from_len, never reads a
\* pulse of raw[] that the receive loop did not store.
DeserializeInBounds ==
    (pc = "deser" /\ fromLen > 0) => from + 8 <= Len(raw)
=============================================================================
