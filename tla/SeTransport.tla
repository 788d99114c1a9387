----------------------------- MODULE SeTransport -----------------------------
(***************************************************************************)
(* The command/response transport of the secure-element driver (se.c,     *)
(* shipped in this repository as src/ports/stm32/boards/Passport/adc.h):  *)
(* se_write, se_read with its retry loop and frame checks, and the power  *)
(* flags of se_wake, se_idle and se_sleep.                                 *)
(*                                                                         *)
(* The host is the single firmware thread.  The chip and the single-wire  *)
(* bus are its environment: the chip executes a received command, its     *)
(* watchdog may put it to sleep at any time while it is awake, and the    *)
(* bus may lose a command, garble it, or corrupt, truncate or extend a    *)
(* response.  A response is abstracted to the number of bytes the host    *)
(* deserialized, whether those bytes start with the chip's frame          *)
(* unaltered, and the value of the first (length) byte; the CRC of a      *)
(* corrupted frame never matches (no 16-bit collision).                   *)
(*                                                                         *)
(* Chip assumptions (the chip is not code of this repository):            *)
(*   a wake pulse wakes the chip from idle or sleep; the IDLE and SLEEP   *)
(*   flags are heard only by an awake chip and clear its IO buffer; on a  *)
(*   TX flag an awake chip that has finished a command sends its          *)
(*   response, and sends it again on every TX flag until a new command,  *)
(*   idle or sleep; a command with a bad CRC is answered with a           *)
(*   communication-error frame.                                            *)
(***************************************************************************)
EXTENDS Integers

CONSTANTS
    Opcodes,      \* the seopcode_t values callers issue
    OP_Info,      \* the opcode whose response has no length/CRC envelope
    RespLen,      \* RespLen[op]: the len callers pass to se_read after op
    Payloads,     \* response bodies of commands that succeeded
    Codes,        \* status codes of a chip's 4-byte error frame
    CommErr,      \* the code a chip answers a garbled command with
    Garbage,      \* bytes that are not what the chip sent
    Junk,         \* numbers of extra bytes a response may carry after it
    MaxRetry,     \* the 100 of se_read's retry loop
    MaxSeq,       \* bound on the number of commands issued
    LossyFlags    \* whether an IDLE or SLEEP flag may go unheard

ASSUME OpcodesAssumption ==
    /\ OP_Info \in Opcodes
    /\ Opcodes \subseteq Nat \ {0}
    /\ RespLen \in [Opcodes -> Nat \ {0}]

ASSUME ValuesAssumption ==
    /\ CommErr \in Codes
    /\ Garbage \notin Payloads \cup Codes
    /\ Junk \subseteq Nat

ASSUME BoundsAssumption ==
    /\ MaxRetry \in Nat
    /\ MaxSeq \in Nat
    /\ LossyFlags \in BOOLEAN

VARIABLES
    hpc,            \* where the host is in an exchange
    current_opcode, \* the static current_opcode of se.c
    seq,            \* number of commands issued so far (history)
    retry,          \* se_read's loop counter
    result,         \* se_read's return value
    dataVal,        \* what se_read copied into the caller's buffer
    dataSeq,        \* the command whose response those bytes are (0: none)
    copied,         \* how many bytes that memcpy wrote
    power,          \* the chip's power state
    chipSt,         \* the chip's IO buffer: no command, executing, answered
    chipSeq,        \* the command the chip holds
    chipLen,        \* the length byte of the chip's response frame
    chipBody        \* the body of the chip's response frame

hostVars == <<hpc, current_opcode, seq, retry, result>>
dataVars == <<dataVal, dataSeq, copied>>
chipVars == <<power, chipSt, chipSeq, chipLen, chipBody>>
vars == <<hostVars, dataVars, chipVars>>

HostStates == {"ready", "sent", "reading", "returned"}
PowerStates == {"asleep", "idle", "awake"}
BufferStates == {"none", "busy", "done"}

\* The length byte se_read expects: msg length + data length + checksum length
Expected == RespLen[current_opcode] + 3

\* The byte counts one se_read_response call can return when asked for L+3
\* bytes: nothing, a short read, a 4-byte frame, or L+3 bytes plus junk.
Counts(L) == {0, 2, 4} \cup {L + 3 + j : j \in Junk}

\* Length bytes a corrupted response may start with
NoiseLens(L) == {4, L + 3, L + 4}

\* The chip drives the bus only when it is awake and has answered
Transmitting == power = "awake" /\ chipSt = "done"

\* What one se_read_response call hands back to se_read
Deliveries ==
    LET L == RespLen[current_opcode] IN
    IF Transmitting
    THEN [n : Counts(L), intact : {TRUE}, b0 : {chipLen}]
           \cup [n : Counts(L) \ {0}, intact : {FALSE}, b0 : NoiseLens(L)]
    ELSE {[n |-> 0, intact |-> FALSE, b0 |-> 0]}

\* Mutant: a check_crc that compares the length byte but not the CRC bytes
check_crc_length_only(d) == d.n % 256 = d.b0

\* check_crc(tmp, actual): the length argument is a uint8_t, so the count
\* is taken mod 256; the CRC matches exactly when the bytes are the chip's.
check_crc(d) == d.intact /\ d.n % 256 = d.b0

\* The outcome of one pass of se_read's loop, in the order of its checks
Verdict(d) ==
    IF d.n < 4 THEN "retry"
    ELSE IF current_opcode = OP_Info THEN "accept"
    ELSE IF d.b0 # Expected THEN (IF d.b0 = 4 THEN "error" ELSE "retry")
    ELSE IF ~check_crc(d) THEN "retry"
    ELSE "accept"

-----------------------------------------------------------------------------
(* ChipLink: the flags of se_wake, se_idle and se_sleep, as action parts.  *)

\* se_wake: a zero byte wakes the chip from idle or sleep
se_wake == power' = "awake"

\* _send_bits(IOFLAG_IDLE): an awake chip pauses its watchdog
FlagIdle ==
    \/ /\ power = "awake"
       /\ power' = "idle"
       /\ chipSt' = "none"
    \/ /\ power # "awake" \/ LossyFlags
       /\ UNCHANGED <<power, chipSt>>

\* _send_bits(IOFLAG_SLEEP): an awake chip goes to sleep
FlagSleep ==
    \/ /\ power = "awake"
       /\ power' = "asleep"
       /\ chipSt' = "none"
    \/ /\ power # "awake" \/ LossyFlags
       /\ UNCHANGED <<power, chipSt>>

-----------------------------------------------------------------------------
Init ==
    /\ hpc = "ready"
    /\ current_opcode = 0
    /\ seq = 0
    /\ retry = MaxRetry
    /\ result = 0
    /\ dataVal = Garbage
    /\ dataSeq = 0
    /\ copied = 0
    /\ power \in {"asleep", "idle"}
    /\ chipSt = "none"
    /\ chipSeq = 0
    /\ chipLen = 0
    /\ chipBody = Garbage

\* se_write: record the opcode, wake the chip, send the framed command.
\* The chip receives it, receives it garbled, or does not see it at all.
SeWrite(op) ==
    /\ hpc = "ready"
    /\ seq < MaxSeq
    /\ current_opcode' = op
    /\ seq' = seq + 1
    /\ hpc' = "sent"
    /\ se_wake
    /\ \/ /\ chipSt' = "busy"
          /\ chipSeq' = seq + 1
          /\ chipLen' = RespLen[op] + 3
          /\ UNCHANGED chipBody
       \/ /\ chipSt' = "done"
          /\ chipSeq' = seq + 1
          /\ chipLen' = 4
          /\ chipBody' = CommErr
       \/ UNCHANGED <<chipSt, chipSeq, chipLen, chipBody>>
    /\ UNCHANGED <<retry, result>>
    /\ UNCHANGED dataVars

\* Mutant: the loop counter starts one too high (retry=101)
ReadStart_off_by_one ==
    /\ hpc = "sent"
    /\ hpc' = "reading"
    /\ retry' = MaxRetry + 1
    /\ UNCHANGED <<current_opcode, seq, result>>
    /\ UNCHANGED dataVars
    /\ UNCHANGED chipVars

\* se_read: entry to the retry loop
ReadStart ==
    /\ hpc = "sent"
    /\ hpc' = "reading"
    /\ retry' = MaxRetry
    /\ UNCHANGED <<current_opcode, seq, result>>
    /\ UNCHANGED dataVars
    /\ UNCHANGED chipVars

\* Mutant: a retry path that skips the loop's decrement
TryAgain_no_decrement == retry' = retry

\* try_again: the loop's retry-- before the next pass
TryAgain == retry' = retry - 1

\* goto try_again: nothing copied, the chip left as it is
RetryPass ==
    /\ TryAgain
    /\ UNCHANGED <<hpc, result>>
    /\ UNCHANGED dataVars
    /\ UNCHANGED chipVars

\* A 4-byte error frame: return -1 at once, without idling the chip
ErrorReturn ==
    /\ hpc' = "returned"
    /\ result' = -1
    /\ UNCHANGED retry
    /\ UNCHANGED dataVars
    /\ UNCHANGED chipVars

\* Mutant: the accept path without its "return 0", falling into try_again
Accept_no_return(d) ==
    /\ dataVal' = IF d.intact THEN chipBody ELSE Garbage
    /\ dataSeq' = IF d.intact THEN chipSeq ELSE 0
    /\ copied' = d.n - 3
    /\ result' = 0
    /\ FlagIdle
    /\ TryAgain
    /\ UNCHANGED hpc
    /\ UNCHANGED <<chipSeq, chipLen, chipBody>>

\* memcpy(data, tmp + 1, actual - 3), _send_bits(IOFLAG_IDLE), return 0
Accept(d) ==
    /\ dataVal' = IF d.intact THEN chipBody ELSE Garbage
    /\ dataSeq' = IF d.intact THEN chipSeq ELSE 0
    /\ copied' = d.n - 3
    /\ hpc' = "returned"
    /\ result' = 0
    /\ FlagIdle
    /\ UNCHANGED retry
    /\ UNCHANGED <<chipSeq, chipLen, chipBody>>

\* One pass of se_read's loop: se_read_response, then the checks
ReadAttempt ==
    /\ hpc = "reading"
    /\ retry >= 0
    /\ \E d \in Deliveries :
         \/ Verdict(d) = "retry" /\ RetryPass
         \/ Verdict(d) = "error" /\ ErrorReturn
         \/ Verdict(d) = "accept" /\ Accept(d)
    /\ UNCHANGED <<current_opcode, seq>>

\* se_read: the retries are used up
ReadRetryOut ==
    /\ hpc = "reading"
    /\ retry < 0
    /\ hpc' = "returned"
    /\ result' = -1
    /\ UNCHANGED <<current_opcode, seq, retry>>
    /\ UNCHANGED dataVars
    /\ UNCHANGED chipVars

\* Mutant: a caller that returns on a failed read before its se_sleep
CallerSleep_skipped ==
    /\ hpc = "returned"
    /\ hpc' = "ready"
    /\ UNCHANGED <<current_opcode, seq, retry, result>>
    /\ UNCHANGED dataVars
    /\ UNCHANGED chipVars

\* Every caller of se_read in se.c calls se_sleep after it
CallerSleep ==
    /\ hpc = "returned"
    /\ hpc' = "ready"
    /\ FlagSleep
    /\ UNCHANGED <<current_opcode, seq, retry, result>>
    /\ UNCHANGED dataVars
    /\ UNCHANGED <<chipSeq, chipLen, chipBody>>

\* se_config_read issues its next block's command after a successful read
CallerNext ==
    /\ hpc = "returned"
    /\ result = 0
    /\ hpc' = "ready"
    /\ UNCHANGED <<current_opcode, seq, retry, result>>
    /\ UNCHANGED dataVars
    /\ UNCHANGED chipVars

\* se_idle and se_keep_alive between exchanges
SeIdle ==
    /\ hpc = "ready"
    /\ FlagIdle
    /\ UNCHANGED hostVars
    /\ UNCHANGED dataVars
    /\ UNCHANGED <<chipSeq, chipLen, chipBody>>

\* se_sleep and se_reset_chip between exchanges
SeSleep ==
    /\ hpc = "ready"
    /\ FlagSleep
    /\ UNCHANGED hostVars
    /\ UNCHANGED dataVars
    /\ UNCHANGED <<chipSeq, chipLen, chipBody>>

\* The chip finishes the command: a response or a 4-byte error frame
ChipExecute ==
    /\ chipSt = "busy"
    /\ power = "awake"
    /\ chipSt' = "done"
    /\ \/ \E p \in Payloads : chipBody' = p /\ UNCHANGED chipLen
       \/ \E c \in Codes : chipBody' = c /\ chipLen' = 4
    /\ UNCHANGED <<power, chipSeq>>
    /\ UNCHANGED hostVars
    /\ UNCHANGED dataVars

\* The chip's watchdog expires while it is awake
ChipWatchdog ==
    /\ power = "awake"
    /\ power' = "asleep"
    /\ chipSt' = "none"
    /\ UNCHANGED <<chipSeq, chipLen, chipBody>>
    /\ UNCHANGED hostVars
    /\ UNCHANGED dataVars

Next ==
    \/ \E op \in Opcodes : SeWrite(op)
    \/ ReadStart
    \/ ReadAttempt
    \/ ReadRetryOut
    \/ CallerSleep
    \/ CallerNext
    \/ SeIdle
    \/ SeSleep
    \/ ChipExecute
    \/ ChipWatchdog

\* The firmware thread busy-waits in se_read until it returns
Fairness ==
    /\ WF_vars(ReadStart)
    /\ WF_vars(ReadAttempt)
    /\ WF_vars(ReadRetryOut)

Spec == Init /\ [][Next]_vars

FairSpec == Spec /\ Fairness

-----------------------------------------------------------------------------
TypeOK ==
    /\ hpc \in HostStates
    /\ current_opcode \in Opcodes \cup {0}
    /\ seq \in 0..MaxSeq
    /\ retry \in -1..MaxRetry
    /\ result \in {0, -1}
    /\ dataVal \in Payloads \cup Codes \cup {Garbage}
    /\ dataSeq \in 0..MaxSeq
    /\ copied \in Int
    /\ power \in PowerStates
    /\ chipSt \in BufferStates
    /\ chipSeq \in 0..MaxSeq
    /\ chipLen \in Nat
    /\ chipBody \in Payloads \cup Codes \cup {Garbage}

\* When se_read returns 0 for a framed (non-Info) command, the bytes it
\* copied are the chip's response to that very command, never a response
\* the chip still held from an earlier command nor corrupted bytes.
ReadReturnsCurrentResponse ==
    (hpc = "returned" /\ result = 0 /\ current_opcode # OP_Info)
        => dataSeq = seq

\* Between exchanges the chip's watchdog is never left running and the chip
\* holds no response: se_read idles it on success and every caller puts it
\* to sleep after a failure.
WatchdogPausedBetweenExchanges ==
    hpc = "ready" => power # "awake" /\ chipSt = "none"

\* se_read copies at most len bytes into the caller's buffer of len bytes.
BoundedCopy ==
    (hpc = "returned" /\ result = 0) => copied <= RespLen[current_opcode]

\* The exchange FrameTransport promises, seen through the host's state:
\* se_write issues, se_read's return answers or fails, the caller releases.
X == INSTANCE Exchange WITH
        xst <- IF hpc \in {"sent", "reading"} THEN "pending" ELSE hpc,
        xop <- current_opcode,
        xseq <- seq,
        xok <- (result = 0),
        xdata <- dataSeq

\* se_write and se_read implement the abstract exchange: every se_read
\* returns once per command, and a 0 return hands over the response to
\* that command (any bytes for OP_Info); retries, flags, the chip and the
\* bus are invisible to the caller.
ImplementsExchange == X!Spec

\* Every se_read returns: the retry loop is bounded whatever the bus does.
ReadTerminates == hpc = "sent" ~> hpc = "returned"
=============================================================================
