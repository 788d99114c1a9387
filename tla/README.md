# Formal models of the Passport secure-element driver

This directory holds TLA+ models of the secure-element driver in
`src/ports/stm32/boards/Passport/adc.h`. The file holds `se.c`: the driver for the
ATECC-style chip on a single-wire, bit-banged bus. It also holds TLC configurations
that model-check those models, and TLAPS proofs about them.

## The system

The driver is a stack of five parts. Data flows upward only.

| Part | Code | What it does |
|---|---|---|
| BitLink | `_send_byte`, `_send_bits`, `_send_serialized`, `_read_byte`, `deserialize`, `_flush_rx`, `se_read_response` | Each bit is one UART byte (a pulse): BIT0 is 0x7d, BIT1 is 0x7f, least significant bit first. A response is read until the UART receiver times out. The count is truncated to whole bytes, then decoded. |
| CRC16Chain | `se_crc16_chain` | Bit-serial CRC-16, polynomial 0x8005, chainable through `crc[2]`. |
| FrameTransport | `se_write`, `se_read`, `se_read1`, `check_crc` | `se_write` frames a command: length, opcode, p1, p2, body and CRC. `se_read` retries up to 101 times on empty, short, mis-length or bad-CRC responses. It returns -1 at once on a 4-byte error frame. It skips all checks for `OP_Info`. It copies `actual - 3` bytes, then idles the chip. |
| ChipLink | `se_wake`, `se_idle`, `se_sleep`, `se_keep_alive`, `se_reset_chip` | The wake pulse, and the IDLE and SLEEP flags that pause or stop the chip's watchdog. They are fire-and-forget. |
| AuthProtocol | `se_pick_nonce`, `se_gendig_slot`, `se_is_correct_tempkey`, `se_checkmac`, `se_checkmac_hard`, `se_pair_unlock`, `se_encrypted_write32`, `se_encrypted_write`, `se_config_read` | Exchanges of the form write, read, then sleep, whose contents are SHA-256 based. |

State shared across calls:

- the static `current_opcode`, set by `se_write` and read by `se_read`;
- the chip's power state, watchdog and IO buffer;
- the diagnostic counters.

The firmware is single-threaded. The concurrency is between the host and its
environment, which is the chip and the bus:

- the chip executes a command while the host polls with TX flags;
- the chip's watchdog can put it to sleep between two polls;
- the bus can lose, garble, corrupt, truncate or extend frames, and can lose a flag.

## Modules

### `SeTransport`: FrameTransport and ChipLink

Host state:

| Variable | Meaning |
|---|---|
| `hpc` | Where the host is: `ready`, then `sent` after `se_write`, `reading` inside `se_read`'s loop, and `returned`. |
| `current_opcode` | The static of the same name. |
| `retry` | The loop counter. |
| `result` | `se_read`'s return value. |
| `dataVal`, `dataSeq`, `copied` | What `memcpy` wrote, which command it answered, and how many bytes. |
| `seq` | History: the number of commands issued. |

Chip state:

| Variable | Meaning |
|---|---|
| `power` | asleep, idle or awake. |
| `chipSt` | The IO buffer: none, busy or done. |
| `chipSeq`, `chipLen`, `chipBody` | The response the chip holds. |

A response is abstracted to the number of bytes `se_read_response` returns,
whether they begin with the chip's frame unaltered, and the first (length) byte.
The CRC of an altered frame is assumed never to match.

Actions:

| Action | Code |
|---|---|
| `SeWrite(op)` | `se_write`. It wakes the chip, and the chip gets the command, gets it garbled, or misses it. |
| `ReadStart` | Entry to `se_read`. |
| `ReadAttempt` | One pass of the loop: `se_read_response`, then the checks in the code's order (`Verdict`). It ends in `RetryPass` (`goto try_again`), `ErrorReturn` (the 4-byte error frame) or `Accept` (`memcpy`, then the IDLE flag). |
| `ReadRetryOut` | The loop exhausted. |
| `CallerSleep` | Every caller's `se_sleep` after a read. |
| `CallerNext` | `se_config_read`'s next block after a successful read. |
| `SeIdle`, `SeSleep` | `se_keep_alive` and `se_reset_chip`. |
| `ChipExecute`, `ChipWatchdog` | The environment: the chip finishing a command, and its watchdog expiring. |

`check_crc` keeps the `uint8_t` width of its length argument (`n % 256`).

What the model assumes of the chip (which is not code of this repository):

- a wake pulse wakes it;
- IDLE and SLEEP are heard only when it is awake, and they clear its IO buffer;
- on each TX flag, an awake chip that has finished a command sends its response, and sends it again on every later TX flag;
- a garbled command is answered with a communication-error frame.

### `BitCodec`: BitLink

The pulse code, the receive loop and `deserialize`, pulse by pulse:

- `ReadPulse` is `_read_byte` returning a pulse. It is counted, and stored while `actual < max_expect`, masked to 7 bits.
- `RxTimeout` is the receiver timeout, then `actual &= ~7`.
- `DeserializeStep` and `DeserializeEnd` are `deserialize`'s loop with its `max_into` break.

The bus may do three things:

- stretch one low pulse by a bit-time: 0x7f becomes 0x7e, and 0x7d becomes 0x7c or 0x79;
- append up to seven stray pulses;
- with `LeadingStray`, put one stray pulse first.

### `Crc16`: CRC16Chain

`se_crc16_chain` one inner-loop pass per step (`ShiftBit`), with the `uint16_t`
register and the `uint8_t` mask. `EndCall` stores `crc[2]`, and `se_write` then
chains the second call over the body.

It is checked against an independent reference. `RefCrc` is the remainder of
M(x)·x^16 modulo x^16+x^15+x^2+1, computed a byte at a time from a table built
by long division on 24-bit numbers.

### `Exchange` and `ExchangeRefinement`: what FrameTransport promises

`Exchange` is the abstract specification of one exchange, as the protocol
functions rely on it. A command is issued (`Issue`) and the read that follows
returns exactly once, either failing (`Fail`, -1) or with the response to that
very command (`Answer`). For `OP_Info`, which has no framing, the response is
any bytes. The caller then releases the chip (`Release`) before the next command.

`SeTransport` instantiates it as `X` with this refinement mapping:

- `hpc` in {sent, reading} maps to pending; otherwise `hpc` maps to itself;
- `current_opcode` maps to `xop`, and `seq` to `xseq`;
- `result = 0` maps to `xok`;
- `dataSeq` maps to `xdata`.

`ImplementsExchange == X!Spec` is a property of the transport run.
`ExchangeRefinement` proves it for all values of the constants when no flag
is lost.

### `SeAuth`: AuthProtocol

`SeAuth` models the protocol functions as one host automaton:

- `call` is the public function that is running: `se_checkmac`, `se_checkmac_hard` or `se_encrypted_write`;
- `pc` is the exchange it is at: `cm_nonce`, `cm_check`, `gd_nonce`, `gd_gendig`, `mac` or `write`;
- `attempt`, `blk` and `left` are the locals of `se_pair_unlock` and `se_encrypted_write`;
- `hostTK` is the tempkey that `se_pick_nonce` computed;
- `digest` is the one that `se_gendig_slot` computed.

One action models each write, read and sleep triple, including the host's
checks of the rc and what the code does next:

| Action | Code |
|---|---|
| `PickNonce` | `se_pick_nonce` |
| `CheckMacX` | `se_checkmac`'s CheckMac, then `se_pair_unlock`'s retry or return (`CheckMacReturns`) |
| `GenDigX` | `se_gendig_slot` |
| `MacX` | `se_is_correct_tempkey` and `se_checkmac_hard`'s -2 |
| `WriteX` | `se_encrypted_write32`'s Write and `se_encrypted_write`'s loop |

The triple is atomic because `ExchangeRefinement` shows what one can return:
the chip's answer to this command, or -1. `Outcomes(c)` lists the results
that follow:

- The chip's answer. A 1-byte `se_read1` also takes the chip's 4-byte error frame as data, so its value is the chip's status byte (adc.h:359). On a 32-byte read, an error frame is -1.
- -1 with TempKey lost, whether or not the chip executed the command. The caller's `se_sleep` is heard, or the watchdog had already fired.
- `COMM_ERR` on a 1-byte read, for a garbled command.
- When `Attacker` holds, anything an active attacker on the bus can substitute: any status byte, and any 32-byte response seen earlier (`seen`).

The chip is modelled from the spec (`Exec`: Nonce, GenDig, MAC, CheckMac and
Write). SHA-256 is a symbolic tuple of its inputs, so two hashes are equal
only when their inputs are.

### `SeService` and `SeAuthRefinement`: what AuthProtocol promises

`SeService` is the abstract specification of the three public calls, as
their callers rely on them. One call runs at a time (`Call`), and it
returns 0, -1 or -2 (`Return`); `se_encrypted_write` never returns -2
(`Codes`). A 0 return keeps the call's promise (`Kept`):

- for `se_checkmac` and `se_checkmac_hard`, the slot holds the secret;
- for `se_encrypted_write`, every block the length covers is in the data slot.

Slots change only while `se_encrypted_write` runs, one block at a time, and a
block is written only after all earlier blocks (`WriteBlock`). A write that
fails may already have written the block it was at, so `Return` may write a
block in the same step. Nonce, GenDig, MAC, the retries of `se_pair_unlock`
and the bus are all invisible at this level.

`SeAuth` instantiates it as `S`. `call`, `arg`, `ret` and `slot` map to
themselves, and `pc # "idle"` maps to `sbusy`. `ImplementsService == S!Spec`
is a property of the honest `seauth` run. `SeAuthRefinement` proves it for
all values of the constants, on an honest bus and for lengths of at most 96.

### Theorems

`SeTransportProofs`, `ExchangeRefinement`, `SeAuthProofs`, `SeAuthAttack`
and `SeAuthRefinement` hold the TLAPS proofs, described below.

## Runs

| Run | cfg | Expect | Shows |
|---|---|---|---|
| transport | `MCSeTransport.cfg` | pass | See below. |
| copy_overflow | `MCSeTransport_copy.cfg` | violation | `BoundedCopy` fails: `se_read` can copy more than `len` bytes. |
| stale_after_lost_flag | `MCSeTransport_lossy.cfg` | violation | With a lost SLEEP flag and a lost command, a 1-byte read accepts the previous command's error frame. |
| bitcodec | `MCBitCodec.cfg` | pass | `DecodeRecoversFrame` and `DeserializeInBounds`. |
| leading_stray | `MCBitCodec_stray.cfg` | violation | A leading stray pulse misaligns every byte. The spec claims it is tolerated. |
| crc16 | `MCCrc16.cfg` | pass | `ChipAcceptsCommand`. |
| seauth | `MCSeAuth.cfg` | pass | `TempKeyAgreement`, `CheckMacHardAuthentic`, `EncryptedWriteComplete` and `ImplementsService` under an honest, lossy bus. |
| seauth_attack | `MCSeAuth_attack.cfg` | pass | `CheckMacHardAuthentic` against an active attacker on the bus. |
| seauth_order | `MCSeAuth_order.cfg` | pass | `WritesInOrder` for a 96-byte `se_encrypted_write` over a lossy bus. |
| seauth_codes | `MCSeAuth_codes.cfg` | violation | `se_checkmac` returns -2, "the chip rejected the secret", after a transport failure (adc.h:705). |
| seauth_long | `MCSeAuth_long.cfg` | violation | `se_encrypted_write(len = 128)` writes three blocks and returns 0 (adc.h:805). |

The transport run checks four properties:

- `ReadReturnsCurrentResponse`: a successful framed read returns the response to the command just sent;
- `WatchdogPausedBetweenExchanges`: the chip is idle or asleep with an empty buffer between exchanges;
- `ReadTerminates`: every read returns;
- `ImplementsExchange`: the transport implements `Exchange` under the mapping `X`. A mutant `Accept` that leaves `hpc` at reading breaks it;
- `TypeOK`.

The bitcodec run shows two things:

- `DecodeRecoversFrame`: frames decode exactly despite a stretched pulse and trailing strays. This is what `(from[i] ^ 0x7F) < 2` and `actual &= ~7` are for.
- `DeserializeInBounds`: `deserialize` never reads past what the receive loop stored.

The crc16 run's `ChipAcceptsCommand` says that every frame `se_write` sends has `framed_len` equal to its length and a correct CRC, low byte first.

The SeAuth runs check these properties:

- `TempKeyAgreement`: whenever the host is about to use its tempkey (CheckMac, GenDig) or its digest (MAC, Write), the chip's TempKey is the one the host computed. This is what makes every later hash match. It fails if a 1-byte error frame read as data, or a retry, can leave them out of step.
- `CheckMacHardAuthentic`: `se_checkmac_hard` returns 0 only when the chip's slot holds the secret it was given. Under the attacker this rests on `numin` being fresh. With a repeating RNG (`NumIn_stale`), TLC finds a replay: a MAC recorded before an encrypted write changed the slot is passed off for the old secret.
- `EncryptedWriteComplete`: when `se_encrypted_write` returns 0, every block of its `len` bytes is in the data slot.
- `ImplementsService` (run `seauth`): the three calls implement `SeService`. Besides the two properties above, this adds two promises. First, `se_checkmac` returns 0 only when the slot holds the secret. Second, no call other than a running write changes a slot. Its mutant makes `se_checkmac` test `rc < 0`, as the callers of `se_pick_nonce` do, so the chip's positive CHECKMAC_FAIL is taken for a match. Under the attacker the property fails, and TLC shows it at once: a forged CheckMac status makes `se_checkmac` return 0 for a wrong secret. That is why `se_checkmac_hard` checks the chip's MAC.
- `WritesInOrder` (action property, run `seauth_order`): every step that changes the data slot writes the caller's block at the current index, and all earlier blocks are already there. So when a lost answer makes `se_encrypted_write` return -1 (adc.h:788), the slot holds an in-order prefix of the data. This run has only this property, with `Lens` = {96}. Its mutant ignores `se_encrypted_write32`'s result and keeps looping, and that mutant also breaks `EncryptedWriteComplete` on the same step. In the `seauth` run, TLC would report the invariant first.

Every property of a passing run has a mutant in `PROJECT.json`: a plausible bug in
the mapped code that TLC shows breaks it. Examples:

- `deserialize`'s `#else` exact-match branch;
- a `check_crc` that ignores the CRC bytes;
- a retry path without the decrement;
- a caller that skips `se_sleep`;
- a CRC chain that does not reload `crc[2]`;
- a count handed to `deserialize` untruncated.

### Bounds

`SeTransport` uses these bounds:

| Constant | Value | Why |
|---|---|---|
| Opcodes | Read (32 bytes), GenDig (1-byte read) and Info (4 bytes) | These cover the three shapes of read: framed, framed 1-byte (where an error frame has the expected length), and unframed. |
| `MaxRetry` | 2, instead of 100 | This allows three passes, enough for a retry before success, a watchdog expiry mid-loop, and exhaustion. |
| `MaxSeq` | 3 | This allows a stale response to meet a later command. |
| `Junk` | {0, 1, 256} | This gives exact responses, a response with one extra byte, and a response with 256 extra bytes, the first count that wraps `uint8_t`. |

For BitCodec, frames are of 1 to 3 bytes and `max_len` is 1 or 2, so frames both
shorter and longer than `max_len + 1` occur. For Crc16, bodies are empty, of one
byte or of two bytes, with p2 both below and above 255.

For SeAuth, there are three slots: pairing, write key and data. Blocks hold one
of two values, and there are two secrets (right and wrong) for each key.

- In the honest run, `Lens` is {40, 96}. So both a partial last block and the full three-block write occur, each with losses in every exchange. `MaxRng` = 6 bounds the Nonce commands. That is enough for a three-block write with no losses, or a two-block write with a retry.
- The attacker run has `Lens` = {32} and `MaxRng` = 4. That is enough for a MAC to be recorded, the slot to change, and a later `se_checkmac_hard` to meet the replay. It explores about 630,000 states.
- The violation runs use the smallest bounds that reach their traces.

### Fairness

Only the host's read loop is fair: `WF` of `ReadStart`, `ReadAttempt` and
`ReadRetryOut`. The firmware thread busy-waits inside `se_read` until it returns,
and nothing preempts it. The chip and the bus get no fairness. `ReadTerminates`
holds even if the chip never answers, because the loop is bounded.

## Proofs

`SeTransportProofs` proves three theorems for all values of the constants. The
constants are constrained only by `OpcodesAssumption`, `ValuesAssumption` and
`BoundsAssumption`.

- `TypeCorrect`: `Spec => []TypeOK`. It goes through `TypeInv`, which adds that `current_opcode` is an opcode whenever an exchange is under way.
- `ResponseIntegrity`: `~LossyFlags => (Spec => [](ReadReturnsCurrentResponse /\ WatchdogPausedBetweenExchanges))`.
- `WatchdogPaused`: `~LossyFlags => (Spec => []WatchdogPausedBetweenExchanges)`. It follows from `ResponseIntegrity` by temporal logic.

`ResponseIntegrity` is not inductive as stated. The inductive invariant `IInv`
(checked by TLC before it was proved) adds three facts about the chip's buffer:

- a buffer is held only while the chip is awake;
- a held buffer always answers the latest command (`chipSeq = seq`);
- after a successful read the chip is quiet.

Together these rule out the stale response: when `se_write` issues command
`seq+1`, the chip either takes it or was already quiet, so any response seen later
belongs to `seq+1`.

The lemmas are:

- `DeliveryType`: what one `se_read_response` can return;
- `AcceptedFrame`: an accepted framed response is the chip's own, by way of `check_crc`;
- `FlagsQuiet`: a heard IDLE or SLEEP flag quiets the chip.

The proof of `IInvNext` has one step per action.

`ExchangeRefinement` proves `TransportRefinesExchange`:
`~LossyFlags => (Spec => ImplementsExchange)`. The argument has three parts:

- `InitMaps`: the initial states map to initial states.
- `StepMaps`: under `IInv` in both states, each action maps to an abstract step or a stutter. `SeWrite` is `Issue`. An accepted read is `Answer`; its data is the current command's by `ReadReturnsCurrentResponse`. An error or a retry-out is `Fail`. The caller's sleep or next call is `Release`. Chip, flag and retry steps are stutters.
- `PTL` combines these with `Spec => []IInv`.

`SeAuthProofs` proves four theorems for all slots, secrets, data and lengths
allowed by `AuthAssumption`:

- `AuthTypeCorrect`: `Spec => []TypeOK`, with or without an attacker.
- `HonestAuthentication`: `~Attacker => (Spec => [](TempKeyAgreement /\ CheckMacHardAuthentic))`.
- `EncryptedWriteCompleteness`: `~Attacker /\ Lens \subseteq 1..96 => (Spec => []EncryptedWriteComplete)`.
- `WritesOrdered`: `~Attacker => (Spec => WritesInOrder)`.

None of these properties is inductive as stated.

- `TypeInv` adds which function can be at which `pc`.
- `KeysHeld` adds that at `mac` and `write` the host's digest is the GenDig hash of `arg.secret`, and the chip's TempKey is that of the slot's real contents, over the same nonce. So the MAC compare in `MacX` succeeds only if slot and secret agree.
- `WriteProgress` adds the state of the write loop while it runs: `left = len - 32*blk > 0`, and blocks `0..blk-1` are already in the slot.
- `PInv == TypeInv /\ WriteProgress` is inductive for every length in `1..128`. `WInv` adds `EncryptedWriteComplete` and needs `Lens \subseteq 1..96`. `WritesOrdered` rests on `PInv` alone, so it holds for lengths beyond 96 too.
- `OrderStep` turns `PInv` into the action property. Only an honest Write changes a slot (`OnlyWriteWrites`, `HonestWrite`), and it writes `arg.data[blk]` over a slot that already holds blocks `0..blk-1`.

The lemmas are:

- `OutcomeShape` and `OutcomeType`: the shape and type of an exchange's outcome;
- `HonestOutcome`: without an attacker, an rc of 0 comes from the chip;
- `ReturnFacts` and `CheckMacReturnsFacts`: what a return and `se_pair_unlock`'s retry leave;
- `OnlyWriteWrites`: no command other than Write changes a slot;
- `LastBlock`: when the loop exits, it has covered `len`.

`SeAuthAttack` proves `AttackerAuthentication`: `Spec => []CheckMacHardAuthentic`.
It makes no assumption on `Attacker`, so the attacker may forge any status byte and
replay any response in `seen`. The inductive invariant is `AInv`, which TLC checked
on the attack instance before it was proved. It adds two facts:

- `Fresh`: every nonce in the chip's TempKey, and in every MAC in `seen`, was drawn from the RNG before the current one. A MAC recorded during the current `se_checkmac_hard` may use the current nonce (`Horizon`).
- `ThisCall`: between GenDig and MAC, the host's tempkey and digest are over the current nonce. If the chip's TempKey is a GenDig over that nonce, it hashes the slot's real contents.

In `MacX`, the expected MAC is over the current nonce, so by `Fresh` it is not in `seen`. An accepted MAC is therefore the chip's own. It then equals the chip's TempKey, which by `ThisCall` hashes the real slot, and the compare holds only if slot and secret agree.

The lemmas are:

- `NonceOldMono` and `MacOldMono`: freshness survives the RNG advancing;
- `AttackOutcome`: what an attacker's outcome can carry;
- `SeenGrows`: what each step adds to `seen`.

`TempKeyAgreement` does not hold under the attacker, who can leave host and chip out of step, so it is proved only for the honest bus.

`SeAuthRefinement` proves `AuthRefinesService`:
`~Attacker /\ Lens \subseteq 1..96 => (Spec => ImplementsService)`. It
rests on `RInv == IInv /\ WInv`, the two inductive invariants above. The
argument has three parts:

- `InitMaps`: the initial state maps to `SeService`'s initial state.
- `StepMaps`: under `RInv` in both states, each step maps to an abstract step or a stutter. A step from an idle `pc` is `Call`. A step inside a call keeps `call`, `arg` and `ret` (`RunningFacts`); it is a stutter, or `Write` when it changes a slot. A step to an idle `pc` is `Return`. Its promise comes from `CheckMacHardAuthentic'` and `EncryptedWriteComplete'`, and, for `se_checkmac`, from the chip's own CheckMac verdict over the agreed TempKey (`ReturningFacts`, `CheckMacAccepts`).
- `PTL` combines these with `Spec => []RInv`.

The lemma `WriteMaps` turns `OrderStep` into `WriteBlock`. A slot changes only at `pc = "write"` (`WriterIsWrite`). `WriteProgress` puts `blk` within the blocks the length covers.

These stay with TLC:

- `ReadTerminates`: liveness and fairness are beyond TLAPS here;
- the BitCodec and Crc16 equivalences, which are statements about recursive computations over all inputs, so TLC checks them on bounded inputs;
- `ImplementsService` under the attacker, which does not hold there (see above);
- every violation run.

## Not modelled

- The byte layout of the hashed messages (`od`, `fixed`, mode bits, serial number). SHA-256 is symbolic, so any two hashes over different inputs differ.
- SysTick timing of `_send_byte`, `_read_byte`, `_flush_rx` and `se_wake`'s delay. A command the chip misses is one of `SeWrite`'s outcomes instead.
- Diagnostic counters and `se_dump_stats`, which are write-only.
- `se_setup`'s register initialisation.
- SHA-256, the RNG, secret storage and the UI, which are external collaborators.

## Plan for later work

1. Compose `SeAuth` with the detailed `SeTransport`, replacing each atomic triple by the transport's own actions, to check the error-frame-as-data path step by step.
2. Liveness for `SeAuth`: every call returns, under weak fairness of the host's actions.
