# Verification of L-CORE

L-CORE (LoRa protoCole fOr wiReless static mEsh operation) is a small protocol stack for
ESP32 boards with a LoRa radio: confirmed, encrypted messages between devices, carried over
a static mesh. This directory holds TLA+ models of it, the TLC configurations that check
them on small networks, and proofs, checked by TLAPS, of what holds for every network.

Paths below are relative to `src/platformIO/`.

## 1. The system

### Components

| component | files | state | operations | correct when |
|---|---|---|---|---|
| Transport | `lib/lora/loraTransport.h` | `new_frame_queue`, `response_queue`, the locals of a running `_send`, `_wait_start`, `_crc`, `_stop_listening` | `send_with_ack`, `_send`, `_listen`, `try_receive`, `start_radio`, `stop_radio` | messages reach the receiver's queue at most once and in order; `true` means delivered; every call returns; a good medium means success |
| Encryption | `lib/lora/loraEncryption.h` | `send_tokens`, `recv_tokens`, `enc_buf` | `init`, `encrypt`, `decrypt`, `_validate_token`, `get_next_recv_token`, `swap_token` (`set_send_token` is never called) | a token is accepted once; two devices that disagree on a token come to agree; the two tasks do not disturb each other's bytes |
| Routing | `lib/lora/loraRouting.h`, `params/user_params.h` | `routing_table` (constant), the TTL inside a frame | `send`, `try_receive`, `_forward` | a frame reaches its destination when tables lead there within the TTL; no frame circulates for ever |
| Radio | `lib/lora/loraRadio.h`, `params/hardware.h` | `is_sending`, the chip's packet buffer | `init`, `try_receive_bytes`, `send_bytes` | the chip is not read while it sends |
| Cipher | `lib/aes/Cipher.cpp` | the key | `encryptBytes`, `decryptBytes`, String helpers | decrypting gives back what was encrypted, for every length a frame may have |
| Frame layout | `lib/lora/params/frame_spec.h` | none | none | |
| Example | `src/LoRaExample.cpp` | none | `setup`, `send`, `receive`, `loop` | |
| mbedtls | `lib/aes/include`, `lib/aes/library` | vendored | | |

External: the `LoRa` and `CRC8` libraries, FreeRTOS queues and tasks, `millis`.

### How they interact

Every device has two tasks, each on its own core. The **user's task** calls `send_with_ack`:
`encrypt` steps the send token of the destination and writes token and message, encrypted,
into a frame; `_send` adds type and checksum and hands it to `Routing::send`, which hands it
to the radio; then `_send` polls `response_queue` for up to `RESPONSE_TIMEOUT_MS`. The
**listener's task**, `_listen`, takes a frame off the radio through `Routing::try_receive`
(which may instead forward it), and

- asks for it again (RESEND) when its checksum is wrong, whatever it was;
- puts it into `response_queue` when it is an ACK, ERROR, RESEND or SYNC;
- otherwise decrypts it; when `_validate_token` refuses its token, it answers SYNC|RESEND
  with the token it would accept;
- otherwise puts it into `new_frame_queue`, answers ERROR if that is full, and then ACK.

The user's task reads `new_frame_queue` with `try_receive`. The waiting `_send` ends on ACK
(`true`), on ERROR (`false`) and on the timeout (`false`); on SYNC it encrypts the message
again with the token it was sent and makes that its send token (`swap_token`); on RESEND it
transmits once more through a nested `_send` that waits anew but may not resend again.

### What is hard

- The two tasks share two queues, `enc_buf`, `_crc`, the radio and the token tables.
- Frames are lost, damaged and delayed past the timeout, and an answer carries nothing that
  tells which message it answers.
- Messages are resent with new tokens while older copies are under way.
- Counters wrap, queues fill, devices restart and forget everything; the listener is stopped
  and started by one flag that it clears itself.
- Everyone in reach hears every hop of a forwarded frame, and no checksum covers its addresses.
- A damaged answer is answered by RESEND, and a damaged RESEND by another: two listeners may
  keep answering each other for as long as the noise lasts.

The hazards, each with the line where it bites and the properties that watch it, are listed
in `PROJECT.json`.

## 2. Modules

| module | what it models |
|---|---|
| `LoraToken` | token arithmetic: the step modulo `TOKEN_MAX`, the `uint32_t` difference, the threshold test |
| `LoraFrame` | frames: end addresses, flags, token, checksum verdict; how `_send` builds them and `_listen` classifies them |
| `LoraTransport` | the protocol: both tasks of every device, the medium, restarts; its properties |
| `LoraTransportInv` | the inductive invariants behind `InOrder`, the two properties of ACKs, `TokensAgree`, `TimelySuccess` and `TimelyDelivery`; the bound on what two devices have under way |
| `LoraTransportProofs`, `LoraAckProofs`, `LoraTimelyProofs` | the theorems about all of these and their proofs: order, tokens and waits; ACKs and agreement; the bound, and the two exact results on a good medium |
| `LoraService`, `LoraTransportService`, `LoraServiceProofs` | what the transport promises its user, abstractly; the refinement mapping from `LoraTransport`, and its proof |
| `MCLoraTransport` | small networks for TLC, and the claims of comments that the code does not keep |
| `LoraRouting`, `LoraLine` | addressing, overhearing, forwarding and the TTL over any static tables; the lossy line per pair of devices that `LoraTransport` takes the network for |
| `LoraRoutingProofs` | proofs: the TTL, that `LoraRouting` refines `LoraLine`, and that nothing is lost where no transmission is |
| `MCLoraRouting` | the tables of `user_params.h`, and tables with a loop |
| `LoraDevice`, `LoraDeviceProofs`, `MCLoraDevice` | the two tasks of one device over `enc_buf`, `_crc` and `is_sending`; proofs; instances, and a claim that two tasks do not keep |
| `LoraCipher` | what `Cipher.cpp` does to sizes |
| `LoraCall`, `LoraCallProofs` | the sizes of a message through `encrypt`, `swap_token` and `decrypt`, and the clock of the loop of `_send`; proofs |
| `LoraLifecycle`, `LoraLifecycleProofs` | `start_radio`, `stop_radio` and the listener's exit; proofs |

The composition is by refinement: `LoraRouting` implements `LoraLine`, which is the medium of
`LoraTransport`, which implements `LoraService`. `LoraDevice`, `LoraCall` and
`LoraLifecycle` each open one thing that `LoraTransport` takes as one step or leaves out.
Definitions whose comment begins with "Broken on purpose" are plausible bugs; nothing uses
them but the tests of the properties.

### LoraTransport

| variable | code |
|---|---|
| `send_tokens`, `recv_tokens` | the tables of `Encryption`, one row per device |
| `call` | the locals of `send_with_ack` and `_send`: destination, encrypted message (its token), `allow_resend`, and the ticks left of `_wait_start + RESPONSE_TIMEOUT_MS`; `phase` is where the user's task is |
| `response_queue`, `new_frame_queue` | the two FreeRTOS queues, capacity `QUEUE_LEN` |
| `replies` | the answers the listener has decided on within one turn of its loop and not yet transmitted (ERROR and ACK are two transmissions) |
| `air` | frames on their way, a line per ordered pair of devices |
| `calls`, `accepted`, `dropped`, `confirmed`, `reboots`, `call.clean` | history, read by no action except as bounds |

A message is the number of the call that sent it. The code does not transmit such a number
(`FRAME_POS_ID` is never written) and no action compares one: it exists for the properties.

| action | code |
|---|---|
| `SendWithAck` | `send_with_ack` up to the loop of `_send` |
| `GotForeign`, `GotAck`, `GotError`, `GotResend`, `GotLateRequest` | one successful `xQueueReceive` of that loop, by what was received |
| `Tick`, `ResponseTimeout` | the clock, and the exit of the loop |
| `TryReceive` | `try_receive` finding a message |
| `ListenBadCrc`, `ListenResponse`, `ListenBadToken`, `ListenNewMsg`, `ListenQueueFull` | one turn of `_listen` per kind of frame |
| `TransmitReply` | the `_send` of an answer |
| `Reboot` | loss of power, then `Encryption::init` and `start_radio` |

Decisions worth knowing:

- The **medium** is what lies between `Routing::send` of one end and `Routing::try_receive`
  of the other: a first-in first-out line of at most `AirCap` frames. That frames neither
  overtake each other nor arrive twice is not assumed lightly: it is what `LoraRouting`
  is shown to implement. They may vanish (noise, a busy radio, an expired TTL) or change
  (`Fault`). A damaged frame fails its checksum. Damage to the bytes that the checksum skips
  is in `LoraRouting`; undetected damage to the others is not modelled.
- A queue being full is decided when `xQueueSend` gives up after 10 ticks. That the reader
  makes room in that time is the same as the listener being scheduled later, so it needs no
  action. With `Prompt` the waiting call, which polls without pause, always makes room.
- `Prompt` says that the timeout outlasts any answer: the clock ticks only when nothing is
  under way. Only `TimelySuccess` and `TimelyDelivery` need it (and the two findings about a
  good medium use it, so that delay plays no part in them).
- `response_queue` is only read while a call waits, so late answers stay in it, as in the
  code.

### LoraService

A call is issued, its message passes the destination's check at most once, in order, and is
delivered or discarded, and the call returns; a success needs a message of that pair that has
passed and has not yet paid for another success. It does not say that the success belongs to the call's own
message, because that is false (findings 1 and 2). The mapping in `LoraTransportService`:
`issued` is `calls`, `pending` the waiting calls, `delivered` and `discarded` are `accepted` and
`dropped`, and `Forgetful` are the devices that may restart.

### LoraRouting

| variable | code |
|---|---|
| `routing_table` | the array of the same name, never written |
| `radio` | the unread packet in the chip of each device |
| `held` | the frame that `_forward` has in hand during its delay and transmission |
| `damages` | counts damaged transmissions, against `MaxDamage` |
| `sent`, `received`, `clear` | history: what was sent, what reached the transport layer with the addresses it was sent with, and whether every transmission so far was taken in, whole, by its next hop |

| action | code |
|---|---|
| `Send` | `Routing::send`, by either task, also between the listener's steps |
| `Overhear`, `Receive`, `BadAddress`, `Expire`, `Forward` | the outcomes of `Routing::try_receive` |
| `Relay` | the transmission at the end of `_forward` |

Any device whose chip has no unread packet may hear a transmission, the next hop or another, and
any may miss it, which covers distance, loss and busy radios at once; the sender may lose a
packet that its own chip holds. Some hearers may hear another next hop or destination than was
sent, also a value that is no address (`Stray`). The sender's address and the TTL, which the
checksum skips as well, are left intact: nothing in routing reads the one, and the other, if
damaged, bounds the forwardings by 255 instead of `INIT_TTL`. `Frame` carries history: its
number, the forwardings it has had, and whether its addresses are still `intact`.

### LoraDevice

Each step is what one task does between two points at which the other may come in; `task[t]`
holds the place of task *t* and its locals.

| action | code |
|---|---|
| `FeedCrc`, `GetCrc`, `BeginPacket`, `EndPacket` | `_send` to `Radio::send_bytes`, of either task |
| `Encrypt`, `PutBody`, `CipherOut` | the three accesses of `encrypt` to `enc_buf` |
| `GotAck`, `Timeout`, `GotResend`, `GotSync`, `SwapToken` | the loop of `_send`, with the first and the last write of `swap_token`; `CipherOut` follows |
| `Poll`, `ParsePacket` | `try_receive_bytes`: the flag, and later the chip |
| `BadCrc`, `Enqueue`, `Decrypt` | `_listen` after the checksum; `Decrypt` writes the block with the token |
| `DecryptRest`, `ReadSize` | the rest of `decryptBytes`, of either task: the other blocks, and the padding byte read back from `enc_buf` |
| `AcceptToken`, `RefuseToken`, `Copy` | the rest of `decrypt`: the token read back from `enc_buf`, and the message; for an empty message `Copy` alone, with no token checked |
| `Arrive` | the peer's frame, good or damaged |

`met[t]` is history: where the other task has come between two steps of *t*: it wrote to
`enc_buf` while *t* had something there to read back, fed `_crc` before *t* had read it, or began
to send after the listener had looked at `is_sending`, or sent at the same time.

A message is taken to be longer than one block, the worst case: the token, in the first block, and
the padding byte, in the last, can then be disturbed apart from each other. While the last block
is the one that was written, the size read back is right; otherwise it may be anything,
also zero. `swap_token` encrypts as many bytes as that says (`Enciphered`), so a wrong size may cut the message
or its token off. (What a size beyond the buffer does is not modelled: `encryptBytes` would run past its
arguments.) Encryption itself is a bijection and left out; a checksum is the contents the object was fed with, or
`Mixed`, the checksum of nothing, when two tasks have fed it at once. The one peer sends any frame
of its `peer` kinds at any time.

### LoraCall, LoraLifecycle

`LoraCall` follows one call after another through the numbers in it. Of the message it keeps the
size as given, the size as `_send` keeps it and the padding byte: `Send` encrypts, `GotSync` swaps
the token, `Decrypt` is the receiver's, at any later time. Of the time it has the true `now`, of
which the code sees `now % UINT32`, and `_wait_start`; the loop's condition is `Waits`, with the
difference modulo `UINT64`, and the first request to resend starts a wait of its own (`Resend`).

`LoraLifecycle` has the flag, one task per start (its loop test, the turn, its exit) and the
number of unread messages. Starts and stops come in any order, as in the code, which checks nothing
in either. What is remembered of them is history: `wanted`, whether the last call was a start;
`stray`, whether since the last start a stop came when there was no task to obey it; and `untimely`, whether the
last start came before the last task had ended or after a stray stop.

## 3. Properties

| property | meaning |
|---|---|
| `LoraTransport` | |
| `TypeOK` | shapes; the queues stay within `QUEUE_LEN`, the listener owes at most two answers |
| `InOrder` | a device that keeps its memory queues the messages of another in the order of their calls, none twice |
| `AckGenuine` | a call that began with nothing of an earlier call left over returns `true` only if its message passed the token check |
| `AcksConserved` | no more calls return `true` than messages passed the token check |
| `TimelySuccess` | on a lossless, prompt medium a clean call fails only for a full queue at its destination or an exhausted receive counter |
| `TimelyDelivery` | on the same medium a clean call succeeds only if its message was queued for the user of its destination, although a message without room is acknowledged too |
| `LockedOut` | a receive counter at `TOKEN_MAX - 1` lets no message of its sender through, and stays, until its device restarts |
| `FewFrames` | what two devices have under way between them is paid for by their calls, three frames each: damaged and double answers start no storm |
| `TokensAgree` | after a clean call that succeeded, the sender goes on from the token that its destination remembers, so no later call needs a SYNC |
| `RecvTokenGrows` | a receive counter never goes down |
| `WaitBounded` | a call never gains time beyond its two timeouts |
| `SendReturns` | every call returns |
| `IInv`, `AckInv`, `AgreeInv`, `TimelyInv`, `DeliveryInv` | the inductive invariants behind `InOrder`, behind `AckGenuine` and `AcksConserved`, behind `TokensAgree`, behind `TimelySuccess`, and behind `TimelyDelivery` |
| `ImplementsService`, `KeepsPromises` | `LoraTransport` implements `LoraService`, without and with its liveness |
| `LoraRouting` | |
| `ImplementsLine` | per pair of devices, what arrives with the addresses it was sent with arrives once, in order, where it was sent |
| `AllArrive` | as long as no transmission has missed its next hop, everything that the tables lead to its destination within the TTL has arrived, once and in order, when the network is silent |
| `HopsBounded` | no frame is forwarded more than `INIT_TTL` times, whatever the tables and the damage |
| `FallsSilent` | no frame circulates for ever |
| `LoraDevice` | |
| `VerdictRight` | `decrypt` accepts a frame only for its own token, which the counter then is, and takes none for empty, unless the tasks met in `enc_buf` |
| `SentAsGiven` | what is transmitted, first or again, is the user's message with the token in use, unless they met |
| `ChecksumRight` | frames leave with their checksum and are compared with their own, unless the tasks met in `_crc` |
| `ListensAlone` | the chip is read while it sends only when the sending began after the look at the flag, or both tasks were sending at once |
| `ReceiveCounterGrows` | the counter never goes back, whatever the tasks do to the buffer |
| `LoraCall` | |
| `RoundTrip` | every size comes back, never as the empty message that skips the token check |
| `SwapKeepsSize` | the size that `_send` keeps is right after a swap, and fits the buffers |
| `WaitAtMost`, `EarlyOnlyAtWrap` | no wait outlasts the timeout; only one across a wrap ends early |
| `LoraLifecycle` | |
| `OneListener` | with no task left, the flag is up exactly after a stray stop; and if the last start was timely, its task is the only one, and leaves on no stop but its own |
| `StartListens`, `StopStops` | if the last start was timely, it leaves a listener for good when nothing follows it, and a stop leaves none |

`AckGenuine` is conditional on a clean start, because without it the claim is false: see the
findings. A message that a full queue threw away counts as having passed the token check
(`dropped`), which is what an ACK means in this code.

## 4. Runs

| run | system | faults | bounds | shows |
|---|---|---|---|---|
| `lossy_link` | a sends to b | lost, corrupt | 3 calls, queue 2, 2 frames per line | the safety properties on one link; the service |
| `two_way` | a and b send, a restarts | lost | 2 calls each, queue 1, 1 frame per line, 1 restart | crossing traffic, overflowing `response_queue`, frames and tokens of an earlier life of a sender and of a receiver; agreement on tokens; the service |
| `timely` | a and b send, a restarts | none, `Prompt` | 3 calls each, 6 tokens, 19 frames per line | token agreement, exact results on a good medium, the exhausted counter |
| `returns` | a sends to b and c | lost, corrupt | 2 calls, timeout 2 | answers of one device are not taken for another's; termination under fairness; the service with its liveness |
| `mesh` | 3 devices, the tables of `user_params.h` or tables with a loop | lost, overheard, 1 damaged transmission | 2 pairs, 2 frames each, TTL 1 | the line that the transport relies on, the TTL, silence |
| `device` | one device, a peer that sends messages or answers | damage | 1 body each way, 3 tokens | the shared buffer, checksum and flag |
| `call` | calls, one after another | | every size from 0 to 77, the largest that fits; period 6, timeout 3, 14 ms | sizes through swaps, waits across wraps |
| `polite_use` | one device | | 4 starts, any number of stops, queue 2 | start and stop in any order |
| `other_contents`, `stale_ack`, `full_queue_ack`, `token_overflow` | | see below | | findings |

Why these bounds are enough. *Transport*: every mechanism takes part with small numbers:
three calls fill a queue of two and refuse the third; a stale answer needs two calls; a resent
copy overtaken by the next call needs two; `AirCap` 2 lets a first copy, or the previous
message, travel in front of a resent one. `two_way` has a line of one frame each way, which
the messages of one device share with its answers to the other; queued answers and frames of an
earlier life are reached there all the same. The lines of `timely` hold 19 frames, one more than
what `LinesAreRoomy` asks of three calls each: there the bound takes nothing away. The receive counter starts at 3 while send counters
start at 0, so the first message is always refused and goes through SYNC|RESEND, and a
threshold of 3 makes later tokens pass both because they are near and not because they are
near enough. `TOKEN_MAX` is 8, or 6 where the counter is to be exhausted. `UINT32` is 16: all
that matters is that it exceeds `TOKEN_MAX + TOKEN_TRESHOLD`, which is the named assumption.
The timeout is one tick, after which anything may still arrive; it is two where waiting is
the subject. What these numbers leave open is closed by the proofs for the properties in
section 5. Loss and damage are combined only where one device sends: with both sending,
damage on both sides multiplies the states beyond what TLC finishes (two listeners answering
each other's damaged answers), so `two_way` has loss only. *Routing*: two frames of one pair
are what reordering and repetition need, a second pair crosses them at the forwarder, and the
TTL of 1 is exactly what the way from 0 to 2 takes and what stops a frame in the loop; every
larger TTL is covered by the proof of `HopsBounded`. One damaged transmission is enough to send
a copy round or to a wrong device while others are on their way. *Device*: one message each
way, with tokens enough for a good, an old and a far one; `Arrive` never stops. A peer that both
sends and answers is left out, for the size of it: messages and answers share nothing in the
listener but the checksum. *Sizes* are all there are; the clock wraps twice. *Lifecycle*: two
tasks need two starts, and two more show what becomes of them.

Deadlock is not checked where the modelled program stops at a bound (`MaxCalls`, `MaxFrames`,
`MaxStarts`, `Horizon`); it is in the run of `LoraDevice`.

**Conditions that are about use or timing, not about the code.** `clear` in `AllArrive`: a
transmission may always be lost, and the authors' report leaves it to the application to avoid
collisions. `untimely` in `OneListener`, `StartListens` and `StopStops`: that no start comes before the last listener
has ended, and that a start with no listener left does not follow a second stop, or a stop before any start. The code checks neither and offers no way to see that a
listener has ended, so a program can only wait, and count its stops. `MaxSize` in `LoraCall`: neither
`send_with_ack` nor `encrypt` compares the size of a message with anything
(`lib/lora/loraTransport.h:229`, `lib/lora/loraEncryption.h:70`); a message that does not fit is written past
the end of the buffers, so that it fits is the caller's duty, and what happens otherwise is
not modelled. `Alone` in the properties of `LoraDevice`: nothing keeps the
tasks apart; what happens when they meet is among the findings and the remarks that follow them.

**Fairness.** `returns`: weak fairness of the clock, of the polling loop and of the listener,
for each device. The listener has core 0 to itself and the loop of `_send` runs on core 1
without blocking, so each keeps taking steps; the clock is hardware. `mesh`: weak fairness of
each listener, for the same reason. `LoraLifecycle`: weak fairness of every task, which the
scheduler gives to tasks that delay. No fairness is assumed of the medium, and none of the
program, which may never call again.

### Findings

1. `stale_ack` (`lib/lora/loraTransport.h:94`). The ACK of an earlier call that arrives after
   its timeout ends the next call with `true`, although the frame of that call was lost. The
   example takes the result for the success of the sending (`src/LoRaExample.cpp:64`).
2. `full_queue_ack` (`lib/lora/loraTransport.h:186`). A message refused for a full queue is
   answered by ERROR and, since the code goes on, by ACK. The call returns `false` on the
   ERROR; the ACK waits for the next call to the same device, which returns `true` even though
   its message was thrown away as well. This needs no loss and no delay.
3. `token_overflow` (`lib/lora/loraEncryption.h:87`). The comment says that overflow of the
   difference does no harm. A receive counter at `TOKEN_MAX - 1` refuses every token, and asks
   for 0, which it refuses too: the pair is locked out until the receiver restarts. `init`
   draws the counter from all tokens, so this can even be so from the start.
4. `other_contents` (`lib/lora/loraEncryption.h:72`). Between the writing of a message to
   `enc_buf` and its encryption the listener may decrypt a frame there; that frame's message is
   sent instead.

### What the conditions leave out

The conditions of the passing properties are needed: without them TLC finds each of these.

- Without `Alone` in `VerdictRight`: between the decryption of a frame and the check of its token
  (`lib/lora/loraEncryption.h:122`) the user's task may write to `enc_buf`; the frame is judged by what
  is then there, or, when the byte with the padding was hit, taken for empty and acknowledged with no check at
  all (`:119`).
- Without it in `ChecksumRight`: a good frame is refused or leaves with a wrong checksum
  (`lib/lora/loraTransport.h:72`).
- Without it in `ListensAlone`: the flag is tested, then the chip is read, and the other task may
  begin to send in between (`lib/lora/loraRadio.h:35`); and the first of two senders to end takes
  the flag down for both.
- Without `~ untimely`: a start soon after a stop ends in no listener at all, since the new task sees the
  flag meant for the old one (`lib/lora/loraTransport.h:225`), or in two, of which a later stop ends
  one (`:204`). A stop that finds no task leaves the flag up; the listener of the next start, however late,
  sees it and leaves at once, and only the start after that one listens.
- Without `Wrapped` in `EarlyOnlyAtWrap`: a wait across the wrap of `millis()`, once in about 50 days,
  fails at once (`lib/lora/loraTransport.h:83`).

One loss needs no condition: `start_radio` makes new queues, so messages acknowledged but unread at
a stop are gone after the next start, however carefully it is done (`lib/lora/loraTransport.h:210`).

## 5. Proofs

For all values of the constants that satisfy the named assumptions (any set of devices, finite
or not):

| module | theorem | statement |
|---|---|---|
| `LoraTransportProofs` | `TypeCorrect` | `Spec => []TypeOK` |
| | `Invariance` | `Spec => []IInv` |
| | `AcceptedInOrder` | `Spec => []InOrder` |
| | `RecvTokensGrow` | `Spec => RecvTokenGrows` |
| | `LockoutLasts` | `Spec => LockedOut` |
| | `WaitsBounded` | `Spec => WaitBounded` |
| `LoraAckProofs` | `AckInvariance` | `Spec => []AckInv` |
| | `AcksAreConserved` | `Spec => []AcksConserved` |
| | `AcksAreGenuine` | `Spec => []AckGenuine` |
| | `AgreeInvariance` | `Spec => []AgreeInv` |
| | `TokensDoAgree` | `Spec => []TokensAgree` |
| `LoraTimelyProofs` | `FramesAreFew` | `Spec => []FewFrames` |
| | `LinesAreRoomy` | `Spec => []Roomy`, if `AirCap > 6 * MaxCalls` |
| | `TimelyInvariance`, `TimelySuccesses` | `Spec => []TimelyInv`, `Spec => []TimelySuccess`, if `Prompt`, `Fault = {}`, `TOKEN_TRESHOLD > 1` and `AirCap > 6 * MaxCalls` |
| | `DeliveryInvariance`, `TimelyDeliveries` | `Spec => []DeliveryInv`, `Spec => []TimelyDelivery`, if `Prompt`, `Fault = {}` and `AirCap > 6 * MaxCalls` |
| `LoraServiceProofs` | `TransportImplementsService` | `Spec => ImplementsService` |
| `LoraRoutingProofs` | `TypeCorrect` | `Spec => []TypeOK` |
| | `HopsAreBounded` | `Spec => []HopsBounded` |
| | `LineInvariance` | `Spec => []LineInv` |
| | `MeshImplementsLine` | `Spec => ImplementsLine` |
| | `NothingIsLost` | `Spec => []Complete` |
| | `AllFramesArrive` | `Spec => []AllArrive` |
| `LoraDeviceProofs` | `DeviceInvariance` | `Spec => []DeviceInv` |
| | `DeviceTypes` | `Spec => []TypeOK` |
| | `VerdictsAreRight` | `Spec => []VerdictRight` |
| | `FramesAreSentAsGiven` | `Spec => []SentAsGiven` |
| | `ChecksumsAreRight` | `Spec => []ChecksumRight` |
| | `ListenerListensAlone` | `Spec => []ListensAlone` |
| | `CounterGrows` | `Spec => ReceiveCounterGrows` |
| `LoraCallProofs` | `EverySizeOpens` | `Spec => []RoundTrip` |
| | `EverySwapFits` | `Spec => []SwapKeepsSize` |
| | `WaitsEnd` | `Spec => []WaitAtMost` |
| | `EarlyAtWraps` | `Spec => EarlyOnlyAtWrap` |
| `LoraLifecycleProofs` | `LifecycleTypes` | `Spec => []TypeOK` |
| | `ListenerIsAlone` | `Spec => []OneListener` |

**Transport.** `TypeOK` is inductive by itself, and `RecvTokenGrows`, `WaitBounded` and `LockedOut`
follow from it and a look at each action. A token that passes is larger than the counter
(`ValidTokenGrows`), and above the last value there is none (`LastTokenLocks`): the numeric edge
of finding 3, for every size of token.

**Order.** `InOrder` is not inductive: a state in which an accepted
message is still on the line with a token that would pass satisfies it and has a bad
successor. The inductive invariant `IInv` adds, for each sender *s* and each destination *d*
that keeps its memory, a statement `PairInv` about the line from *s* to *d*, the receive
counter, the accepted messages, the tokens *d* has asked *s* for and the call that may still
resend:

- messages travel in the order of their calls (`Ordered`), and one whose token could still
  pass is newer than all accepted ones (`Fresh`);
- of two copies of one message, the second cannot pass once the first has (`Resent`): its
  token is no larger, or it is the token *d* asked for, and *d* never asks for more than the
  successor of its counter (`Asks`);
- until it is resent a message is on the line at most once (`Single`), and if it has been
  accepted by then, every token it could be given is spent (`Spent`).

The argument about one pair is pure data (lemmas `PairSend`, `PairResend`, `PairAccept`,
`PairShrink`, `PairKeep`, `PairAnswer`, `PairNewCall`): what sending, resending, accepting and
refusing do to a line and a list. `PairInv` is kept of two lists, the messages that were queued and
those that found no room: both pass the same check, and the service counts both. The lemmas `PairsSend` ... `PairsReboot` then show what each
action does to each pair, and `InvStep` collects them. Destinations that restart are excluded:
a new random receive counter may let an old frame pass again. Restarts of senders are not
excluded, and the faults, capacities and timeouts are arbitrary.

**ACKs.** Neither property of ACKs mentions the ACKs that are not read yet, so neither is inductive.
`AcksOwed` counts them, on the line, among the answers about to be sent and in `response_queue`: with
the calls that have returned `true` they are never more than the messages that passed. The lemmas
`CountAppend` and `CountTail` say what joining and leaving a queue does to a count, `OwedSend` ...
`OwedReboot` what each action does to the sum: a message that passes adds one to both sides, an
ACK that is read moves from one summand to the other, a loss or a restart only lowers. `OwnAcks` is
about a call that began clean and still waits: every message on its line is its own, and if an ACK
is anywhere on its way, the message has passed. This needs no memory of the destination, so all
three theorems include devices that restart.

**Agreement.** `TokensAgree` looks at the tokens when a call has ended, and what could set them apart comes
before: a request that the call reads after its message has passed, or a message that passes with another
token than the call goes on from. `AgreeInv` follows a clean call that waits (`Agreeing`). Until its message has
passed (`Unpassed`), its destination asks for no token but the successor of its counter, and a
message that will pass carries the token of the call; once a token is asked for and the message
may be resent, there is no other of it left on the line. When it has passed, and while an ACK
is on its way, the token of the call is the counter of its destination, and whatever is ahead of the ACK in
the three queues asks for that same token (`AcksLast`), so that reading it changes nothing. Most
steps are calm: they bring the caller no ACK and no SYNC and only move frames along these queues
(`CalmKept`, `CalmArrives`, `CalmLeaves`, `CalmSteps`). What is left is the start of the call, the two readings of a
request, a refusal and an acceptance (`AgreeingCalled`, `AgreeingResent`, `AgreeingLate`, `AgreeingRefused`,
`AgreeingAccepted`). The destination must keep its memory; the caller and all others may restart.

**Success.** `TimelySuccess` speaks of the last of a chain of answers. `TimelyInv` says what a clean call
that waits is waiting for: there is exactly one frame of it anywhere (`UnderWay`, counted like the
ACKs), its message or an answer, and that frame helps: a message that has been resent carries
the very token its destination expects, an answer is an ACK or the first request to resend with that
token (`GoodMessage`, `GoodAnswer`). So its message is never refused twice, the one answer is read and the clock stands
still until it is. The lemmas follow the frame: `CallStarts`, `OwnRefused`, `OwnAccepted`, `ReplySent`, `AnswerArrives`,
`OwnResent`; `OthersCall`, `OthersAnswered` and `OthersReboot` say that nobody else's frames are among those
counted. A reason to fail, once there, stays (`ExcusedStays`). The hypotheses are those of a good medium: `Prompt`,
no fault, a line that is long enough, and a threshold above 1, where the source has 20: with 1 no token
would ever pass.

**Few frames.** That a line is long enough is not assumed but proved, of every medium. It is not
plain that there is a length: an answer may be damaged and answered by a request, a request makes
the call resend, a refused message is answered twice. Counting frames is not inductive, since one
frame may turn into two; `Backlog` counts what a device may still put on the line. A message counts
two (ERROR and ACK), an answer one wherever it waits, the permission to resend one. Then a call adds three and
no other step adds anything: a message turns into its two answers (`FewListen`), a damaged
answer into one request, a resent message uses up the request that was read and the
permission. The bound grows with the number of calls, and must: a call that times out leaves its
frames behind, and one whose message is refused reads one of the two answers it causes. A finite
`AirCap` bounds the model, not the code, and above `6 * MaxCalls` it makes no difference.

**Delivery.** That a message thrown away is not taken for a delivered one hangs on the order of two
answers. `ErrorsFirst` follows them through the three queues on their way, the answers
about to be sent, the line and `response_queue`: while the call of a refused message waits, no ACK of its
destination is in a queue unless an ERROR is ahead of it in that queue or in a later one (`ErrorFirst`). Each queue
is first-in first-out, so moving the head of one to the end of the next keeps this; only
reading the ERROR ends it, and with it the call. When a message is refused, none of its ACKs
is about (`OwnAcks`). It needs a medium that loses nothing: with the ERROR lost, the ACK is read, as
in the runs of the findings. It does not need the threshold.

**Service.** Each step of `LoraTransport` is mapped to a step of `LoraService` or to none
(`SimulatesCall`, `SimulatesPass`, `SimulatesSuccess`, `SimulatesGiveUp`). That a message passes in
its turn is `Fresh` and `Increasing` of `IInv`, of both lists; that a success is paid for is
`AcksOwed`: the ACK being read is one of those counted.

**Routing.** `HopsBounded` is not inductive: it needs that the TTL left and the hops made always
add up to `INIT_TTL` (`Spent`), which holds of every frame in a radio or in hand, and which
damage to the addresses does not touch (`DamagedSpent`).

**Line.** A frame whose addresses were damaged is of no pair; the others of a pair from *s* to *d*
all follow one path, the least set of pairs of a number of forwardings and a device that starts with
*s* and goes on as the tables say until it meets *d* (`OnPath`, which names one device per number:
`PathFunctional`). `LineInv` says that each of them is on that path, as far as its history of
forwardings has it (`OnTheirWay`), and that of two frames of a pair the one that is further is the older
(`InOrder` of that module). Two are never equally far, because a radio has one packet and a
listener one frame in hand (`OnePlace`); a copy that is overheard does not count, since a radio that is
not the next hop of its frame throws it away. So the frame that arrives
is the oldest of its pair (`ArrivesFirst`), and everything else that happens to the frames of a pair
is a loss.

**Completeness.** `Complete` adds, while `clear` holds and for a pair whose path meets its destination
within `INIT_TTL` forwardings (`Served`), that the numbers received are 1 to *r* in order and those on
their way exactly *r* + 1 to the last one sent. It is kept because a clear transmission reaches its
next hop (`BroadcastClear`) and no frame of such a pair runs out of hops (`ServedHasHops`: the frame
is on the path, so it has been forwarded less often than the path is long). When the network is
silent nothing is on its way, which is `AllArrive`. The property names the pairs by the recursive
function `Within`; its recursion is unfolded by exhibiting a function that solves its
equation (`Solvable`, `WithinSolves`), and the induction on the number of forwardings is by the
least counterexample (`LeastNatural`, from the well-foundedness of the naturals).

**Device.** A property that excuses a task once the other has met it cannot be shown from itself,
since it looks at one place of the task and the step before was another. `DeviceInv` says what a task
that was left alone has in the shared memory at each place: the user's token and then its message in
`enc_buf`, the frame of the peer or of the user after its decryption (`InHand`), with the size that goes with it, the checksum that was fed, and which tasks are on
the air with the flag up. Each action is looked at twice: what it does to the task that takes it, and
that it either leaves the memory of the other task alone or puts it among those that were met
(`UserBufferKept`, `ListenerBufferKept`, `RestKeeps`, `SizeKeeps`, `SumsKept`, `AirKept`). `CounterGrows` needs no such excuse: the
token that is remembered is the one that was compared, at one step.

**Lifecycle.** `TypeOK` and `OneListener` are inductive together. The first half of `OneListener` holds of any
sequence of starts and stops: the last task to leave clears the flag, and only a stop raises it.
By it, a start that is timely finds the flag down and no task; so the task that later clears
the flag is the one it was raised for, because there is no other.

**Sizes.** The invariant `SizeInv` ties the padding byte and the size to the size given, modulo 16;
padding fills the last block and no more (`PaddingFills`), and every size stays within `int8_t`
(`SizesFit`), which is where `SizeAssumption` is needed.

**Clock.** `LaterReading` says what a clock of period *b* shows less than *b* after a reading:
the same lap or the next. So the difference of two readings is the time waited, or, across a
wrap, a negative number that 64 bits turn into an immense one (`Seen`): the loop ends in time
in either case, and early only in the second.

Each of these invariants was found and first checked with TLC; `IInv`, `AckInv` and `AgreeInv` stay among the
invariants of `lossy_link`, `TimelyInv` and `DeliveryInv` among those of `timely`. Every safety and
action property that a passing run checks is a theorem.

Only model-checked: the liveness properties under fairness `SendReturns`, `KeepsPromises`,
`FallsSilent`, `StartListens` and `StopStops`, which the prover does not treat. `WaitBounded`, `WaitAtMost`,
`HopsBounded` and `OneListener` are their provable cores.

## 6. Not modelled

- **mbedtls**, vendored: 160 thousand lines of a general TLS and cryptography library, of which
  the program calls one operation, AES on one block. It has no state that outlives the call and
  nothing of the protocol is in it, so it is a bijection here. It is also nearly all the C in
  the repository: the program itself, all of which these models draw on, is some 800 lines.
- **Payload bytes.** A message is its call, its body a value, its size a number; that the block
  cipher is inverted byte by byte is not shown.
- **Frames nobody of this network sent**: other protocol versions, lengths that are no multiple of
  16, foreign keys. `decrypt` takes a frame of such a length for an empty message with its size
  left unset; no device of the network sends one, and damage to a length fails the checksum.
- **Undetected damage** that the checksum should have seen, and what damage to the address bytes
  does above routing: a frame with a false sender would be answered to a device that never sent.
- **The chip** when it is read while it sends, and the effect of the task function returning.
- `Radio::init`, `print_info`, serial output, the String helpers of Cipher and `set_send_token`,
  none of which takes part in the protocol.

## 7. Plan

Done: all components of section 1 except the vendored library, and the proofs of section 5. Left:
the safety part of `FallsSilent`, that without new frames the forwardings still to come only
grow fewer; and how many answers of an earlier life a restarted device may still receive, for
which `Backlog` would have to tell the lives apart.
