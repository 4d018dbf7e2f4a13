------------------------------ MODULE LoraCall ------------------------------
(***************************************************************************)
(* One call of send_with_ack after another, as the numbers in it see it:   *)
(* the size of the message, which encrypt, swap_token and the decrypt of   *)
(* the receiver take through paddings and int8_t, and the clock of the     *)
(* loop of _send, where millis() counts modulo 2^32 while _wait_start and  *)
(* the difference are 64 bits wide.                                        *)
(***************************************************************************)
EXTENDS LoraCipher

CONSTANTS
    TOKEN_SIZE,             \* bytes of the token in front of every message
    FRAME_POS_MSG,          \* bytes of a frame in front of the encrypted part
    MAX_FRAME_SIZE,         \* bytes of the buffers
    MaxSize,                \* the longest message whose frame fits the buffers
    RESPONSE_TIMEOUT_MS,
    UINT32, UINT64,         \* 2^32 and 2^64
    Horizon                 \* bound: the time that is looked at

(***************************************************************************)
(* MAX_FRAME_SIZE is 100 in frame_spec.h.  That a message fits is up to    *)
(* the caller: neither send_with_ack nor encrypt compares its size with    *)
(* anything, and a longer one would be written past the end of enc_buf and *)
(* of the frame.  What happens then is not modelled: MaxSize is a          *)
(* condition on the use of the program and not a check that it makes.      *)
(***************************************************************************)
ASSUME SizeAssumption ==
    /\ TOKEN_SIZE \in 1 .. 4
    /\ FRAME_POS_MSG \in Nat /\ MAX_FRAME_SIZE \in Nat /\ MaxSize \in Nat
    /\ MAX_FRAME_SIZE < 128
    /\ Block * ((MaxSize + TOKEN_SIZE) \div Block + 1) =< MAX_FRAME_SIZE - FRAME_POS_MSG

ASSUME ClockAssumption ==
    /\ RESPONSE_TIMEOUT_MS \in Nat \ {0}
    /\ UINT32 \in Nat /\ UINT64 \in Nat /\ Horizon \in Nat
    /\ RESPONSE_TIMEOUT_MS < UINT32 /\ 2 * UINT32 =< UINT64

VARIABLES
    phase,         \* "idle", "waiting", "answered" or, without an answer, "timeout"
    allow_resend,  \* a request to resend will be followed
    _wait_start,
    now,           \* the time since power-on, which the code does not have
    since,         \* history: the time at which the wait began
    given,         \* size of the user's message
    size,          \* size of its encrypted form, as _send keeps it
    last,          \* its last byte before encryption
    opened,        \* what decrypt made of it: "no", "received" or "empty"
    got            \* size that decrypt has reported

clock   == <<_wait_start, since>>
message == <<given, size, last, opened, got>>
vars    == <<phase, allow_resend, clock, now, message>>

Init ==
    /\ phase = "idle" /\ allow_resend = FALSE
    /\ _wait_start = 0 /\ now = 0 /\ since = 0
    /\ given = 0 /\ size = 0 /\ last = 0 /\ opened = "no" /\ got = 0

Millis == now % UINT32

\* Broken on purpose: the last millisecond is not waited for.
WaitsOneLess == (Millis - _wait_start) % UINT64 < RESPONSE_TIMEOUT_MS - 1

\* Broken on purpose: the difference is compared as a signed number.
WaitsSigned == Millis - _wait_start < RESPONSE_TIMEOUT_MS

\* The condition of the loop.
Waits == (Millis - _wait_start) % UINT64 < RESPONSE_TIMEOUT_MS

StartWait == _wait_start' = Millis /\ since' = now

\* send_with_ack: encrypt, and _send up to its loop, of a message that fits (Next).
Send(n) ==
    /\ phase # "waiting" /\ phase' = "waiting"
    /\ allow_resend' = TRUE
    /\ given' = n /\ opened' = "no" /\ got' = 0
    /\ size' = EncryptedSize(n + TOKEN_SIZE) /\ last' = Padding(n + TOKEN_SIZE)
    /\ StartWait
    /\ UNCHANGED now

InLoop == phase = "waiting" /\ Waits

\* RESEND, the first time: _send is called again and starts a wait of its own.
Resend ==
    IF allow_resend THEN allow_resend' = FALSE /\ StartWait
    ELSE UNCHANGED <<allow_resend, clock>>

GotResend == InLoop /\ Resend /\ UNCHANGED <<phase, now, message>>

\* SYNC: swap_token opens and closes the message, and its new size is dropped.
GotSync ==
    /\ InLoop /\ Resend
    /\ last' = Padding(DecryptedSize(size, last))
    /\ UNCHANGED <<phase, now, given, size, opened, got>>

\* ACK or ERROR.
Answered ==
    /\ InLoop /\ phase' = "answered"
    /\ UNCHANGED <<allow_resend, clock, now, message>>

Timeout ==
    /\ phase = "waiting" /\ ~ Waits /\ phase' = "timeout"
    /\ UNCHANGED <<allow_resend, clock, now, message>>

\* The loop polls without pause: it sees every millisecond.
Tick ==
    /\ phase = "waiting" => Waits
    /\ now < Horizon /\ now' = now + 1
    /\ UNCHANGED <<phase, allow_resend, clock, message>>

\* The receiver's decrypt of a frame of the call, which may come late.
Decrypt ==
    LET eb_size == DecryptedSize(size, last)
    IN  /\ phase # "idle" /\ opened = "no"
        /\ IF eb_size = 0 THEN opened' = "empty" /\ UNCHANGED got
           ELSE opened' = "received" /\ got' = eb_size - TOKEN_SIZE
        /\ UNCHANGED <<phase, allow_resend, clock, now, given, size, last>>

Next ==
    \/ \E n \in 0 .. MaxSize : Send(n)
    \/ GotResend \/ GotSync \/ Answered \/ Timeout
    \/ Tick
    \/ Decrypt

Spec == Init /\ [][Next]_vars
-----------------------------------------------------------------------------
\* For every size that fits a frame, also 0 and the multiples of 16, and however often its
\* token was swapped, a message is opened with the size it was given, and the branch of
\* decrypt that skips the token check for an empty one (loraEncryption.h:119) is not taken.
RoundTrip ==
    /\ opened # "empty"
    /\ opened = "received" => got = given

\* A message whose token is swapped takes as many blocks as before, so that the size _send
\* goes on with is right, and its frame fits the buffers.
SwapKeepsSize ==
    phase # "idle" =>
        /\ EncryptedSize(DecryptedSize(size, last)) = size
        /\ size + FRAME_POS_MSG =< MAX_FRAME_SIZE

\* No wait of _send is longer than the timeout, whenever the 32-bit clock wraps.
WaitAtMost == phase = "waiting" => now - since =< RESPONSE_TIMEOUT_MS

Wrapped == since \div UINT32 < now \div UINT32

\* A wait of _send gives up before its time only if the clock has wrapped in it, and then it
\* does so at once: millis() is then less than the 64-bit _wait_start.
EarlyOnlyAtWrap ==
    [][Timeout => now - since = RESPONSE_TIMEOUT_MS \/ Wrapped]_vars
=============================================================================
