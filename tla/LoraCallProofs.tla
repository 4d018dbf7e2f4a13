--------------------------- MODULE LoraCallProofs ---------------------------
(***************************************************************************)
(* For every message size that fits a frame, what swap_token and decrypt   *)
(* find is what encrypt was given; and for every timeout and every width   *)
(* of the two clocks, no wait of _send outlasts the timeout, and one that  *)
(* ends early spans a wrap of millis().                                    *)
(***************************************************************************)
EXTENDS LoraCall, TLAPS

\* The sizes that encryptBytes is given: message and token.
Plain == TOKEN_SIZE .. MaxSize + TOKEN_SIZE

LEMMA PaddingFills ==
    ASSUME NEW n \in Nat
    PROVE  /\ Padding(n) \in 0 .. 15
           /\ n + Padding(n) + 1 = 16 * (n \div 16 + 1)
BY DEF Padding

\* A plain size passes through int8_t unharmed, and so does the size of its blocks.
LEMMA SizesFit ==
    ASSUME NEW n \in Plain
    PROVE  /\ n \in 1 .. 127
           /\ EncryptedSize(n) = 16 * (n \div 16 + 1)
           /\ EncryptedSize(n) + FRAME_POS_MSG =< MAX_FRAME_SIZE
<1>1. /\ n \in Nat /\ n >= 1 /\ n =< MaxSize + TOKEN_SIZE
      /\ MaxSize + TOKEN_SIZE \in Nat
  BY SizeAssumption DEF Plain
<1>2. n \div 16 =< (MaxSize + TOKEN_SIZE) \div 16
  BY <1>1
<1>3. 16 * ((MaxSize + TOKEN_SIZE) \div 16 + 1) + FRAME_POS_MSG =< MAX_FRAME_SIZE
  BY <1>1, SizeAssumption DEF Block
<1>4. 16 * (n \div 16 + 1) + FRAME_POS_MSG =< MAX_FRAME_SIZE
  BY <1>1, <1>2, <1>3, SizeAssumption
<1>5. 16 * (n \div 16 + 1) \in 1 .. 127 /\ n =< 16 * (n \div 16 + 1)
  BY <1>1, <1>4, SizeAssumption
<1>6. EncryptedSize(n) = 16 * (n \div 16 + 1)
  <2>1. EncryptedSize(n) = Int8(16 * (n \div 16 + 1))
    BY <1>1, PaddingFills DEF EncryptedSize
  <2>2. \A k \in 1 .. 127 : Int8(k) = k
    BY DEF Int8
  <2> QED
    BY <1>5, <2>1, <2>2
<1> QED
  BY <1>1, <1>4, <1>5, <1>6

\* decryptBytes takes off what encryptBytes has put on.
LEMMA Opened ==
    ASSUME NEW n \in Plain
    PROVE  DecryptedSize(EncryptedSize(n), Padding(n)) = n
<1>1. n \in 1 .. 127 /\ EncryptedSize(n) = 16 * (n \div 16 + 1)
  BY SizesFit
<1>2. EncryptedSize(n) - Padding(n) - 1 = n /\ Padding(n) \in 0 .. 15
  BY <1>1, PaddingFills
<1>3. EncryptedSize(n) \in Nat /\ EncryptedSize(n) % 16 = 0
  BY <1>1
<1>4. Int8(n) = n
  BY <1>1 DEF Int8
<1> QED
  BY <1>2, <1>3, <1>4 DEF DecryptedSize

-----------------------------------------------------------------------------
\* The size that _send keeps and the last byte stay those of the message.
SizeInv ==
    /\ given \in 0 .. MaxSize
    /\ phase # "idle" => /\ size = EncryptedSize(given + TOKEN_SIZE)
                         /\ last = Padding(given + TOKEN_SIZE)
    /\ opened # "empty"
    /\ opened = "received" => got = given

LEMMA SizeInvStep == SizeInv /\ [Next]_vars => SizeInv'
<1> SUFFICES ASSUME SizeInv, [Next]_vars PROVE SizeInv'
  OBVIOUS
<1> USE DEF SizeInv
<1>1. ASSUME NEW n \in 0 .. MaxSize, Send(n) PROVE SizeInv'
  BY <1>1 DEF Send
<1>2. ASSUME phase # "idle"
      PROVE  /\ given + TOKEN_SIZE \in Plain
             /\ DecryptedSize(size, last) = given + TOKEN_SIZE
  <2>1. given + TOKEN_SIZE \in Plain
    BY SizeAssumption DEF Plain
  <2> QED
    BY <1>2, <2>1, Opened
<1>3. CASE GotSync
  <2>1. last' = Padding(given + TOKEN_SIZE)
    BY <1>2, <1>3 DEF GotSync, InLoop
  <2> QED
    BY <1>3, <2>1 DEF GotSync, InLoop
<1>4. CASE Decrypt
  <2>1. DecryptedSize(size, last) = given + TOKEN_SIZE /\ given + TOKEN_SIZE # 0
    BY <1>2, <1>4, SizeAssumption DEF Decrypt
  <2>2. opened' = "received" /\ got' = (given + TOKEN_SIZE) - TOKEN_SIZE
    BY <1>4, <2>1 DEF Decrypt
  <2> QED
    BY <1>4, <2>2, SizeAssumption DEF Decrypt
<1>5. CASE GotResend
  BY <1>5 DEF GotResend, InLoop, message
<1>6. CASE Answered
  BY <1>6 DEF Answered, InLoop, message
<1>7. CASE Timeout
  BY <1>7 DEF Timeout, message
<1>8. CASE Tick
  BY <1>8 DEF Tick, message
<1>9. CASE UNCHANGED vars
  BY <1>9 DEF vars, message
<1> QED
  BY <1>1, <1>3, <1>4, <1>5, <1>6, <1>7, <1>8, <1>9 DEF Next

LEMMA SizeInvariance == Spec => []SizeInv
<1>1. Init => SizeInv
  BY SizeAssumption DEF Init, SizeInv
<1> QED
  BY <1>1, SizeInvStep, PTL DEF Spec

\* Whatever its size and however often its token is swapped, a message is opened with the
\* size it was given, and never taken for an empty one (encryptBytes, decryptBytes, decrypt).
THEOREM EverySizeOpens == Spec => []RoundTrip
<1>1. SizeInv => RoundTrip
  BY DEF SizeInv, RoundTrip
<1> QED
  BY <1>1, SizeInvariance, PTL

\* Swapping the token never changes the number of blocks, and every frame fits its buffer
\* (swap_token, which does not report the new size to _send).
THEOREM EverySwapFits == Spec => []SwapKeepsSize
<1>1. SizeInv => SwapKeepsSize
  <2> SUFFICES ASSUME SizeInv, phase # "idle"
               PROVE  /\ EncryptedSize(DecryptedSize(size, last)) = size
                      /\ size + FRAME_POS_MSG =< MAX_FRAME_SIZE
    BY DEF SwapKeepsSize
  <2>1. given + TOKEN_SIZE \in Plain
    BY SizeAssumption DEF Plain, SizeInv
  <2> QED
    BY <2>1, Opened, SizesFit DEF SizeInv
<1> QED
  BY <1>1, SizeInvariance, PTL
-----------------------------------------------------------------------------
LEMMA Remainder ==
    ASSUME NEW a \in Int, NEW b \in Nat \ {0}
    PROVE  /\ a \div b \in Int
           /\ a % b \in 0 .. b - 1
           /\ a % b = a - b * (a \div b)
<1>1. a % b = a - b * (a \div b)
  OBVIOUS
<1> QED
  BY <1>1

LEMMA SmallModulo ==
    ASSUME NEW a \in Int, NEW b \in Nat \ {0}, 0 =< a, a < b
    PROVE  a % b = a
OBVIOUS

LEMMA NegativeModulo ==
    ASSUME NEW a \in Int, NEW b \in Nat \ {0}, -b =< a, a < 0
    PROVE  a % b = a + b
OBVIOUS

LEMMA Composed ==
    ASSUME NEW q \in Int, NEW r \in Int, NEW b \in Nat \ {0}, 0 =< r, r < b
    PROVE  (b * q + r) % b = r /\ (b * q + r) \div b = q
<1>1. (b * q + r) % b = r
  OBVIOUS
<1>2. (b * q + r) \div b = q
  OBVIOUS
<1> QED
  BY <1>1, <1>2

\* What the 32-bit clock shows a while after a moment: either the same lap or the next.
LEMMA LaterReading ==
    ASSUME NEW s \in Nat, NEW d \in Nat, NEW b \in Nat \ {0}, d < b
    PROVE  \/ (s + d) % b = (s % b) + d /\ (s + d) \div b = (s \div b)
           \/ (s + d) % b = (s % b) + d - b /\ (s + d) \div b = (s \div b) + 1
<1>1. ASSUME NEW q, NEW r, q = s \div b, r = s % b
      PROVE  \/ (s + d) % b = r + d /\ (s + d) \div b = q
             \/ (s + d) % b = r + d - b /\ (s + d) \div b = q + 1
  <2>1. q \in Int /\ r \in 0 .. b - 1 /\ r = s - b * q
    <3>1. s \in Int
      OBVIOUS
    <3> QED
      BY <1>1, <3>1, Remainder, Zenon
  <2>2. /\ r \in Int /\ 0 =< r /\ r < b /\ q + 1 \in Int
        /\ s = b * q + r /\ b * (q + 1) = b * q + b
    BY <2>1
  <2>3. CASE r + d < b
    <3>1. r + d \in Int /\ 0 =< r + d /\ s + d = b * q + (r + d)
      BY <2>1, <2>2
    <3>2. (b * q + (r + d)) % b = r + d /\ (b * q + (r + d)) \div b = q
      BY <2>1, <2>3, <3>1, Composed, Zenon
    <3> QED
      BY <3>1, <3>2, Zenon
  <2>4. CASE b =< r + d
    <3>1. ASSUME NEW p, NEW t, p = q + 1, t = r + d - b
          PROVE  (s + d) % b = t /\ (s + d) \div b = p
      <4>1. p \in Int /\ t \in Int /\ 0 =< t /\ t < b /\ s + d = b * p + t
        BY <2>1, <2>2, <2>4, <3>1
      <4>2. (b * p + t) % b = t /\ (b * p + t) \div b = p
        BY <4>1, Composed, Zenon
      <4> QED
        BY <4>1, <4>2, Zenon
    <3> QED
      BY <3>1, Zenon
  <2>5. r + d < b \/ b =< r + d
    BY <2>2
  <2> QED
    BY <2>3, <2>4, <2>5, Zenon
<1> QED
  BY <1>1, Zenon

\* The wait began at `since', within the timeout.
ClockInv ==
    /\ now \in Nat /\ since \in Nat
    /\ phase = "waiting" =>
          /\ _wait_start = since % UINT32
          /\ now - since \in 0 .. RESPONSE_TIMEOUT_MS

\* The loop sees the time it has waited, or, once the clock has wrapped, an immense one.
LEMMA Seen ==
    ASSUME ClockInv, phase = "waiting"
    PROVE  \/ Waits /\ now - since < RESPONSE_TIMEOUT_MS /\ ~ Wrapped
           \/ ~ Waits /\ now - since = RESPONSE_TIMEOUT_MS
           \/ ~ Waits /\ Wrapped
<1> DEFINE d == now - since
           w == (Millis - _wait_start) % UINT64
<1>1. /\ since \in Nat /\ d \in 0 .. RESPONSE_TIMEOUT_MS /\ now = since + d
      /\ _wait_start = since % UINT32
  BY ClockAssumption DEF ClockInv
<1>2. /\ UINT32 \in Nat \ {0} /\ UINT64 \in Nat \ {0} /\ RESPONSE_TIMEOUT_MS \in Nat \ {0}
      /\ RESPONSE_TIMEOUT_MS < UINT32 /\ 2 * UINT32 =< UINT64
  BY ClockAssumption
<1>3. since % UINT32 \in Nat /\ since \div UINT32 \in Int /\ d \in Nat /\ d < UINT32
  <2>1. d \in Nat /\ d < UINT32
    BY <1>1, <1>2
  <2>2. since \in Int
    BY <1>1
  <2>3. since \div UINT32 \in Int /\ since % UINT32 \in 0 .. UINT32 - 1
    BY <1>2, <2>2, Remainder, Zenon
  <2>4. 0 .. UINT32 - 1 \subseteq Nat
    BY <1>2
  <2> QED
    BY <2>1, <2>3, <2>4, Zenon
<1>4. CASE /\ (since + d) % UINT32 = (since % UINT32) + d
           /\ (since + d) \div UINT32 = since \div UINT32
  <2>1. Millis - _wait_start = d /\ ~ Wrapped
    BY <1>1, <1>3, <1>4 DEF Millis, Wrapped
  <2>2. w = d
    BY <1>2, <1>3, <2>1, SmallModulo
  <2> QED
    BY <1>1, <1>2, <2>1, <2>2 DEF Waits
<1>5. CASE /\ (since + d) % UINT32 = (since % UINT32) + d - UINT32
           /\ (since + d) \div UINT32 = (since \div UINT32) + 1
  <2>1. Millis - _wait_start = d - UINT32 /\ Wrapped
    BY <1>1, <1>2, <1>3, <1>5 DEF Millis, Wrapped
  <2>2. w = d - UINT32 + UINT64
    BY <1>2, <1>3, <2>1, NegativeModulo
  <2> QED
    BY <1>2, <1>3, <2>1, <2>2 DEF Waits
<1>6. \/ /\ (since + d) % UINT32 = (since % UINT32) + d
         /\ (since + d) \div UINT32 = (since \div UINT32)
      \/ /\ (since + d) % UINT32 = (since % UINT32) + d - UINT32
         /\ (since + d) \div UINT32 = (since \div UINT32) + 1
  BY <1>1, <1>2, <1>3, LaterReading, Zenon
<1> QED
  BY <1>4, <1>5, <1>6

LEMMA ClockInvStep == ClockInv /\ [Next]_vars => ClockInv'
<1> SUFFICES ASSUME ClockInv, [Next]_vars PROVE ClockInv'
  OBVIOUS
<1>1. ASSUME StartWait, UNCHANGED now PROVE ClockInv'
  BY <1>1, ClockAssumption DEF StartWait, ClockInv, Millis
<1>2. ASSUME Resend, UNCHANGED <<phase, now>> PROVE ClockInv'
  <2>1. CASE allow_resend
    BY <1>1, <1>2, <2>1 DEF Resend
  <2>2. CASE ~ allow_resend
    BY <1>2, <2>2 DEF Resend, ClockInv, clock
  <2> QED
    BY <2>1, <2>2
<1>3. ASSUME NEW n \in 0 .. MaxSize, Send(n) PROVE ClockInv'
  BY <1>1, <1>3 DEF Send
<1>4. CASE GotResend
  BY <1>2, <1>4 DEF GotResend
<1>5. CASE GotSync
  BY <1>2, <1>5 DEF GotSync
<1>6. CASE Answered
  BY <1>6 DEF Answered, InLoop, ClockInv, clock
<1>7. CASE Timeout
  BY <1>7 DEF Timeout, ClockInv, clock
<1>8. CASE Tick
  <2>1. phase = "waiting" => now - since < RESPONSE_TIMEOUT_MS
    BY <1>8, Seen DEF Tick
  <2> QED
    BY <1>8, <2>1, ClockAssumption DEF Tick, ClockInv, clock
<1>9. CASE Decrypt
  BY <1>9 DEF Decrypt, ClockInv, clock
<1>10. CASE UNCHANGED vars
  BY <1>10 DEF vars, ClockInv, clock
<1> QED
  BY <1>3, <1>4, <1>5, <1>6, <1>7, <1>8, <1>9, <1>10 DEF Next

LEMMA ClockInvariance == Spec => []ClockInv
<1>1. Init => ClockInv
  BY DEF Init, ClockInv
<1> QED
  BY <1>1, ClockInvStep, PTL DEF Spec

\* No wait of _send outlasts RESPONSE_TIMEOUT_MS, also across a wrap of the clock.
THEOREM WaitsEnd == Spec => []WaitAtMost
<1>1. ClockInv => WaitAtMost
  BY ClockAssumption DEF ClockInv, WaitAtMost
<1> QED
  BY <1>1, ClockInvariance, PTL

\* A wait of _send that gives up before its time has seen the 32-bit clock wrap.
THEOREM EarlyAtWraps == Spec => EarlyOnlyAtWrap
<1>1. ClockInv /\ [Next]_vars =>
        [Timeout => now - since = RESPONSE_TIMEOUT_MS \/ Wrapped]_vars
  <2> SUFFICES ASSUME ClockInv, Timeout
               PROVE  now - since = RESPONSE_TIMEOUT_MS \/ Wrapped
    OBVIOUS
  <2> QED
    BY Seen DEF Timeout
<1> QED
  BY <1>1, ClockInvariance, PTL DEF Spec, EarlyOnlyAtWrap
=============================================================================
