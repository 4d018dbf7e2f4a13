----------------------------- MODULE LoraToken -----------------------------
(***************************************************************************)
(* Token arithmetic of lib/lora/loraEncryption.h.                          *)
(*                                                                         *)
(* Every pair of devices shares a counter: the sender's send_tokens entry, *)
(* stepped by encrypt, and the receiver's recv_tokens entry, set to each   *)
(* token that _validate_token lets through.  Tokens travel in TOKEN_SIZE   *)
(* bytes.                                                                  *)
(***************************************************************************)
EXTENDS Integers

CONSTANTS
    TOKEN_MAX,       \* pow(2, 8 * TOKEN_SIZE) - 1; tokens are counted modulo this
    TOKEN_TRESHOLD,  \* how far a token may run ahead of the last accepted one
    UINT32           \* 2^32, the modulus of uint32_t arithmetic

(***************************************************************************)
(* TOKEN_SIZE is 2 in frame_spec.h, so TOKEN_MAX is 65535, the threshold   *)
(* 20 and the word far larger than both.  (With the maximum TOKEN_SIZE, 4, *)
(* TOKEN_MAX would reach the word size and the subtraction below would     *)
(* behave differently: that configuration is not covered.)                 *)
(***************************************************************************)
ASSUME TokenAssumption ==
    /\ TOKEN_MAX \in Nat /\ TOKEN_MAX > 0
    /\ TOKEN_TRESHOLD \in Nat
    /\ UINT32 \in Nat /\ UINT32 >= TOKEN_MAX + TOKEN_TRESHOLD

Token == 0 .. TOKEN_MAX - 1

\* Broken on purpose: a token is left out at every step.
NextTokenSkipsOne(t) == (t + 2) % TOKEN_MAX

\* Broken on purpose: the counter does not wrap.
NextTokenUnwrapped(t) == t + 1

\* What encrypt does to a send token and get_next_recv_token to a receive token.
NextToken(t) == (t + 1) % TOKEN_MAX

\* `token - recv_tokens[address]`: both operands are converted to uint32_t, so
\* the difference that is widened to int64_t is never negative.
TokenDiff(token, recv) == (token - recv) % UINT32

\* Broken on purpose: the comparison with zero lost, a repeated token passes.
ValidTokenOrEqual(token, recv) == TokenDiff(token, recv) < TOKEN_TRESHOLD

\* Broken on purpose: the threshold is not compared, tokens of the past pass.
ValidTokenAnyDistance(token, recv) == TokenDiff(token, recv) > 0

\* Broken on purpose: the distance is counted around the wrap, like the tokens, so that the
\* tokens of an earlier turn come again.
ValidTokenAround(token, recv) == (token - recv) % TOKEN_MAX \in 1 .. TOKEN_TRESHOLD - 1

\* The test of _validate_token.
ValidToken(token, recv) ==
    /\ TokenDiff(token, recv) < TOKEN_TRESHOLD
    /\ TokenDiff(token, recv) > 0
=============================================================================
