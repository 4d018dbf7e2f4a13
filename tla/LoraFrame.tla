----------------------------- MODULE LoraFrame -----------------------------
(***************************************************************************)
(* The frames of lib/lora/params/frame_spec.h as _send builds them and     *)
(* _listen classifies them.                                                *)
(*                                                                         *)
(* A frame keeps the two end addresses, the flag bits of its type byte,    *)
(* the token and whether its checksum still agrees with its contents.  The *)
(* payload is abstracted to the number `id' of the call of send_with_ack   *)
(* it belongs to; the code sends no such number (it never writes           *)
(* FRAME_POS_ID), so no action below branches on it.  The next-hop address *)
(* and the TTL belong to routing.                                          *)
(***************************************************************************)
EXTENDS LoraToken

CONSTANT Node

Flag == {"ACK", "SYNC", "NEED_ACK", "RESEND", "ERROR"}

Frame == [from : Node, to : Node, flags : SUBSET Flag,
          id : Nat, token : Token, crc : BOOLEAN]

\* What send_with_ack hands to _send: an encrypted message with its token.
DataFrame(n, d, id, token) ==
    [from |-> n, to |-> d, flags |-> {"NEED_ACK"},
     id |-> id, token |-> token, crc |-> TRUE]

\* What _listen hands to _send.  Only SYNC carries a token of its own.
Response(n, d, flags, token) ==
    [from |-> n, to |-> d, flags |-> flags,
     id |-> 0, token |-> token, crc |-> TRUE]

IsResponse(f) == f.flags \cap {"ACK", "ERROR", "RESEND", "SYNC"} # {}

IsData(f) == ~ IsResponse(f)

\* A frame changed on its way: the CRC of its receiver differs from the byte it carries.
Corrupted(f) == [f EXCEPT !.crc = FALSE]
=============================================================================
