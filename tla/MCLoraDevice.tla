---------------------------- MODULE MCLoraDevice ----------------------------
(***************************************************************************)
(* LoraDevice with few messages and tokens, and a claim of a comment that  *)
(* two tasks on one buffer do not keep.                                    *)
(***************************************************************************)
EXTENDS LoraDevice

CONSTANTS m, x   \* messages of the user and of the peer

OnlyMessagesOrAnswers == {{"data"}, {"ack", "sync", "resend"}}

\* loraTransport.h:228 "wysyła wiadomość i oczekuje na potwierdzenie 'ACK'" (sends the message
\* and waits for the confirmation): what goes on the air is the message of the call.
SendsItsMessage == "user" \in on_air => task["user"].out.body = task["user"].given
=============================================================================
