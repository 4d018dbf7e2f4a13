----------------------------- MODULE LoraDevice -----------------------------
(***************************************************************************)
(* The two tasks of one device over the memory they share without a lock:  *)
(* the buffer enc_buf of loraEncryption.h, the checksum object _crc of     *)
(* loraTransport.h and the flag is_sending of loraRadio.h.                 *)
(*                                                                         *)
(* The user's task runs send_with_ack towards one peer, the listener's     *)
(* task _listen; each step is what one of them does between two points at  *)
(* which the other may come in.  Encryption is a bijection and is left     *)
(* out; what a frame carries is its contents and a checksum, and the       *)
(* checksum is the contents that _crc had been fed with when it was read.  *)
(***************************************************************************)
EXTENDS LoraToken

CONSTANTS
    Ours,      \* bodies of the messages the user sends
    Theirs,    \* bodies of the messages of the peer
    Peers,     \* the peers looked at: what kinds of frames each of them sends
    RecvInit,  \* what random(0, TOKEN_MAX) may return in init
    None       \* nothing

Body == Ours \cup Theirs

Kind == {"data", "ack", "sync", "resend"}

ASSUME DeviceAssumption ==
    /\ Ours \cap Theirs = {} /\ None \notin Body
    /\ Peers \subseteq SUBSET Kind
    /\ RecvInit \subseteq Token

Content == [kind : Kind, token : Token, body : Body \cup {None}]

Answer(kind, token) == [kind |-> kind, token |-> token, body |-> None]

\* What _crc holds when both tasks have fed it at once: the checksum of no frame.
Mixed == Answer("mixed", 0)

Task == {"user", "listener"}

VARIABLES
    peer,            \* the kinds of frames that the peer sends
    enc_buf,         \* [token, body]: the bytes last written to the two parts of the buffer
    crc,             \* the contents _crc has been fed with since its last reset, or Mixed
    is_sending,      \* the flag of the radio
    on_air,          \* the tasks between beginPacket and endPacket
    send_token, recv_token,   \* the entries of the peer
    radio,           \* the frame [content, sum] in the radio, or None
    response,        \* the answer in response_queue, cut down to one place, or None
    task,            \* [t]: where task t is, with its locals
    met              \* history: [t], where the other task has come between two steps of t

crypto == <<enc_buf, send_token, recv_token>>
chip   == <<is_sending, on_air>>
vars   == <<peer, crypto, crc, chip, radio, response, task, met>>

\* `out' is the frame being sent and `sum' its checksum; `size' is what decryptBytes returned
\* for the size; `given', `resend' and `wanted' (the token asked for) belong to the user's
\* call; `frame' is what the listener works on, and `before', the counter when it opened the
\* frame, is history.
Locals == [pc |-> "idle", job |-> "send", out |-> None, sum |-> None, size |-> "right",
           given |-> None, resend |-> FALSE, wanted |-> 0, frame |-> None, before |-> 0]

Init ==
    /\ peer \in Peers
    /\ enc_buf = [token |-> 0, body |-> None]
    /\ crc = Mixed /\ is_sending = FALSE /\ on_air = {}
    /\ send_token = 0 /\ recv_token \in RecvInit
    /\ radio = None /\ response = None
    /\ task = [t \in Task |-> Locals]
    /\ met = [t \in Task |-> {}]

At(t, p) == task[t].pc = p

Go(t, p) == task' = [task EXCEPT ![t].pc = p]

Other(t) == IF t = "user" THEN "listener" ELSE "user"

\* Task t has written to enc_buf and has not read all of it back.
UsesBuffer(t) ==
    task[t].pc \in {"body", "cipher", "rest", "size", "swap", "verdict", "copy"}

\* What a write of t to enc_buf does to the history; `anew': with it t begins to use it.
Write(t, anew) ==
    met' = [met EXCEPT ![t] = IF anew THEN @ \ {"enc_buf"} ELSE @,
                       ![Other(t)] = IF UsesBuffer(Other(t)) THEN @ \cup {"enc_buf"} ELSE @]

\* The user's task turns to sending c, the listener to answering with c.
Prepare(c) == [task["user"] EXCEPT !.pc = "feed", !.out = c]

Reply(c) == task' = [task EXCEPT !["listener"] = [Locals EXCEPT !.pc = "feed", !.out = c]]
-----------------------------------------------------------------------------
(***************************************************************************)
(* _send, as either task runs it; the listener also checks a frame with    *)
(* the first two steps.                                                    *)
(***************************************************************************)

\* The frame that t is sending, or has received.
InHand(t) == IF task[t].job = "send" THEN task[t].out ELSE task[t].frame.content

\* The other task has not yet read what it fed the object with.
Disturbed(t) == At(Other(t), "get")

\* Broken on purpose: the object goes on from where it was.
CrcNotReset(t) ==
    /\ At(t, "feed") /\ Go(t, "get")
    /\ crc' = IF crc = Mixed THEN InHand(t) ELSE Mixed
    /\ UNCHANGED <<peer, crypto, chip, radio, response, met>>

\* _crc.reset and _crc.add.
FeedCrc(t) ==
    /\ At(t, "feed") /\ Go(t, "get")
    /\ crc' \in {InHand(t)} \cup (IF Disturbed(t) THEN {Mixed} ELSE {})
    /\ met' = [x \in Task |-> IF Disturbed(t) THEN met[x] \cup {"crc"}
                              ELSE IF x = t THEN met[x] \ {"crc"} ELSE met[x]]
    /\ UNCHANGED <<peer, crypto, chip, radio, response>>

\* _crc.getCRC
GetCrc(t) ==
    /\ At(t, "get") /\ task[t].job = "send"
    /\ task' = [task EXCEPT ![t].pc = "transmit", ![t].sum = crc]
    /\ UNCHANGED <<peer, crypto, crc, chip, radio, response, met>>

\* Radio::send_bytes: the flag goes up, and the packet out.
BeginPacket(t) ==
    /\ At(t, "transmit") /\ Go(t, "transmitting")
    /\ is_sending' = TRUE /\ on_air' = on_air \cup {t}
    /\ met' = IF on_air # {} \/ At("listener", "parse")
              THEN [met EXCEPT !["listener"] = @ \cup {"radio"}] ELSE met
    /\ UNCHANGED <<peer, crypto, crc, radio, response>>

\* The packet is out and the flag comes down, whoever else is sending.
EndPacket(t) ==
    /\ At(t, "transmitting")
    /\ task' = [task EXCEPT ![t] = IF t = "user" THEN [@ EXCEPT !.pc = "wait", !.sum = None]
                                   ELSE Locals]
    /\ is_sending' = FALSE /\ on_air' = on_air \ {t}
    /\ met' = IF on_air' = {} THEN [met EXCEPT !["listener"] = @ \ {"radio"}] ELSE met
    /\ UNCHANGED <<peer, crypto, crc, radio, response>>

SendStep(t) == FeedCrc(t) \/ GetCrc(t) \/ BeginPacket(t) \/ EndPacket(t)
-----------------------------------------------------------------------------
(***************************************************************************)
(* decryptBytes, of swap_token and of decrypt, once it has written the     *)
(* block with the token: it writes the others and reads back how many      *)
(* bytes of padding there are.                                             *)
(***************************************************************************)
DecryptRest(t) ==
    /\ At(t, "rest") /\ Go(t, "size")
    /\ enc_buf' = [enc_buf EXCEPT !.body = InHand(t).body]
    /\ Write(t, FALSE)
    /\ UNCHANGED <<peer, send_token, recv_token, crc, chip, radio, response>>

\* When the last block is no longer the one it wrote, the padding may be any byte.
SizeRead(t) ==
    IF enc_buf.body = InHand(t).body /\ enc_buf.body # None THEN {"right"}
    ELSE {"right", "empty", "wrong"}

\* decrypt takes a message with nothing in it for good and does not look at its token.
ReadSize(t) ==
    /\ At(t, "size")
    /\ \E size \in SizeRead(t) :
          task' = [task EXCEPT ![t].size = size,
                               ![t].pc = IF t = "user" THEN "swap"
                                         ELSE IF size = "empty" THEN "copy" ELSE "verdict"]
    /\ UNCHANGED <<peer, crypto, crc, chip, radio, response, met>>

DecryptStep(t) == DecryptRest(t) \/ ReadSize(t)
-----------------------------------------------------------------------------
(***************************************************************************)
(* The user's task.                                                        *)
(***************************************************************************)

\* encrypt: the next token is written to the buffer, then the message, then both are read.
Encrypt(b) ==
    /\ At("user", "idle")
    /\ send_token' = NextToken(send_token)
    /\ enc_buf' = [enc_buf EXCEPT !.token = send_token']
    /\ task' = [task EXCEPT !["user"].pc = "body", !["user"].given = b, !["user"].resend = TRUE]
    /\ Write("user", TRUE)
    /\ UNCHANGED <<peer, recv_token, crc, chip, radio, response>>

PutBody ==
    /\ At("user", "body") /\ Go("user", "cipher")
    /\ enc_buf' = [enc_buf EXCEPT !.body = task["user"].given]
    /\ Write("user", FALSE)
    /\ UNCHANGED <<peer, send_token, recv_token, crc, chip, radio, response>>

\* encryptBytes, with the size it is given: a wrong one cuts the message or its token off.
Enciphered(size) ==
    [kind : {"data"},
     token : {enc_buf.token} \cup (IF size = "right" THEN {} ELSE {0}),
     body : {enc_buf.body} \cup (IF size = "right" THEN {} ELSE {None})]

\* encryptBytes, of encrypt and of swap_token; after the latter _send may resend, once.
CipherOut ==
    LET u == [task["user"] EXCEPT !.size = "right"]
        resending == u.out # None
    IN  /\ At("user", "cipher")
        /\ \E c \in Enciphered(task["user"].size) :
              task' = [task EXCEPT !["user"] =
                IF resending /\ ~ u.resend THEN [u EXCEPT !.pc = "wait", !.out = c]
                ELSE [u EXCEPT !.pc = "feed", !.out = c, !.resend = @ /\ ~ resending]]
        /\ UNCHANGED <<peer, crypto, crc, chip, radio, response, met>>

TakeResponse(kind) ==
    /\ At("user", "wait") /\ response # None /\ response.kind = kind
    /\ response' = None

Finish == task' = [task EXCEPT !["user"] = Locals]

\* ACK, or the timeout.
GotAck == TakeResponse("ack") /\ Finish /\ UNCHANGED <<peer, crypto, crc, chip, radio, met>>

Timeout ==
    /\ At("user", "wait") /\ Finish
    /\ UNCHANGED <<peer, crypto, crc, chip, radio, response, met>>

\* A second request to resend is not followed.
GotResend ==
    /\ TakeResponse("resend")
    /\ task' = [task EXCEPT !["user"] = IF @.resend
                                        THEN [Prepare(@.out) EXCEPT !.resend = FALSE]
                                        ELSE @]
    /\ UNCHANGED <<peer, crypto, crc, chip, radio, met>>

\* swap_token: the message is decrypted into the buffer and its token overwritten there.
GotSync ==
    /\ TakeResponse("sync")
    /\ enc_buf' = [enc_buf EXCEPT !.token = task["user"].out.token]
    /\ task' = [task EXCEPT !["user"].pc = "rest", !["user"].wanted = response.token]
    /\ Write("user", FALSE)
    /\ UNCHANGED <<peer, send_token, recv_token, crc, chip, radio>>

\* Broken on purpose: the message is not encrypted again.
SwapTokenOnly ==
    /\ At("user", "swap")
    /\ send_token' = task["user"].wanted
    /\ enc_buf' = [enc_buf EXCEPT !.token = send_token']
    /\ task' = [task EXCEPT !["user"] =
                  IF @.resend THEN [Prepare(@.out) EXCEPT !.resend = FALSE]
                  ELSE [@ EXCEPT !.pc = "wait"]]
    /\ Write("user", FALSE)
    /\ UNCHANGED <<peer, recv_token, crc, chip, radio, response>>

SwapToken ==
    /\ At("user", "swap") /\ Go("user", "cipher")
    /\ send_token' = task["user"].wanted
    /\ enc_buf' = [enc_buf EXCEPT !.token = send_token']
    /\ Write("user", FALSE)
    /\ UNCHANGED <<peer, recv_token, crc, chip, radio, response>>

UserStep ==
    \/ \E b \in Ours : Encrypt(b)
    \/ PutBody \/ CipherOut \/ SendStep("user") \/ DecryptStep("user")
    \/ GotAck \/ Timeout \/ GotResend \/ GotSync \/ SwapToken
-----------------------------------------------------------------------------
(***************************************************************************)
(* The listener's task.                                                    *)
(***************************************************************************)
Work == task["listener"].frame.content

\* Broken on purpose: the flag is not looked at.
PollAlways ==
    /\ At("listener", "idle") /\ Go("listener", "parse")
    /\ UNCHANGED <<peer, crypto, crc, chip, radio, response, met>>

\* try_receive_bytes: the flag is looked at, and later the chip.
Poll ==
    /\ At("listener", "idle") /\ ~ is_sending /\ Go("listener", "parse")
    /\ UNCHANGED <<peer, crypto, crc, chip, radio, response, met>>

ParsePacket ==
    /\ At("listener", "parse")
    /\ task' = [task EXCEPT !["listener"] =
          IF radio = None THEN [@ EXCEPT !.pc = "idle"]
          ELSE [@ EXCEPT !.pc = "feed", !.job = "check", !.frame = radio]]
    /\ radio' = None
    /\ UNCHANGED <<peer, crypto, crc, chip, response, met>>

CheckedCrc == crc = task["listener"].frame.sum

BadCrc ==
    /\ At("listener", "get") /\ task["listener"].job = "check"
    /\ ~ CheckedCrc
    /\ Reply(Answer("resend", 0))
    /\ UNCHANGED <<peer, crypto, crc, chip, radio, response, met>>

GoodCrc == At("listener", "get") /\ task["listener"].job = "check" /\ CheckedCrc

Enqueue ==
    /\ GoodCrc /\ Work.kind # "data"
    /\ task' = [task EXCEPT !["listener"] = Locals]
    /\ response' = IF response = None THEN Work ELSE response
    /\ UNCHANGED <<peer, crypto, crc, chip, radio, met>>

\* decrypt: the block with the token is written, the others follow, then the token is checked
\* in the buffer and the rest copied from it.
Decrypt ==
    /\ GoodCrc /\ Work.kind = "data"
    /\ enc_buf' = [enc_buf EXCEPT !.token = Work.token]
    /\ task' = [task EXCEPT !["listener"].pc = "rest", !["listener"].before = recv_token]
    /\ Write("listener", TRUE)
    /\ UNCHANGED <<peer, send_token, recv_token, crc, chip, radio, response>>

\* Broken on purpose: the token is remembered and not compared.
AcceptAnyToken ==
    /\ At("listener", "verdict") /\ Go("listener", "copy")
    /\ recv_token' = enc_buf.token
    /\ UNCHANGED <<peer, enc_buf, send_token, crc, chip, radio, response, met>>

AcceptToken ==
    /\ At("listener", "verdict") /\ ValidToken(enc_buf.token, recv_token)
    /\ Go("listener", "copy")
    /\ recv_token' = enc_buf.token
    /\ UNCHANGED <<peer, enc_buf, send_token, crc, chip, radio, response, met>>

RefuseToken ==
    /\ At("listener", "verdict") /\ ~ ValidToken(enc_buf.token, recv_token)
    /\ Reply(Answer("sync", NextToken(recv_token)))
    /\ UNCHANGED <<peer, crypto, crc, chip, radio, response, met>>

\* Broken on purpose: the token is remembered only now, and read from the buffer again.
CopyStoresToken ==
    /\ At("listener", "copy")
    /\ recv_token' = enc_buf.token
    /\ Reply(Answer("ack", 0))
    /\ UNCHANGED <<peer, enc_buf, send_token, crc, chip, radio, response, met>>

Copy ==
    /\ At("listener", "copy")
    /\ Reply(Answer("ack", 0))
    /\ UNCHANGED <<peer, crypto, crc, chip, radio, response, met>>

ListenerStep ==
    \/ Poll \/ ParsePacket \/ SendStep("listener")
    \/ BadCrc \/ Enqueue
    \/ Decrypt \/ DecryptStep("listener") \/ AcceptToken \/ RefuseToken \/ Copy
-----------------------------------------------------------------------------
\* What the peer sends.  Only a SYNC carries a token of its own.
Incoming ==
    [kind : peer \cap {"data"}, token : Token, body : Theirs]
        \cup {Answer(k, 0) : k \in peer \cap {"ack", "resend"}}
        \cup {Answer(k, t) : k \in peer \cap {"sync"}, t \in Token}

\* A damaged frame carries the checksum of what it was.
Arrive ==
    /\ radio = None
    /\ \E c \in Incoming : \E t \in {c.token, NextToken(c.token)} :
          radio' = [content |-> c, sum |-> [c EXCEPT !.token = t]]
    /\ UNCHANGED <<peer, crypto, crc, chip, response, task, met>>

Next == UserStep \/ ListenerStep \/ Arrive

Spec == Init /\ [][Next]_vars
-----------------------------------------------------------------------------
\* Every variable keeps its shape.
TypeOK ==
    /\ peer \in Peers
    /\ enc_buf \in [token : Token, body : Body \cup {None}]
    /\ crc \in Content \cup {Mixed}
    /\ is_sending \in BOOLEAN /\ on_air \subseteq Task
    /\ send_token \in Token /\ recv_token \in Token
    /\ response \in Content \cup {None}
    /\ \A t \in Task : task[t].out \in Content \cup {None}
    /\ met \in [Task -> SUBSET {"enc_buf", "crc", "radio"}]

Listener == task["listener"]

Alone(t, thing) == thing \notin met[t]

\* loraEncryption.h:113 "zwraca false, gdy token jest zły" (returns false when the token is
\* wrong): decrypt succeeds only for a frame whose own token is valid, and the counter is
\* then that token, unless the user's task has written to enc_buf meanwhile: a frame that
\* was left alone is neither taken for empty nor judged by another's token.
VerdictRight ==
    At("listener", "copy") /\ Alone("listener", "enc_buf") =>
        ValidToken(Work.token, Listener.before) /\ recv_token = Work.token

\* loraTransport.h:228 "wysyła wiadomość" (sends the message): what goes on the air, first
\* or again, is the message given to send_with_ack, with the token the device last took for
\* its peer, unless the listener has decrypted a frame while the message was in enc_buf.
SentAsGiven ==
    "user" \in on_air /\ Alone("user", "enc_buf") =>
        task["user"].out = [kind |-> "data", token |-> send_token, body |-> task["user"].given]

\* A frame leaves with the checksum of its contents, and one that arrives is compared with
\* its own, whatever _crc was used for before, unless the tasks have fed it at once.
ChecksumRight ==
    /\ \A t \in on_air : Alone(t, "crc") => task[t].sum = task[t].out
    /\ At("listener", "get") /\ Listener.job = "check" /\ Alone("listener", "crc") => crc = Work

\* The receive counter does not go back, also when the two tasks meet in the buffer: the
\* token that _validate_token compared is the one it remembers.
ReceiveCounterGrows == [][recv_token' >= recv_token]_vars

\* loraRadio.h:15 "jak radio wysyła, nie może jednocześnie słuchać" (while the radio sends it
\* cannot listen): the listener goes to the chip while a packet is going out only if that
\* began after it had looked at the flag, or if both tasks were sending at once and the
\* listener, which ended first, has taken the flag down.
ListensAlone == At("listener", "parse") /\ Alone("listener", "radio") => on_air = {}
=============================================================================
