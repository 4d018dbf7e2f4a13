-------------------------- MODULE LoraDeviceProofs --------------------------
(***************************************************************************)
(* Proofs about the two tasks of a device.  A property that excuses a task *)
(* once the other has come between two of its steps cannot be shown from   *)
(* itself: DeviceInv says what a task that was left alone has in the       *)
(* shared memory at each place between its steps.                          *)
(***************************************************************************)
EXTENDS LoraDevice, TLAPS

Place == {"idle", "body", "cipher", "rest", "size", "swap", "wait", "parse", "verdict",
          "copy", "feed", "get", "transmit", "transmitting"}

Size == {"right", "empty", "wrong"}

\* A message that comes off the air has a body.
Packet == [content : {c \in Content : c.kind = "data" => c.body \in Body}, sum : Content]

Record == [pc : Place, job : {"send", "check"}, out : Content \cup {None},
           sum : Content \cup {Mixed, None}, size : Size, given : Body \cup {None},
           resend : BOOLEAN, wanted : Token, frame : Packet \cup {None}, before : Token]

\* What the user's task has in hand at each place, and the listener.
UserTyped(l) ==
    /\ l.job = "send" /\ l.pc \notin {"parse", "verdict", "copy"}
    /\ l.pc # "idle" => l.given \in Body
    /\ l.pc \in {"feed", "get", "transmit", "transmitting", "wait", "rest", "size", "swap"} =>
          l.out \in Content
    /\ l.pc \notin {"swap", "cipher"} => l.size = "right"

ListenerTyped(l) ==
    /\ l.pc \notin {"body", "cipher", "swap", "wait"}
    /\ l.pc \in {"transmit", "transmitting"} => l.job = "send"
    /\ l.pc \in {"rest", "size", "verdict", "copy"} => l.job = "check"
    /\ l.job = "send" /\ l.pc \in {"feed", "get", "transmit", "transmitting"} =>
          l.out \in Content
    /\ l.job = "check" => /\ l.pc \in {"feed", "get", "rest", "size", "verdict", "copy"}
                          /\ l.frame \in Packet
    /\ l.pc \in {"rest", "size"} => l.frame.content.kind = "data"

Typed(t, l) ==
    /\ l \in Record
    /\ t = "user" => UserTyped(l)
    /\ t = "listener" => ListenerTyped(l)

TasksTyped == task \in [Task -> Record] /\ \A t \in Task : Typed(t, task[t])

\* The shape of every variable, the locals of the tasks included.
Types ==
    /\ TypeOK
    /\ radio \in Packet \cup {None}
    /\ TasksTyped

\* The user's message in the buffer, and then in the frame.
UserBuffer ==
    LET u == task["user"]
    IN  Alone("user", "enc_buf") =>
          /\ u.pc = "body" => enc_buf.token = send_token
          /\ u.pc = "size" => enc_buf.body = u.given
          /\ u.pc = "swap" => enc_buf.body = u.given /\ u.size = "right"
          /\ u.pc = "cipher" =>
                enc_buf.token = send_token /\ enc_buf.body = u.given /\ u.size = "right"
          /\ u.pc \in {"feed", "get", "transmit", "transmitting", "wait", "rest", "size",
                       "swap"} =>
                u.out.kind = "data" /\ u.out.body = u.given
          /\ u.pc \in {"feed", "get", "transmit", "transmitting", "wait"} =>
                u.out.token = send_token

\* The frame of the peer in the buffer; the counter moves only once it is checked.
ListenerBuffer ==
    /\ Listener.pc \in {"rest", "size", "verdict"} => Listener.before = recv_token
    /\ Alone("listener", "enc_buf") =>
          /\ Listener.pc \in {"rest", "size", "verdict", "copy"} => enc_buf.token = Work.token
          /\ Listener.pc \in {"size", "verdict", "copy"} => enc_buf.body = Work.body
          /\ Listener.pc = "copy" =>
                ValidToken(Work.token, Listener.before) /\ recv_token = Work.token

\* The checksum object holds what the task fed it with, and the frame what it then read.
Sums ==
    \A t \in Task : Alone(t, "crc") =>
        /\ task[t].pc = "get" => crc = InHand(t)
        /\ task[t].pc \in {"transmit", "transmitting"} => task[t].sum = task[t].out

\* Who is on the air, and what the flag says of it.
Air ==
    /\ \A t \in Task : t \in on_air <=> task[t].pc = "transmitting"
    /\ ("user" \in on_air /\ "listener" \in on_air) => ~ Alone("listener", "radio")
    /\ on_air # {} => is_sending \/ ~ Alone("listener", "radio")
    /\ on_air # {} /\ Listener.pc = "parse" => ~ Alone("listener", "radio")

DeviceInv == Types /\ UserBuffer /\ ListenerBuffer /\ Sums /\ Air
-----------------------------------------------------------------------------
LEMMA NextTokenType ==
    ASSUME NEW t \in Token
    PROVE  NextToken(t) \in Token
BY TokenAssumption DEF NextToken, Token

LEMMA ValidTokenGrows ==
    ASSUME NEW t \in Token, NEW r \in Token, ValidToken(t, r)
    PROVE  t >= r
BY TokenAssumption DEF ValidToken, TokenDiff, Token

LEMMA ZeroToken == 0 \in Token
BY TokenAssumption DEF Token

LEMMA AnswerContent ==
    ASSUME NEW k \in Kind, NEW t \in Token
    PROVE  Answer(k, t) \in Content
BY DEF Answer, Content

LEMMA LocalsTyped == \A t \in Task : Locals \in Record /\ Typed(t, Locals)
<1>1. Locals \in Record
  BY ZeroToken DEF Record, Locals, Place, Size
<1> QED
  BY <1>1 DEF Typed, UserTyped, ListenerTyped, Locals, Task

\* A step of one task keeps the shapes when what that task then has in hand has its own.
LEMMA Moved ==
    ASSUME TasksTyped, NEW t \in Task, NEW l, Typed(t, l), task' = [task EXCEPT ![t] = l]
    PROVE  /\ TasksTyped' /\ task'[t] = l
           /\ \A u \in Task : u # t => task'[u] = task[u]
           /\ \A u \in Task : task'[u].out \in Content \cup {None}
<1>1. l \in Record /\ task \in [Task -> Record]
  BY DEF TasksTyped, Typed
<1>2. task' \in [Task -> Record] /\ task'[t] = l /\ \A u \in Task : u # t => task'[u] = task[u]
  BY <1>1
<1>3. \A u \in Task : Typed(u, task'[u])
  BY <1>2 DEF TasksTyped
<1>4. \A u \in Task : task'[u].out \in Content \cup {None}
  BY <1>2 DEF Record
<1> QED
  BY <1>2, <1>3, <1>4 DEF TasksTyped

LEMMA InitTypes == Init => Types
<1> SUFFICES ASSUME Init PROVE Types
  OBVIOUS
<1>1. TasksTyped
  BY LocalsTyped DEF Init, TasksTyped
<1>2. \A t \in Task : task[t].out \in Content \cup {None}
  BY <1>1 DEF TasksTyped, Record
<1>3. enc_buf \in [token : Token, body : Body \cup {None}] /\ recv_token \in Token
  BY ZeroToken, DeviceAssumption DEF Init
<1> QED
  BY <1>1, <1>2, <1>3, ZeroToken DEF Init, Types, TypeOK

LEMMA FeedTypes ==
    ASSUME Types, NEW t \in Task, FeedCrc(t)
    PROVE  Types' /\ task'[t] = [task[t] EXCEPT !.pc = "get"]
                  /\ \A u \in Task : u # t => task'[u] = task[u]
<1> DEFINE l == [task[t] EXCEPT !.pc = "get"]
<1>1. Typed(t, task[t])
  BY DEF Types, TasksTyped
<1>2. Typed(t, l)
  BY <1>1 DEF FeedCrc, At, Typed, UserTyped, ListenerTyped, Record, Place
<1>3. task' = [task EXCEPT ![t] = l]
  BY DEF FeedCrc, Go
<1>4. InHand(t) \in Content
  BY <1>1 DEF FeedCrc, At, Typed, UserTyped, ListenerTyped, InHand, Packet, Record, Task
<1>5. crc' \in Content \cup {Mixed} /\ met' \in [Task -> SUBSET {"enc_buf", "crc", "radio"}]
  BY <1>4 DEF FeedCrc, Types, TypeOK
<1> QED
  BY <1>2, <1>3, <1>5, Moved DEF FeedCrc, Types, TypeOK, crypto, chip

LEMMA GetTypes ==
    ASSUME Types, NEW t \in Task, GetCrc(t)
    PROVE  Types' /\ task'[t] = [task[t] EXCEPT !.pc = "transmit", !.sum = crc]
                  /\ \A u \in Task : u # t => task'[u] = task[u]
<1> DEFINE l == [task[t] EXCEPT !.pc = "transmit", !.sum = crc]
<1>1. Typed(t, task[t])
  BY DEF Types, TasksTyped
<1>2. Typed(t, l)
  BY <1>1 DEF GetCrc, At, Typed, UserTyped, ListenerTyped, Record, Place, Types, TypeOK
<1>3. task' = [task EXCEPT ![t] = l]
  BY DEF GetCrc
<1> QED
  BY <1>2, <1>3, Moved DEF GetCrc, Types, TypeOK, crypto, chip

LEMMA BeginTypes ==
    ASSUME Types, NEW t \in Task, BeginPacket(t)
    PROVE  Types' /\ task'[t] = [task[t] EXCEPT !.pc = "transmitting"]
                  /\ \A u \in Task : u # t => task'[u] = task[u]
<1> DEFINE l == [task[t] EXCEPT !.pc = "transmitting"]
<1>1. Typed(t, task[t])
  BY DEF Types, TasksTyped
<1>2. Typed(t, l)
  BY <1>1 DEF BeginPacket, At, Typed, UserTyped, ListenerTyped, Record, Place
<1>3. task' = [task EXCEPT ![t] = l]
  BY DEF BeginPacket, Go
<1>4. on_air' \subseteq Task /\ met' \in [Task -> SUBSET {"enc_buf", "crc", "radio"}]
  BY DEF BeginPacket, Types, TypeOK
<1> QED
  BY <1>2, <1>3, <1>4, Moved DEF BeginPacket, Types, TypeOK, crypto

LEMMA EndTypes ==
    ASSUME Types, NEW t \in Task, EndPacket(t)
    PROVE  Types' /\ task'[t] = (IF t = "user" THEN [task[t] EXCEPT !.pc = "wait", !.sum = None]
                                 ELSE Locals)
                  /\ \A u \in Task : u # t => task'[u] = task[u]
<1> DEFINE l == IF t = "user" THEN [task[t] EXCEPT !.pc = "wait", !.sum = None] ELSE Locals
<1>1. Typed(t, task[t])
  BY DEF Types, TasksTyped
<1>2. Typed(t, l)
  BY <1>1, LocalsTyped DEF EndPacket, At, Typed, UserTyped, ListenerTyped, Record, Place
<1>3. task' = [task EXCEPT ![t] = l]
  BY DEF EndPacket
<1>4. on_air' \subseteq Task /\ met' \in [Task -> SUBSET {"enc_buf", "crc", "radio"}]
  BY DEF EndPacket, Types, TypeOK
<1> QED
  BY <1>2, <1>3, <1>4, Moved DEF EndPacket, Types, TypeOK, crypto
\* What a write to enc_buf does to the history.
LEMMA WriteMeets ==
    ASSUME met \in [Task -> SUBSET {"enc_buf", "crc", "radio"}],
           NEW t \in Task, NEW anew \in BOOLEAN, Write(t, anew)
    PROVE  /\ met' \in [Task -> SUBSET {"enc_buf", "crc", "radio"}]
           /\ \A u \in Task : \A thing \in {"crc", "radio"} : Alone(u, thing)' <=> Alone(u, thing)
           /\ Alone(Other(t), "enc_buf")' =>
                  Alone(Other(t), "enc_buf") /\ ~ UsesBuffer(Other(t))
           /\ ~ anew /\ Alone(t, "enc_buf")' => Alone(t, "enc_buf")
BY DEF Write, Alone, Other, Task

LEMMA EncryptTypes ==
    ASSUME Types, NEW b \in Ours, Encrypt(b)
    PROVE  Types' /\ task'["user"] = [task["user"] EXCEPT !.pc = "body", !.given = b,
                                                          !.resend = TRUE]
                  /\ task'["listener"] = task["listener"]
<1> DEFINE l == [task["user"] EXCEPT !.pc = "body", !.given = b, !.resend = TRUE]
<1>1. "user" \in Task /\ "listener" \in Task /\ Typed("user", task["user"])
  BY DEF Types, TasksTyped, Task
<1>2. Typed("user", l)
  BY <1>1 DEF Encrypt, At, Typed, UserTyped, ListenerTyped, Record, Place, Body
<1>3. task' = [task EXCEPT !["user"] = l]
  BY DEF Encrypt
<1>4. met' \in [Task -> SUBSET {"enc_buf", "crc", "radio"}]
  BY <1>1, WriteMeets DEF Encrypt, Types, TypeOK
<1>5. send_token' \in Token
  BY NextTokenType DEF Encrypt, Types, TypeOK
<1>6. enc_buf' \in [token : Token, body : Body \cup {None}]
  BY <1>5 DEF Encrypt, Types, TypeOK
<1>7. /\ TasksTyped' /\ task'["user"] = l /\ task'["listener"] = task["listener"]
      /\ \A t \in Task : task'[t].out \in Content \cup {None}
  <2> HIDE DEF l
  <2> QED
    BY <1>1, <1>2, <1>3, Moved DEF Types
<1>8. UNCHANGED <<peer, recv_token, crc, chip, radio, response>>
  BY DEF Encrypt
<1> QED
  BY <1>4, <1>5, <1>6, <1>7, <1>8 DEF Types, TypeOK, chip

LEMMA PutBodyTypes ==
    ASSUME Types, PutBody
    PROVE  Types' /\ task'["user"] = [task["user"] EXCEPT !.pc = "cipher"]
                  /\ task'["listener"] = task["listener"]
<1> DEFINE l == [task["user"] EXCEPT !.pc = "cipher"]
<1>1. "user" \in Task /\ "listener" \in Task /\ Typed("user", task["user"])
  BY DEF Types, TasksTyped, Task
<1>2. Typed("user", l)
  BY <1>1 DEF PutBody, At, Typed, UserTyped, ListenerTyped, Record, Place
<1>3. task' = [task EXCEPT !["user"] = l]
  BY DEF PutBody, Go
<1>4. met' \in [Task -> SUBSET {"enc_buf", "crc", "radio"}]
  BY <1>1, WriteMeets DEF PutBody, Types, TypeOK
<1>5. enc_buf' \in [token : Token, body : Body \cup {None}]
  BY <1>1 DEF PutBody, Types, TypeOK, Typed, UserTyped, ListenerTyped, Record
<1> QED
  BY <1>1, <1>2, <1>3, <1>4, <1>5, Moved DEF PutBody, Types, TypeOK, chip

LEMMA CipherOutTypes ==
    ASSUME Types, CipherOut
    PROVE  /\ Types'
           /\ task'["user"].pc \in {"feed", "wait"}
           /\ task'["user"].out \in Enciphered(task["user"].size)
           /\ task'["user"].given = task["user"].given
           /\ task'["listener"] = task["listener"]
<1> DEFINE u == [task["user"] EXCEPT !.size = "right"]
           l(c) == IF u.out # None /\ ~ u.resend THEN [u EXCEPT !.pc = "wait", !.out = c]
                   ELSE [u EXCEPT !.pc = "feed", !.out = c,
                                  !.resend = @ /\ ~ (u.out # None)]
<1>1. "user" \in Task /\ "listener" \in Task /\ Typed("user", task["user"])
  BY DEF Types, TasksTyped, Task
<1>2. PICK c \in Enciphered(task["user"].size) : task' = [task EXCEPT !["user"] = l(c)]
  BY DEF CipherOut
<1>3. c \in Content
  BY ZeroToken DEF Enciphered, Types, TypeOK, Content, Kind
<1>4. Typed("user", l(c)) /\ l(c).pc \in {"feed", "wait"} /\ l(c).out = c
      /\ l(c).given = task["user"].given
  BY <1>1, <1>3 DEF CipherOut, At, Typed, UserTyped, Record, Place, Size
<1>5. Types' /\ task'["user"] = l(c) /\ task'["listener"] = task["listener"]
  <2> HIDE DEF l
  <2>1. /\ TasksTyped' /\ task'["user"] = l(c) /\ task'["listener"] = task["listener"]
        /\ \A t \in Task : task'[t].out \in Content \cup {None}
    BY <1>1, <1>2, <1>4, Moved DEF Types
  <2>2. UNCHANGED <<peer, enc_buf, send_token, recv_token, crc, is_sending, on_air, radio,
                    response, met>>
    BY DEF CipherOut, crypto, chip
  <2> QED
    BY <2>1, <2>2 DEF Types, TypeOK
<1> QED
  BY <1>2, <1>4, <1>5

LEMMA FinishTypes ==
    ASSUME Types, GotAck \/ Timeout
    PROVE  Types' /\ task'["user"] = Locals /\ task'["listener"] = task["listener"]
<1>1. "user" \in Task /\ "listener" \in Task /\ Typed("user", Locals)
  BY LocalsTyped DEF Task
<1>2. task' = [task EXCEPT !["user"] = Locals]
  BY DEF GotAck, Timeout, Finish
<1>3. response' \in Content \cup {None} /\ UNCHANGED <<peer, crypto, crc, chip, radio, met>>
  BY DEF GotAck, Timeout, TakeResponse, Types, TypeOK
<1> QED
  BY <1>1, <1>2, <1>3, Moved DEF Types, TypeOK, crypto, chip

LEMMA GotResendTypes ==
    ASSUME Types, GotResend
    PROVE  /\ Types'
           /\ task'["user"].pc \in {"feed", "wait"} /\ task'["user"].out = task["user"].out
           /\ task'["user"].given = task["user"].given
           /\ task'["listener"] = task["listener"]
<1> DEFINE u == task["user"]
           l == IF u.resend THEN [Prepare(u.out) EXCEPT !.resend = FALSE] ELSE u
<1>1. "user" \in Task /\ "listener" \in Task /\ Typed("user", u)
  BY DEF Types, TasksTyped, Task
<1>2. task' = [task EXCEPT !["user"] = l]
  BY DEF GotResend
<1>3. Typed("user", l) /\ l.pc \in {"feed", "wait"} /\ l.out = u.out /\ l.given = u.given
  BY <1>1 DEF GotResend, TakeResponse, At, Typed, UserTyped, ListenerTyped, Record, Place, Prepare
<1>4. Types' /\ task'["user"] = l /\ task'["listener"] = task["listener"]
  <2> HIDE DEF l
  <2>1. /\ TasksTyped' /\ task'["user"] = l /\ task'["listener"] = task["listener"]
        /\ \A t \in Task : task'[t].out \in Content \cup {None}
    BY <1>1, <1>2, <1>3, Moved DEF Types
  <2>2. /\ UNCHANGED <<peer, enc_buf, send_token, recv_token, crc, is_sending, on_air, radio,
                       met>>
        /\ response' = None
    BY DEF GotResend, TakeResponse, crypto, chip
  <2> QED
    BY <2>1, <2>2 DEF Types, TypeOK
<1> QED
  BY <1>3, <1>4

LEMMA GotSyncTypes ==
    ASSUME Types, GotSync
    PROVE  /\ Types'
           /\ task'["user"] = [task["user"] EXCEPT !.pc = "rest", !.wanted = response.token]
           /\ task'["listener"] = task["listener"]
<1> DEFINE l == [task["user"] EXCEPT !.pc = "rest", !.wanted = response.token]
<1>1. "user" \in Task /\ "listener" \in Task /\ Typed("user", task["user"])
  BY DEF Types, TasksTyped, Task
<1>2. response.token \in Token
  BY DEF GotSync, TakeResponse, Types, TypeOK, Content
<1>3. Typed("user", l)
  BY <1>1, <1>2 DEF GotSync, TakeResponse, At, Typed, UserTyped, ListenerTyped, Record, Place
<1>4. task' = [task EXCEPT !["user"] = l]
  BY DEF GotSync
<1>5. met' \in [Task -> SUBSET {"enc_buf", "crc", "radio"}]
  BY <1>1, WriteMeets DEF GotSync, Types, TypeOK
<1>6. enc_buf' \in [token : Token, body : Body \cup {None}]
  BY <1>1 DEF GotSync, TakeResponse, At, Types, TypeOK, Typed, UserTyped, Content
<1> QED
  BY <1>1, <1>3, <1>4, <1>5, <1>6, Moved, ZenonT(30)
     DEF GotSync, TakeResponse, Types, TypeOK, chip

LEMMA SwapTokenTypes ==
    ASSUME Types, SwapToken
    PROVE  Types' /\ task'["user"] = [task["user"] EXCEPT !.pc = "cipher"]
                  /\ task'["listener"] = task["listener"]
<1> DEFINE l == [task["user"] EXCEPT !.pc = "cipher"]
<1>1. "user" \in Task /\ "listener" \in Task /\ Typed("user", task["user"])
  BY DEF Types, TasksTyped, Task
<1>2. Typed("user", l)
  BY <1>1 DEF SwapToken, At, Typed, UserTyped, ListenerTyped, Record, Place
<1>3. task' = [task EXCEPT !["user"] = l]
  BY DEF SwapToken, Go
<1>4. met' \in [Task -> SUBSET {"enc_buf", "crc", "radio"}]
  BY <1>1, WriteMeets DEF SwapToken, Types, TypeOK
<1>5. send_token' \in Token
  BY <1>1 DEF SwapToken, Typed, UserTyped, ListenerTyped, Record
<1>6. enc_buf' \in [token : Token, body : Body \cup {None}]
  BY <1>5 DEF SwapToken, Types, TypeOK
<1> QED
  BY <1>1, <1>2, <1>3, <1>4, <1>5, <1>6, Moved DEF SwapToken, Types, TypeOK, chip
LEMMA PollTypes ==
    ASSUME Types, Poll
    PROVE  Types' /\ task'["listener"] = [task["listener"] EXCEPT !.pc = "parse"]
                  /\ task'["user"] = task["user"]
<1> DEFINE l == [task["listener"] EXCEPT !.pc = "parse"]
<1>1. "user" \in Task /\ "listener" \in Task /\ Typed("listener", task["listener"])
  BY DEF Types, TasksTyped, Task
<1>2. Typed("listener", l)
  BY <1>1 DEF Poll, At, Typed, UserTyped, ListenerTyped, Record, Place
<1>3. task' = [task EXCEPT !["listener"] = l]
  BY DEF Poll, Go
<1> QED
  BY <1>1, <1>2, <1>3, Moved DEF Poll, Types, TypeOK, crypto, chip

LEMMA ParsePacketTypes ==
    ASSUME Types, ParsePacket
    PROVE  /\ Types' /\ task'["listener"].pc \in {"idle", "feed"}
           /\ task'["user"] = task["user"]
<1> DEFINE k == task["listener"]
           l == IF radio = None THEN [k EXCEPT !.pc = "idle"]
                ELSE [k EXCEPT !.pc = "feed", !.job = "check", !.frame = radio]
<1>1. "user" \in Task /\ "listener" \in Task /\ Typed("listener", k)
  BY DEF Types, TasksTyped, Task
<1>2. Typed("listener", l) /\ l.pc \in {"idle", "feed"}
  BY <1>1 DEF ParsePacket, At, Typed, UserTyped, ListenerTyped, Record, Place, Types
<1>3. task' = [task EXCEPT !["listener"] = l]
  BY DEF ParsePacket
<1>4. TasksTyped' /\ task'["listener"] = l /\ task'["user"] = task["user"]
      /\ \A t \in Task : task'[t].out \in Content \cup {None}
  <2> HIDE DEF l
  <2> QED
    BY <1>1, <1>2, <1>3, Moved DEF Types
<1>5. /\ UNCHANGED <<peer, enc_buf, send_token, recv_token, crc, is_sending, on_air, response,
                     met>>
      /\ radio' = None
  BY DEF ParsePacket, crypto, chip
<1> QED
  BY <1>2, <1>4, <1>5 DEF Types, TypeOK

\* The listener turns to an answer.
LEMMA ReplyTypes ==
    ASSUME Types, NEW c \in Content, Reply(c)
    PROVE  /\ TasksTyped' /\ task'["listener"].pc = "feed"
           /\ task'["user"] = task["user"]
           /\ \A t \in Task : task'[t].out \in Content \cup {None}
<1> DEFINE l == [Locals EXCEPT !.pc = "feed", !.out = c]
<1>1. "user" \in Task /\ "listener" \in Task /\ Typed("listener", Locals)
  BY LocalsTyped DEF Task
<1>2. Typed("listener", l) /\ l.pc = "feed"
  BY <1>1 DEF Typed, UserTyped, ListenerTyped, Record, Place, Locals
<1>3. task' = [task EXCEPT !["listener"] = l]
  BY DEF Reply
<1> HIDE DEF l
<1> QED
  BY <1>1, <1>2, <1>3, Moved DEF Types

LEMMA AnswerTypes ==
    ASSUME Types, BadCrc \/ RefuseToken \/ Copy
    PROVE  /\ Types' /\ task'["listener"].pc = "feed"
           /\ task'["user"] = task["user"]
           /\ UNCHANGED <<enc_buf, crc, is_sending, on_air, send_token, recv_token, met>>
<1>1. UNCHANGED <<peer, enc_buf, send_token, recv_token, crc, is_sending, on_air, radio,
                  response, met>>
  BY DEF BadCrc, RefuseToken, Copy, crypto, chip
<1>2. \E k \in Kind : \E t \in Token : Reply(Answer(k, t))
  <2>1. CASE BadCrc
    BY <2>1, ZeroToken DEF BadCrc, Kind
  <2>2. CASE RefuseToken
    BY <2>2, NextTokenType DEF RefuseToken, Kind, Types, TypeOK
  <2>3. CASE Copy
    BY <2>3, ZeroToken DEF Copy, Kind
  <2> QED
    BY <2>1, <2>2, <2>3
<1>3. PICK c \in Content : Reply(c)
  BY <1>2, AnswerContent
<1> QED
  BY <1>1, <1>3, ReplyTypes DEF Types, TypeOK

LEMMA WorkContent ==
    ASSUME Types, Listener.job = "check"
    PROVE  Work \in Content
<1>1. Typed("listener", task["listener"])
  BY DEF Types, TasksTyped, Task
<1>2. task["listener"].frame \in Packet
  BY <1>1 DEF Typed, ListenerTyped, Listener, Task
<1> QED
  BY <1>2 DEF Packet, Work

LEMMA EnqueueTypes ==
    ASSUME Types, Enqueue
    PROVE  Types' /\ task'["listener"] = Locals /\ task'["user"] = task["user"]
<1>1. "user" \in Task /\ "listener" \in Task /\ Typed("listener", Locals)
  BY LocalsTyped DEF Task
<1>2. task' = [task EXCEPT !["listener"] = Locals]
  BY DEF Enqueue
<1>3. Work \in Content
  BY WorkContent DEF Enqueue, GoodCrc, Listener
<1>4. response' \in Content \cup {None}
  BY <1>3 DEF Enqueue, Types, TypeOK
<1>5. UNCHANGED <<peer, enc_buf, send_token, recv_token, crc, is_sending, on_air, radio, met>>
  BY DEF Enqueue, crypto, chip
<1>6. TasksTyped' /\ task'["listener"] = Locals /\ task'["user"] = task["user"]
      /\ \A t \in Task : task'[t].out \in Content \cup {None}
  BY <1>1, <1>2, Moved DEF Types
<1> QED
  BY <1>4, <1>5, <1>6 DEF Types, TypeOK

LEMMA DecryptTypes ==
    ASSUME Types, Decrypt
    PROVE  /\ Types'
           /\ task'["listener"] = [task["listener"] EXCEPT !.pc = "rest",
                                                           !.before = recv_token]
           /\ task'["user"] = task["user"]
<1> DEFINE l == [task["listener"] EXCEPT !.pc = "rest", !.before = recv_token]
<1>1. "user" \in Task /\ "listener" \in Task /\ Typed("listener", task["listener"])
  BY DEF Types, TasksTyped, Task
<1>2. Typed("listener", l)
  BY <1>1 DEF Decrypt, Work, GoodCrc, At, Typed, UserTyped, ListenerTyped, Record, Place, Types, TypeOK
<1>3. task' = [task EXCEPT !["listener"] = l]
  BY DEF Decrypt
<1>4. met' \in [Task -> SUBSET {"enc_buf", "crc", "radio"}]
  BY <1>1, WriteMeets DEF Decrypt, Types, TypeOK
<1>5. enc_buf' \in [token : Token, body : Body \cup {None}]
  <2>1. Work \in Content
    BY WorkContent DEF Decrypt, GoodCrc, Listener
  <2> QED
    BY <2>1 DEF Decrypt, Content, Types, TypeOK
<1>6. UNCHANGED <<peer, send_token, recv_token, crc, is_sending, on_air, radio, response>>
  BY DEF Decrypt, chip
<1>7. TasksTyped' /\ task'["listener"] = l /\ task'["user"] = task["user"]
      /\ \A t \in Task : task'[t].out \in Content \cup {None}
  <2> HIDE DEF l
  <2> QED
    BY <1>1, <1>2, <1>3, Moved DEF Types
<1> QED
  BY <1>4, <1>5, <1>6, <1>7 DEF Types, TypeOK

\* decryptBytes, by either task.
LEMMA RestTypes ==
    ASSUME Types, NEW t \in Task, DecryptRest(t)
    PROVE  Types' /\ task'[t] = [task[t] EXCEPT !.pc = "size"]
                  /\ \A u \in Task : u # t => task'[u] = task[u]
<1> DEFINE l == [task[t] EXCEPT !.pc = "size"]
<1>1. Typed(t, task[t])
  BY DEF Types, TasksTyped
<1>2. Typed(t, l)
  BY <1>1 DEF DecryptRest, At, Typed, UserTyped, ListenerTyped, Record, Place
<1>3. task' = [task EXCEPT ![t] = l]
  BY DEF DecryptRest, Go
<1>4. met' \in [Task -> SUBSET {"enc_buf", "crc", "radio"}]
  BY WriteMeets DEF DecryptRest, Types, TypeOK
<1>5. InHand(t) \in Content
  BY <1>1 DEF DecryptRest, At, Typed, UserTyped, ListenerTyped, InHand, Packet, Record, Task
<1>6. enc_buf' \in [token : Token, body : Body \cup {None}]
  BY <1>5 DEF DecryptRest, Types, TypeOK, Content
<1>7. /\ TasksTyped' /\ task'[t] = l /\ \A u \in Task : u # t => task'[u] = task[u]
      /\ \A u \in Task : task'[u].out \in Content \cup {None}
  <2> HIDE DEF l
  <2> QED
    BY <1>2, <1>3, Moved DEF Types
<1>8. UNCHANGED <<peer, send_token, recv_token, crc, is_sending, on_air, radio, response>>
  BY DEF DecryptRest, chip
<1> QED
  BY <1>4, <1>6, <1>7, <1>8 DEF Types, TypeOK

LEMMA SizeTypes ==
    ASSUME Types, NEW t \in Task, ReadSize(t)
    PROVE  /\ Types'
           /\ \E size \in SizeRead(t) :
                 task'[t] = [task[t] EXCEPT !.size = size,
                                            !.pc = IF t = "user" THEN "swap"
                                                   ELSE IF size = "empty" THEN "copy"
                                                   ELSE "verdict"]
           /\ \A u \in Task : u # t => task'[u] = task[u]
<1> DEFINE l(size) == [task[t] EXCEPT !.size = size,
                                      !.pc = IF t = "user" THEN "swap"
                                             ELSE IF size = "empty" THEN "copy" ELSE "verdict"]
<1>1. Typed(t, task[t])
  BY DEF Types, TasksTyped
<1>2. PICK size \in SizeRead(t) : task' = [task EXCEPT ![t] = l(size)]
  BY DEF ReadSize, Types, TasksTyped
<1>3. size \in Size
  BY DEF SizeRead, Size
<1>4. Typed(t, l(size))
  BY <1>1, <1>3 DEF ReadSize, At, Typed, UserTyped, ListenerTyped, Record, Place, Task
<1>5. /\ TasksTyped' /\ task'[t] = l(size) /\ \A u \in Task : u # t => task'[u] = task[u]
      /\ \A u \in Task : task'[u].out \in Content \cup {None}
  <2> HIDE DEF l
  <2> QED
    BY <1>2, <1>4, Moved DEF Types
<1>6. UNCHANGED <<peer, enc_buf, send_token, recv_token, crc, is_sending, on_air, radio,
                  response, met>>
  BY DEF ReadSize, crypto, chip
<1> QED
  BY <1>5, <1>6 DEF Types, TypeOK

LEMMA AcceptTokenTypes ==
    ASSUME Types, AcceptToken
    PROVE  Types' /\ task'["listener"] = [task["listener"] EXCEPT !.pc = "copy"]
                  /\ task'["user"] = task["user"]
<1> DEFINE l == [task["listener"] EXCEPT !.pc = "copy"]
<1>1. "user" \in Task /\ "listener" \in Task /\ Typed("listener", task["listener"])
  BY DEF Types, TasksTyped, Task
<1>2. Typed("listener", l)
  BY <1>1 DEF AcceptToken, At, Typed, UserTyped, ListenerTyped, Record, Place
<1>3. task' = [task EXCEPT !["listener"] = l]
  BY DEF AcceptToken, Go
<1>4. recv_token' \in Token
  BY DEF AcceptToken, Types, TypeOK
<1>5. TasksTyped' /\ task'["listener"] = l /\ task'["user"] = task["user"]
      /\ \A t \in Task : task'[t].out \in Content \cup {None}
  <2> HIDE DEF l
  <2> QED
    BY <1>1, <1>2, <1>3, Moved DEF Types
<1>6. UNCHANGED <<peer, enc_buf, send_token, crc, is_sending, on_air, radio, response, met>>
  BY DEF AcceptToken, chip
<1> QED
  BY <1>4, <1>5, <1>6 DEF Types, TypeOK

LEMMA ArriveTypes ==
    ASSUME Types, Arrive
    PROVE  Types'
<1>1. PICK c \in Incoming : \E t \in {c.token, NextToken(c.token)} :
                  radio' = [content |-> c, sum |-> [c EXCEPT !.token = t]]
  BY DEF Arrive
<1>2. peer \subseteq Kind
  BY DeviceAssumption DEF Types, TypeOK
<1>3. c \in Content
  <2>1. CASE c \in [kind : peer \cap {"data"}, token : Token, body : Theirs]
    BY <2>1, <1>2 DEF Content, Body
  <2>2. ASSUME NEW k \in peer, c = Answer(k, 0) PROVE c \in Content
    BY <2>2, <1>2, ZeroToken, AnswerContent
  <2>3. ASSUME NEW k \in peer, NEW t \in Token, c = Answer(k, t) PROVE c \in Content
    BY <2>3, <1>2, AnswerContent
  <2> QED
    BY <2>1, <2>2, <2>3 DEF Incoming
<1>4. PICK t \in Token : radio' = [content |-> c, sum |-> [c EXCEPT !.token = t]]
  BY <1>1, <1>3, NextTokenType DEF Content
<1>5. c.kind = "data" => c.body \in Body
  BY DEF Incoming, Answer, Body
<1>6. radio' \in Packet
  BY <1>3, <1>4, <1>5 DEF Packet, Content
<1>7. UNCHANGED <<peer, crypto, crc, chip, response, task, met>>
  BY DEF Arrive
<1> QED
  BY <1>6, <1>7 DEF Types, TypeOK, TasksTyped, crypto, chip
-----------------------------------------------------------------------------
(***************************************************************************)
(* What a step of one task leaves to the other.                            *)
(***************************************************************************)

LEMMA UserBufferKept ==
    ASSUME UserBuffer, task'["user"] = task["user"], send_token' = send_token,
           Alone("user", "enc_buf")' =>
              Alone("user", "enc_buf") /\ (enc_buf' = enc_buf \/ ~ UsesBuffer("user"))
    PROVE  UserBuffer'
BY DEF UserBuffer, UsesBuffer

LEMMA ListenerBufferKept ==
    ASSUME ListenerBuffer, task'["listener"] = task["listener"], recv_token' = recv_token,
           Alone("listener", "enc_buf")' =>
              Alone("listener", "enc_buf") /\ (enc_buf' = enc_buf \/ ~ UsesBuffer("listener"))
    PROVE  ListenerBuffer'
BY DEF ListenerBuffer, UsesBuffer, Work, Listener

LEMMA SumsKept ==
    ASSUME Sums, crc' = crc, \A t \in Task : Alone(t, "crc")' => Alone(t, "crc"),
           \A t \in Task : \/ task'[t] = task[t]
                           \/ task'[t].pc \notin {"get", "transmit", "transmitting"}
    PROVE  Sums'
<1> SUFFICES ASSUME NEW t \in Task, Alone(t, "crc")'
             PROVE  /\ task'[t].pc = "get" => crc' = InHand(t)'
                    /\ task'[t].pc \in {"transmit", "transmitting"} =>
                          task'[t].sum = task'[t].out
  BY DEF Sums
<1>1. /\ task[t].pc = "get" => crc = InHand(t)
      /\ task[t].pc \in {"transmit", "transmitting"} => task[t].sum = task[t].out
  BY DEF Sums
<1>2. CASE task'[t] = task[t]
  BY <1>1, <1>2 DEF InHand
<1>3. CASE task'[t].pc \notin {"get", "transmit", "transmitting"}
  BY <1>3
<1> QED
  BY <1>2, <1>3

LEMMA AirKept ==
    ASSUME Air, on_air' = on_air, is_sending' = is_sending,
           Alone("listener", "radio")' <=> Alone("listener", "radio"),
           \A t \in Task : task'[t].pc = "transmitting" <=> task[t].pc = "transmitting",
           task'["listener"].pc = "parse" => task["listener"].pc = "parse"
    PROVE  Air'
BY DEF Air, Listener

\* A step of the user's task, the sending apart, as far as the listener goes.
LEMMA UserMoves ==
    ASSUME DeviceInv, task'["listener"] = task["listener"],
           UNCHANGED <<crc, is_sending, on_air, recv_token>>,
           task["user"].pc # "transmitting",
           task'["user"].pc \notin {"get", "transmit", "transmitting"},
           \A u \in Task : \A thing \in {"crc", "radio"} : Alone(u, thing)' <=> Alone(u, thing),
           Alone("listener", "enc_buf")' =>
              Alone("listener", "enc_buf") /\ (enc_buf' = enc_buf \/ ~ UsesBuffer("listener"))
    PROVE  ListenerBuffer' /\ Sums' /\ Air'
<1>1. \A t \in Task : t = "user" \/ t = "listener"
  BY DEF Task
<1>2. "user" \in Task /\ "listener" \in Task
  BY DEF Task
<1>3. Sums'
  BY <1>1, SumsKept DEF DeviceInv
<1>4. Air'
  BY <1>1, <1>2, AirKept DEF DeviceInv
<1> QED
  BY <1>3, <1>4, ListenerBufferKept DEF DeviceInv

\* A step of the listener, the sending apart, as far as the user's task goes.
LEMMA ListenerMoves ==
    ASSUME DeviceInv, task'["user"] = task["user"],
           UNCHANGED <<crc, is_sending, on_air, send_token>>,
           task["listener"].pc # "transmitting",
           task'["listener"].pc \notin {"get", "transmit", "transmitting"},
           \A u \in Task : \A thing \in {"crc", "radio"} : Alone(u, thing)' <=> Alone(u, thing),
           Alone("user", "enc_buf")' =>
              Alone("user", "enc_buf") /\ (enc_buf' = enc_buf \/ ~ UsesBuffer("user"))
    PROVE  UserBuffer' /\ Sums' /\ (task'["listener"].pc # "parse" => Air')
<1>1. \A t \in Task : t = "user" \/ t = "listener"
  BY DEF Task
<1>2. "user" \in Task /\ "listener" \in Task
  BY DEF Task
<1>3. Sums'
  BY <1>1, SumsKept DEF DeviceInv
<1>4. task'["listener"].pc # "parse" => Air'
  BY <1>1, <1>2, AirKept DEF DeviceInv
<1> QED
  BY <1>3, <1>4, UserBufferKept DEF DeviceInv
-----------------------------------------------------------------------------
(***************************************************************************)
(* The steps of the user's task.                                           *)
(***************************************************************************)

LEMMA EncryptKeeps ==
    ASSUME DeviceInv, NEW b \in Ours, Encrypt(b)
    PROVE  DeviceInv'
<1>1. /\ Types' /\ task'["listener"] = task["listener"]
      /\ task'["user"] = [task["user"] EXCEPT !.pc = "body", !.given = b, !.resend = TRUE]
  BY EncryptTypes DEF DeviceInv
<1>2. task["user"] \in Record
  BY DEF DeviceInv, Types, TasksTyped, Typed, Task
<1>3. task'["user"].pc = "body" /\ task["user"].pc = "idle"
  <2>1. task["user"].pc = "idle"
    BY DEF Encrypt, At
  <2> QED
    BY <1>1, <1>2, <2>1 DEF Record
<1>4. /\ \A u \in Task : \A thing \in {"crc", "radio"} : Alone(u, thing)' <=> Alone(u, thing)
      /\ Alone("listener", "enc_buf")' =>
            Alone("listener", "enc_buf") /\ ~ UsesBuffer("listener")
  BY WriteMeets DEF Encrypt, DeviceInv, Types, TypeOK, Task, Other
<1>5. UNCHANGED <<crc, is_sending, on_air, recv_token>>
  BY DEF Encrypt, chip
<1>6. ListenerBuffer' /\ Sums' /\ Air'
  BY <1>1, <1>3, <1>4, <1>5, UserMoves
<1>7. enc_buf'.token = send_token'
  BY DEF Encrypt, DeviceInv, Types, TypeOK
<1>8. UserBuffer'
  BY <1>3, <1>7 DEF UserBuffer
<1> QED
  BY <1>1, <1>6, <1>8 DEF DeviceInv

LEMMA PutBodyKeeps ==
    ASSUME DeviceInv, PutBody
    PROVE  DeviceInv'
<1>1. /\ Types' /\ task'["listener"] = task["listener"]
      /\ task'["user"] = [task["user"] EXCEPT !.pc = "cipher"]
  BY PutBodyTypes DEF DeviceInv
<1>2. task["user"] \in Record
  BY DEF DeviceInv, Types, TasksTyped, Typed, Task
<1>3. task["user"].size = "right"
  BY DEF DeviceInv, Types, TasksTyped, Typed, UserTyped, PutBody, At, Task
<1>4. /\ task'["user"].pc = "cipher" /\ task["user"].pc = "body"
      /\ task'["user"].given = task["user"].given /\ task'["user"].size = "right"
  BY <1>1, <1>2, <1>3 DEF Record, PutBody, At
<1>5. /\ \A u \in Task : \A thing \in {"crc", "radio"} : Alone(u, thing)' <=> Alone(u, thing)
      /\ Alone("listener", "enc_buf")' =>
            Alone("listener", "enc_buf") /\ ~ UsesBuffer("listener")
      /\ Alone("user", "enc_buf")' => Alone("user", "enc_buf")
  BY WriteMeets DEF PutBody, DeviceInv, Types, TypeOK, Task, Other
<1>6. UNCHANGED <<crc, is_sending, on_air, recv_token, send_token>>
  BY DEF PutBody, chip
<1>7. ListenerBuffer' /\ Sums' /\ Air'
  BY <1>1, <1>4, <1>5, <1>6, UserMoves
<1>8. enc_buf'.token = enc_buf.token /\ enc_buf'.body = task["user"].given
  BY DEF PutBody, DeviceInv, Types, TypeOK
<1>9. UserBuffer'
  BY <1>4, <1>5, <1>6, <1>8 DEF UserBuffer, DeviceInv
<1> QED
  BY <1>1, <1>7, <1>9 DEF DeviceInv

LEMMA CipherOutKeeps ==
    ASSUME DeviceInv, CipherOut
    PROVE  DeviceInv'
<1>1. /\ Types' /\ task'["listener"] = task["listener"]
      /\ task'["user"].pc \in {"feed", "wait"}
      /\ task'["user"].out \in Enciphered(task["user"].size)
      /\ task'["user"].given = task["user"].given
  BY CipherOutTypes DEF DeviceInv
<1>2. task["user"].pc = "cipher"
  BY DEF CipherOut, At
<1>3. UNCHANGED <<crc, is_sending, on_air, recv_token, send_token, enc_buf, met>>
  BY DEF CipherOut, chip, crypto
<1>4. ListenerBuffer' /\ Sums' /\ Air'
  BY <1>1, <1>2, <1>3, UserMoves DEF Alone
<1>5. ASSUME Alone("user", "enc_buf")
      PROVE  /\ task'["user"].out.kind = "data" /\ task'["user"].out.token = send_token
             /\ task'["user"].out.body = task["user"].given
  <2>1. /\ task["user"].size = "right" /\ enc_buf.token = send_token
        /\ enc_buf.body = task["user"].given
    BY <1>2, <1>5 DEF UserBuffer, DeviceInv
  <2> QED
    BY <1>1, <2>1 DEF Enciphered
<1>6. UserBuffer'
  BY <1>1, <1>3, <1>5 DEF UserBuffer, Alone
<1> QED
  BY <1>1, <1>4, <1>6 DEF DeviceInv

LEMMA FinishKeeps ==
    ASSUME DeviceInv, GotAck \/ Timeout
    PROVE  DeviceInv'
<1>1. Types' /\ task'["listener"] = task["listener"] /\ task'["user"] = Locals
  BY FinishTypes DEF DeviceInv
<1>2. task["user"].pc = "wait" /\ task'["user"].pc = "idle"
  BY <1>1 DEF GotAck, Timeout, TakeResponse, At, Locals
<1>3. UNCHANGED <<crc, is_sending, on_air, recv_token, send_token, enc_buf, met>>
  BY DEF GotAck, Timeout, chip, crypto
<1>4. ListenerBuffer' /\ Sums' /\ Air'
  BY <1>1, <1>2, <1>3, UserMoves DEF Alone
<1>5. UserBuffer'
  BY <1>2 DEF UserBuffer
<1> QED
  BY <1>1, <1>4, <1>5 DEF DeviceInv

LEMMA GotResendKeeps ==
    ASSUME DeviceInv, GotResend
    PROVE  DeviceInv'
<1>1. /\ Types' /\ task'["listener"] = task["listener"]
      /\ task'["user"].pc \in {"feed", "wait"} /\ task'["user"].out = task["user"].out
      /\ task'["user"].given = task["user"].given
  BY GotResendTypes DEF DeviceInv
<1>2. task["user"].pc = "wait"
  BY DEF GotResend, TakeResponse, At
<1>3. UNCHANGED <<crc, is_sending, on_air, recv_token, send_token, enc_buf, met>>
  BY DEF GotResend, chip, crypto
<1>4. ListenerBuffer' /\ Sums' /\ Air'
  BY <1>1, <1>2, <1>3, UserMoves DEF Alone
<1>5. UserBuffer'
  BY <1>1, <1>2, <1>3 DEF UserBuffer, DeviceInv, Alone
<1> QED
  BY <1>1, <1>4, <1>5 DEF DeviceInv

LEMMA GotSyncKeeps ==
    ASSUME DeviceInv, GotSync
    PROVE  DeviceInv'
<1>1. /\ Types' /\ task'["listener"] = task["listener"]
      /\ task'["user"] = [task["user"] EXCEPT !.pc = "rest", !.wanted = response.token]
  BY GotSyncTypes DEF DeviceInv
<1>2. task["user"] \in Record
  BY DEF DeviceInv, Types, TasksTyped, Typed, Task
<1>3. /\ task'["user"].pc = "rest" /\ task["user"].pc = "wait"
      /\ task'["user"].given = task["user"].given /\ task'["user"].out = task["user"].out
  <2>1. task["user"].pc = "wait"
    BY DEF GotSync, TakeResponse, At
  <2> QED
    BY <1>1, <1>2, <2>1 DEF Record
<1>4. /\ \A u \in Task : \A thing \in {"crc", "radio"} : Alone(u, thing)' <=> Alone(u, thing)
      /\ Alone("listener", "enc_buf")' =>
            Alone("listener", "enc_buf") /\ ~ UsesBuffer("listener")
      /\ Alone("user", "enc_buf")' => Alone("user", "enc_buf")
  BY WriteMeets DEF GotSync, DeviceInv, Types, TypeOK, Task, Other
<1>5. UNCHANGED <<crc, is_sending, on_air, recv_token, send_token>>
  BY DEF GotSync, chip
<1>6. ListenerBuffer' /\ Sums' /\ Air'
  BY <1>1, <1>3, <1>4, <1>5, UserMoves
<1>7. UserBuffer'
  BY <1>3, <1>4 DEF UserBuffer, DeviceInv
<1> QED
  BY <1>1, <1>6, <1>7 DEF DeviceInv

LEMMA SwapTokenKeeps ==
    ASSUME DeviceInv, SwapToken
    PROVE  DeviceInv'
<1>1. /\ Types' /\ task'["listener"] = task["listener"]
      /\ task'["user"] = [task["user"] EXCEPT !.pc = "cipher"]
  BY SwapTokenTypes DEF DeviceInv
<1>2. task["user"] \in Record
  BY DEF DeviceInv, Types, TasksTyped, Typed, Task
<1>3. /\ task'["user"].pc = "cipher" /\ task["user"].pc = "swap"
      /\ task'["user"].given = task["user"].given /\ task'["user"].size = task["user"].size
  BY <1>1, <1>2 DEF Record, SwapToken, At
<1>4. /\ \A u \in Task : \A thing \in {"crc", "radio"} : Alone(u, thing)' <=> Alone(u, thing)
      /\ Alone("listener", "enc_buf")' =>
            Alone("listener", "enc_buf") /\ ~ UsesBuffer("listener")
      /\ Alone("user", "enc_buf")' => Alone("user", "enc_buf")
  BY WriteMeets DEF SwapToken, DeviceInv, Types, TypeOK, Task, Other
<1>5. UNCHANGED <<crc, is_sending, on_air, recv_token>>
  BY DEF SwapToken, chip
<1>6. ListenerBuffer' /\ Sums' /\ Air'
  BY <1>1, <1>3, <1>4, <1>5, UserMoves
<1>7. enc_buf'.token = send_token' /\ enc_buf'.body = enc_buf.body
  BY DEF SwapToken, DeviceInv, Types, TypeOK
<1>8. UserBuffer'
  BY <1>3, <1>4, <1>7 DEF UserBuffer, DeviceInv
<1> QED
  BY <1>1, <1>6, <1>8 DEF DeviceInv
-----------------------------------------------------------------------------
(***************************************************************************)
(* The steps of the listener's task.                                       *)
(***************************************************************************)

LEMMA PollKeeps ==
    ASSUME DeviceInv, Poll
    PROVE  DeviceInv'
<1>1. /\ Types' /\ task'["user"] = task["user"]
      /\ task'["listener"] = [task["listener"] EXCEPT !.pc = "parse"]
  BY PollTypes DEF DeviceInv
<1>2. task["listener"] \in Record
  BY DEF DeviceInv, Types, TasksTyped, Typed, Task
<1>3. task'["listener"].pc = "parse" /\ task["listener"].pc = "idle"
  <2>1. task["listener"].pc = "idle"
    BY DEF Poll, At
  <2> QED
    BY <1>1, <1>2, <2>1 DEF Record
<1>4. UNCHANGED <<crc, is_sending, on_air, recv_token, send_token, enc_buf, met>>
  BY DEF Poll, chip, crypto
<1>5. UserBuffer' /\ Sums'
  BY <1>1, <1>3, <1>4, ListenerMoves DEF Alone
<1>6. ListenerBuffer'
  BY <1>3 DEF ListenerBuffer, Listener
<1>7. Air'
  BY <1>1, <1>3, <1>4 DEF Air, DeviceInv, Poll, Alone, Listener, Task
<1> QED
  BY <1>1, <1>5, <1>6, <1>7 DEF DeviceInv

LEMMA ParsePacketKeeps ==
    ASSUME DeviceInv, ParsePacket
    PROVE  DeviceInv'
<1>1. /\ Types' /\ task'["user"] = task["user"]
      /\ task'["listener"].pc \in {"idle", "feed"}
  BY ParsePacketTypes DEF DeviceInv
<1>2. task["listener"].pc = "parse"
  BY DEF ParsePacket, At
<1>3. UNCHANGED <<crc, is_sending, on_air, recv_token, send_token, enc_buf, met>>
  BY DEF ParsePacket, chip, crypto
<1>4. UserBuffer' /\ Sums' /\ Air'
  BY <1>1, <1>2, <1>3, ListenerMoves DEF Alone
<1>5. ListenerBuffer'
  BY <1>1 DEF ListenerBuffer, Listener
<1> QED
  BY <1>1, <1>4, <1>5 DEF DeviceInv

LEMMA AnswerKeeps ==
    ASSUME DeviceInv, BadCrc \/ RefuseToken \/ Copy
    PROVE  DeviceInv'
<1>1. /\ Types' /\ task'["user"] = task["user"] /\ task'["listener"].pc = "feed"
      /\ UNCHANGED <<enc_buf, crc, is_sending, on_air, send_token, recv_token, met>>
  BY AnswerTypes DEF DeviceInv
<1>2. task["listener"].pc \in {"get", "verdict", "copy"}
  BY DEF BadCrc, RefuseToken, Copy, At
<1>3. UserBuffer' /\ Sums' /\ Air'
  BY <1>1, <1>2, ListenerMoves DEF Alone
<1>4. ListenerBuffer'
  BY <1>1 DEF ListenerBuffer, Listener
<1> QED
  BY <1>1, <1>3, <1>4 DEF DeviceInv

LEMMA EnqueueKeeps ==
    ASSUME DeviceInv, Enqueue
    PROVE  DeviceInv'
<1>1. Types' /\ task'["user"] = task["user"] /\ task'["listener"] = Locals
  BY EnqueueTypes DEF DeviceInv
<1>2. task["listener"].pc = "get" /\ task'["listener"].pc = "idle"
  BY <1>1 DEF Enqueue, GoodCrc, At, Locals
<1>3. UNCHANGED <<crc, is_sending, on_air, recv_token, send_token, enc_buf, met>>
  BY DEF Enqueue, chip, crypto
<1>4. UserBuffer' /\ Sums' /\ Air'
  BY <1>1, <1>2, <1>3, ListenerMoves DEF Alone
<1>5. ListenerBuffer'
  BY <1>2 DEF ListenerBuffer, Listener
<1> QED
  BY <1>1, <1>4, <1>5 DEF DeviceInv

LEMMA DecryptKeeps ==
    ASSUME DeviceInv, Decrypt
    PROVE  DeviceInv'
<1>1. /\ Types' /\ task'["user"] = task["user"]
      /\ task'["listener"] = [task["listener"] EXCEPT !.pc = "rest",
                                                      !.before = recv_token]
  BY DecryptTypes DEF DeviceInv
<1>2. task["listener"] \in Record
  BY DEF DeviceInv, Types, TasksTyped, Typed, Task
<1>3. /\ task'["listener"].pc = "rest" /\ task["listener"].pc = "get"
      /\ task'["listener"].before = recv_token
      /\ task'["listener"].frame = task["listener"].frame
  <2>1. task["listener"].pc = "get"
    BY DEF Decrypt, GoodCrc, At
  <2> QED
    BY <1>1, <1>2, <2>1 DEF Record
<1>4. /\ \A u \in Task : \A thing \in {"crc", "radio"} : Alone(u, thing)' <=> Alone(u, thing)
      /\ Alone("user", "enc_buf")' => Alone("user", "enc_buf") /\ ~ UsesBuffer("user")
  BY WriteMeets DEF Decrypt, DeviceInv, Types, TypeOK, Task, Other
<1>5. UNCHANGED <<crc, is_sending, on_air, recv_token, send_token>>
  BY DEF Decrypt, chip
<1>6. UserBuffer' /\ Sums' /\ Air'
  BY <1>1, <1>3, <1>4, <1>5, ListenerMoves
<1>7. enc_buf'.token = Work.token
  BY DEF Decrypt, DeviceInv, Types, TypeOK
<1>8. ListenerBuffer'
  BY <1>3, <1>5, <1>7 DEF ListenerBuffer, Listener, Work
<1> QED
  BY <1>1, <1>6, <1>8 DEF DeviceInv

LEMMA AcceptTokenKeeps ==
    ASSUME DeviceInv, AcceptToken
    PROVE  DeviceInv'
<1>1. /\ Types' /\ task'["user"] = task["user"]
      /\ task'["listener"] = [task["listener"] EXCEPT !.pc = "copy"]
  BY AcceptTokenTypes DEF DeviceInv
<1>2. task["listener"] \in Record
  BY DEF DeviceInv, Types, TasksTyped, Typed, Task
<1>3. /\ task'["listener"].pc = "copy" /\ task["listener"].pc = "verdict"
      /\ task'["listener"].before = task["listener"].before
      /\ task'["listener"].frame = task["listener"].frame
  <2>1. task["listener"].pc = "verdict"
    BY DEF AcceptToken, At
  <2> QED
    BY <1>1, <1>2, <2>1 DEF Record
<1>4. UNCHANGED <<enc_buf, crc, is_sending, on_air, send_token, met>>
  BY DEF AcceptToken, chip
<1>5. UserBuffer' /\ Sums' /\ Air'
  BY <1>1, <1>3, <1>4, ListenerMoves DEF Alone
<1>6. ListenerBuffer'
  <2>1. ValidToken(enc_buf.token, recv_token) /\ recv_token' = enc_buf.token
    BY DEF AcceptToken
  <2> QED
    BY <1>3, <1>4, <2>1 DEF ListenerBuffer, Listener, Work, Alone, DeviceInv
<1> QED
  BY <1>1, <1>5, <1>6 DEF DeviceInv
-----------------------------------------------------------------------------
(***************************************************************************)
(* Decrypting, by either task.                                             *)
(***************************************************************************)

LEMMA RestKeeps ==
    ASSUME DeviceInv, NEW t \in Task, DecryptRest(t)
    PROVE  DeviceInv'
<1>1. /\ Types' /\ task'[t] = [task[t] EXCEPT !.pc = "size"]
      /\ \A u \in Task : u # t => task'[u] = task[u]
  BY RestTypes DEF DeviceInv
<1>2. task[t] \in Record /\ task[t].pc = "rest"
  BY DEF DeviceInv, Types, TasksTyped, Typed, DecryptRest, At
<1>3. /\ task'[t].pc = "size" /\ task'[t].out = task[t].out /\ task'[t].given = task[t].given
      /\ task'[t].before = task[t].before /\ task'[t].frame = task[t].frame
  BY <1>1, <1>2 DEF Record
<1>4. /\ \A u \in Task : \A thing \in {"crc", "radio"} : Alone(u, thing)' <=> Alone(u, thing)
      /\ Alone(Other(t), "enc_buf")' => Alone(Other(t), "enc_buf") /\ ~ UsesBuffer(Other(t))
      /\ Alone(t, "enc_buf")' => Alone(t, "enc_buf")
  BY WriteMeets DEF DecryptRest, DeviceInv, Types, TypeOK
<1>5. UNCHANGED <<crc, is_sending, on_air, recv_token, send_token>>
  BY DEF DecryptRest, chip
<1>6. enc_buf'.token = enc_buf.token /\ enc_buf'.body = InHand(t).body
  BY DEF DecryptRest, DeviceInv, Types, TypeOK
<1>7. CASE t = "user"
  <2>1. task'["listener"] = task["listener"] /\ Other(t) = "listener"
    BY <1>1, <1>7 DEF Task, Other
  <2>2. ListenerBuffer' /\ Sums' /\ Air'
    BY <1>2, <1>3, <1>4, <1>5, <1>7, <2>1, UserMoves
  <2>3. InHand(t) = task["user"].out
    BY <1>7 DEF InHand, DeviceInv, Types, TasksTyped, Typed, UserTyped
  <2>4. UserBuffer'
    BY <1>2, <1>3, <1>4, <1>6, <1>7, <2>3 DEF UserBuffer, DeviceInv
  <2> QED
    BY <1>1, <2>2, <2>4 DEF DeviceInv
<1>8. CASE t = "listener"
  <2>1. task'["user"] = task["user"] /\ Other(t) = "user"
    BY <1>1, <1>8 DEF Task, Other
  <2>2. UserBuffer' /\ Sums' /\ Air'
    BY <1>2, <1>3, <1>4, <1>5, <1>8, <2>1, ListenerMoves
  <2>3. InHand(t) = Work
    BY <1>2, <1>8 DEF InHand, Work, DeviceInv, Types, TasksTyped, Typed, ListenerTyped
  <2>4. ListenerBuffer'
    BY <1>2, <1>3, <1>4, <1>5, <1>6, <1>8, <2>3 DEF ListenerBuffer, Listener, Work, DeviceInv
  <2> QED
    BY <1>1, <2>2, <2>4 DEF DeviceInv
<1> QED
  BY <1>7, <1>8 DEF Task

\* A task that was left alone reads the size of the message it has decrypted.
LEMMA SizeIsRight ==
    ASSUME DeviceInv, NEW t \in Task, task[t].pc = "size", Alone(t, "enc_buf")
    PROVE  SizeRead(t) = {"right"}
<1>1. Typed(t, task[t])
  BY DEF DeviceInv, Types, TasksTyped
<1>2. enc_buf.body = InHand(t).body /\ InHand(t).body \in Body
  <2>1. CASE t = "user"
    <3>1. InHand(t) = task["user"].out /\ task["user"].given \in Body
      BY <1>1, <2>1 DEF InHand, Typed, UserTyped
    <3> QED
      BY <2>1, <3>1 DEF DeviceInv, UserBuffer
  <2>2. CASE t = "listener"
    <3>1. InHand(t) = Work
      BY <1>1, <2>2 DEF InHand, Work, Typed, ListenerTyped
    <3>2. Work.body \in Body
      BY <1>1, <2>2 DEF Work, Typed, ListenerTyped, Packet
    <3> QED
      BY <2>2, <3>1, <3>2 DEF DeviceInv, ListenerBuffer, Listener
  <2> QED
    BY <2>1, <2>2 DEF Task
<1> QED
  BY <1>2, DeviceAssumption DEF SizeRead

LEMMA SizeKeeps ==
    ASSUME DeviceInv, NEW t \in Task, ReadSize(t)
    PROVE  DeviceInv'
<1> DEFINE place(size) == IF t = "user" THEN "swap"
                          ELSE IF size = "empty" THEN "copy" ELSE "verdict"
<1>1. Types' /\ \A u \in Task : u # t => task'[u] = task[u]
  BY SizeTypes DEF DeviceInv
<1>2. PICK size \in SizeRead(t) :
          task'[t] = [task[t] EXCEPT !.size = size, !.pc = place(size)]
  BY SizeTypes DEF DeviceInv
<1>3. task[t] \in Record /\ task[t].pc = "size"
  BY DEF DeviceInv, Types, TasksTyped, Typed, ReadSize, At
<1>4. /\ task'[t].pc = place(size) /\ task'[t].size = size
      /\ task'[t].out = task[t].out /\ task'[t].given = task[t].given
      /\ task'[t].before = task[t].before /\ task'[t].frame = task[t].frame
  BY <1>2, <1>3 DEF Record
<1>5. UNCHANGED <<crc, is_sending, on_air, recv_token, send_token, enc_buf, met>>
  BY DEF ReadSize, chip, crypto
<1>6. Alone(t, "enc_buf") => size = "right"
  BY <1>3, SizeIsRight
<1>7. CASE t = "user"
  <2>1. task'["listener"] = task["listener"]
    BY <1>1, <1>7 DEF Task
  <2>2. ListenerBuffer' /\ Sums' /\ Air'
    BY <1>3, <1>4, <1>5, <1>7, <2>1, UserMoves DEF Alone
  <2>3. UserBuffer'
    BY <1>3, <1>4, <1>5, <1>6, <1>7 DEF UserBuffer, DeviceInv, Alone
  <2> QED
    BY <1>1, <2>2, <2>3 DEF DeviceInv
<1>8. CASE t = "listener"
  <2>1. task'["user"] = task["user"]
    BY <1>1, <1>8 DEF Task
  <2>2. UserBuffer' /\ Sums' /\ Air'
    BY <1>3, <1>4, <1>5, <1>8, <2>1, ListenerMoves DEF Alone
  <2>3. ListenerBuffer'
    BY <1>3, <1>4, <1>5, <1>6, <1>8 DEF ListenerBuffer, Listener, Work, DeviceInv, Alone
  <2> QED
    BY <1>1, <2>2, <2>3 DEF DeviceInv
<1> QED
  BY <1>7, <1>8 DEF Task
-----------------------------------------------------------------------------
(***************************************************************************)
(* Sending, by either task.                                                *)
(***************************************************************************)

LEMMA FeedKeeps ==
    ASSUME DeviceInv, NEW t \in Task, FeedCrc(t)
    PROVE  DeviceInv'
<1>1. /\ Types' /\ task'[t] = [task[t] EXCEPT !.pc = "get"]
      /\ \A u \in Task : u # t => task'[u] = task[u]
  BY FeedTypes DEF DeviceInv
<1>2. task[t] \in Record /\ task[t].pc = "feed"
  BY DEF DeviceInv, Types, TasksTyped, Typed, FeedCrc, At
<1>3. /\ task'[t].pc = "get" /\ task'[t].out = task[t].out /\ task'[t].given = task[t].given
      /\ task'[t].job = task[t].job /\ task'[t].frame = task[t].frame
  BY <1>1, <1>2 DEF Record
<1>4. UNCHANGED <<is_sending, on_air, recv_token, send_token, enc_buf>>
  BY DEF FeedCrc, chip, crypto
<1>5. \A u \in Task : \A thing \in {"enc_buf", "radio"} : Alone(u, thing)' <=> Alone(u, thing)
  BY DEF FeedCrc, Alone, DeviceInv, Types, TypeOK
<1>6. UserBuffer'
  <2>1. CASE t = "user"
    BY <1>2, <1>3, <1>4, <1>5, <2>1 DEF UserBuffer, DeviceInv
  <2>2. CASE t # "user"
    BY <1>1, <1>4, <1>5, <2>2, UserBufferKept DEF DeviceInv, Task
  <2> QED
    BY <2>1, <2>2
<1>7. ListenerBuffer'
  BY <1>1, <1>2, <1>3, <1>4, <1>5 DEF ListenerBuffer, Listener, Work, DeviceInv, Task
<1>8. Sums'
  <2>1. CASE Disturbed(t)
    <3>1. \A u \in Task : ~ Alone(u, "crc")'
      BY <2>1 DEF FeedCrc, Alone
    <3> QED
      BY <3>1 DEF Sums
  <2>2. CASE ~ Disturbed(t)
    <3>1. crc' = InHand(t) /\ InHand(t)' = InHand(t)
      BY <1>3, <2>2 DEF FeedCrc, InHand
    <3>2. ASSUME NEW u \in Task, u # t
          PROVE  task'[u] = task[u] /\ task[u].pc # "get" /\ (Alone(u, "crc")' <=> Alone(u, "crc"))
      BY <1>1, <2>2, <3>2 DEF FeedCrc, Alone, Disturbed, Other, At, Task
    <3> QED
      BY <1>3, <3>1, <3>2 DEF Sums, DeviceInv
  <2> QED
    BY <2>1, <2>2
<1>9. Air'
  BY <1>1, <1>2, <1>3, <1>4, <1>5 DEF Air, Listener, DeviceInv, Task
<1> QED
  BY <1>1, <1>6, <1>7, <1>8, <1>9 DEF DeviceInv

LEMMA GetKeeps ==
    ASSUME DeviceInv, NEW t \in Task, GetCrc(t)
    PROVE  DeviceInv'
<1>1. /\ Types' /\ task'[t] = [task[t] EXCEPT !.pc = "transmit", !.sum = crc]
      /\ \A u \in Task : u # t => task'[u] = task[u]
  BY GetTypes DEF DeviceInv
<1>2. task[t] \in Record /\ task[t].pc = "get" /\ task[t].job = "send"
  BY DEF DeviceInv, Types, TasksTyped, Typed, GetCrc, At
<1>3. /\ task'[t].pc = "transmit" /\ task'[t].out = task[t].out
      /\ task'[t].given = task[t].given /\ task'[t].sum = crc
  BY <1>1, <1>2 DEF Record
<1>4. UNCHANGED <<is_sending, on_air, recv_token, send_token, enc_buf, crc, met>>
  BY DEF GetCrc, chip, crypto
<1>5. UserBuffer'
  <2>1. CASE t = "user"
    BY <1>2, <1>3, <1>4, <2>1 DEF UserBuffer, DeviceInv, Alone
  <2>2. CASE t # "user"
    BY <1>1, <1>4, <2>2, UserBufferKept DEF DeviceInv, Task, Alone
  <2> QED
    BY <2>1, <2>2
<1>6. ListenerBuffer'
  BY <1>1, <1>2, <1>3, <1>4 DEF ListenerBuffer, Listener, Work, DeviceInv, Task, Alone
<1>7. Sums'
  <2>1. Alone(t, "crc") => crc = task[t].out
    BY <1>2 DEF Sums, InHand, DeviceInv
  <2>2. ASSUME NEW u \in Task, u # t
        PROVE  task'[u] = task[u] /\ InHand(u)' = InHand(u)
    BY <1>1, <2>2 DEF InHand
  <2> QED
    BY <1>3, <1>4, <2>1, <2>2 DEF Sums, DeviceInv, Alone
<1>8. Air'
  BY <1>1, <1>2, <1>3, <1>4 DEF Air, Listener, DeviceInv, Task, Alone
<1> QED
  BY <1>1, <1>5, <1>6, <1>7, <1>8 DEF DeviceInv

LEMMA BeginKeeps ==
    ASSUME DeviceInv, NEW t \in Task, BeginPacket(t)
    PROVE  DeviceInv'
<1>1. /\ Types' /\ task'[t] = [task[t] EXCEPT !.pc = "transmitting"]
      /\ \A u \in Task : u # t => task'[u] = task[u]
  BY BeginTypes DEF DeviceInv
<1>2. task[t] \in Record /\ task[t].pc = "transmit"
  BY DEF DeviceInv, Types, TasksTyped, Typed, BeginPacket, At
<1>3. /\ task'[t].pc = "transmitting" /\ task'[t].out = task[t].out
      /\ task'[t].given = task[t].given /\ task'[t].sum = task[t].sum
  BY <1>1, <1>2 DEF Record
<1>4. UNCHANGED <<recv_token, send_token, enc_buf, crc>>
  BY DEF BeginPacket, crypto
<1>5. \A u \in Task : \A thing \in {"enc_buf", "crc"} : Alone(u, thing)' <=> Alone(u, thing)
  BY DEF BeginPacket, Alone, DeviceInv, Types, TypeOK
<1>6. UserBuffer'
  <2>1. CASE t = "user"
    BY <1>2, <1>3, <1>4, <1>5, <2>1 DEF UserBuffer, DeviceInv
  <2>2. CASE t # "user"
    BY <1>1, <1>4, <1>5, <2>2, UserBufferKept DEF DeviceInv, Task
  <2> QED
    BY <2>1, <2>2
<1>7. ListenerBuffer'
  BY <1>1, <1>2, <1>3, <1>4, <1>5 DEF ListenerBuffer, Listener, Work, DeviceInv, Task
<1>8. Sums'
  <2>1. Alone(t, "crc") => task[t].sum = task[t].out
    BY <1>2 DEF Sums, DeviceInv
  <2>2. ASSUME NEW u \in Task, u # t
        PROVE  task'[u] = task[u] /\ InHand(u)' = InHand(u)
    BY <1>1, <2>2 DEF InHand
  <2> QED
    BY <1>3, <1>4, <1>5, <2>1, <2>2 DEF Sums, DeviceInv
<1>9. Air'
  <2>1. is_sending' = TRUE /\ on_air' = on_air \cup {t}
    BY DEF BeginPacket
  <2>2. on_air # {} \/ task["listener"].pc = "parse" => ~ Alone("listener", "radio")'
    BY DEF BeginPacket, Alone, DeviceInv, Types, TypeOK, At, Task
  <2>3. \A u \in Task : u \in on_air' <=> task'[u].pc = "transmitting"
    BY <1>1, <1>3, <2>1 DEF Air, DeviceInv
  <2>4. t \notin on_air
    BY <1>2 DEF Air, DeviceInv
  <2> QED
    BY <1>1, <1>3, <2>1, <2>2, <2>3, <2>4 DEF Air, Listener, Task
<1> QED
  BY <1>1, <1>6, <1>7, <1>8, <1>9 DEF DeviceInv

LEMMA EndKeeps ==
    ASSUME DeviceInv, NEW t \in Task, EndPacket(t)
    PROVE  DeviceInv'
<1>1. /\ Types'
      /\ task'[t] = (IF t = "user" THEN [task[t] EXCEPT !.pc = "wait", !.sum = None] ELSE Locals)
      /\ \A u \in Task : u # t => task'[u] = task[u]
  BY EndTypes DEF DeviceInv
<1>2. task[t] \in Record /\ task[t].pc = "transmitting"
  BY DEF DeviceInv, Types, TasksTyped, Typed, EndPacket, At
<1>3. /\ task'[t].pc \in {"wait", "idle"}
      /\ t = "user" => /\ task'[t].out = task[t].out /\ task'[t].given = task[t].given
                       /\ task'[t].pc = "wait"
  BY <1>1, <1>2 DEF Record, Locals
<1>4. UNCHANGED <<recv_token, send_token, enc_buf, crc>>
  BY DEF EndPacket, crypto
<1>5. \A u \in Task : \A thing \in {"enc_buf", "crc"} : Alone(u, thing)' <=> Alone(u, thing)
  BY DEF EndPacket, Alone, DeviceInv, Types, TypeOK
<1>6. UserBuffer'
  <2>1. CASE t = "user"
    BY <1>2, <1>3, <1>4, <1>5, <2>1 DEF UserBuffer, DeviceInv
  <2>2. CASE t # "user"
    BY <1>1, <1>4, <1>5, <2>2, UserBufferKept DEF DeviceInv, Task
  <2> QED
    BY <2>1, <2>2
<1>7. ListenerBuffer'
  BY <1>1, <1>2, <1>3, <1>4, <1>5 DEF ListenerBuffer, Listener, Work, DeviceInv, Task
<1>8. Sums'
  <2>1. \A u \in Task : task'[u] = task[u] \/ task'[u].pc \notin {"get", "transmit", "transmitting"}
    BY <1>1, <1>3
  <2> QED
    BY <1>4, <1>5, <2>1, SumsKept DEF DeviceInv
<1>9. Air'
  <2>1. is_sending' = FALSE /\ on_air' = on_air \ {t} /\ t \in on_air
    BY <1>2 DEF EndPacket, Air, DeviceInv
  <2>2. \A u \in Task : u \in on_air' <=> task'[u].pc = "transmitting"
    BY <1>1, <1>3, <2>1 DEF Air, DeviceInv
  <2>3. ASSUME on_air' # {}
        PROVE  ~ Alone("listener", "radio")'
    <3>1. met' = met /\ on_air \subseteq Task
      BY <2>3 DEF EndPacket, DeviceInv, Types, TypeOK
    <3>2. "user" \in on_air /\ "listener" \in on_air
      BY <2>1, <2>3, <3>1 DEF Task
    <3> QED
      BY <3>1, <3>2 DEF Air, DeviceInv, Alone
  <2> QED
    BY <2>1, <2>2, <2>3 DEF Air
<1> QED
  BY <1>1, <1>6, <1>7, <1>8, <1>9 DEF DeviceInv
-----------------------------------------------------------------------------
(***************************************************************************)
(* The theorems.                                                           *)
(***************************************************************************)

LEMMA InitDeviceInv == Init => DeviceInv
<1> SUFFICES ASSUME Init PROVE DeviceInv
  OBVIOUS
<1>1. \A t \in Task : task[t].pc = "idle"
  BY DEF Init, Locals
<1>2. on_air = {} /\ "user" \in Task /\ "listener" \in Task
  BY DEF Init, Task
<1> QED
  BY <1>1, <1>2, InitTypes DEF DeviceInv, UserBuffer, ListenerBuffer, Sums, Air, Listener

LEMMA StutterKeeps == DeviceInv /\ UNCHANGED vars => DeviceInv'
<1> SUFFICES ASSUME DeviceInv, UNCHANGED vars PROVE DeviceInv'
  OBVIOUS
<1>1. UNCHANGED <<peer, enc_buf, send_token, recv_token, crc, is_sending, on_air, radio,
                  response, task, met>>
  BY DEF vars, crypto, chip
<1> QED
  BY <1>1 DEF DeviceInv, Types, TypeOK, TasksTyped, UserBuffer, ListenerBuffer, Sums, Air,
              Alone, Listener, Work, InHand

LEMMA ArriveKeeps == DeviceInv /\ Arrive => DeviceInv'
<1> SUFFICES ASSUME DeviceInv, Arrive PROVE DeviceInv'
  OBVIOUS
<1>1. Types'
  BY ArriveTypes DEF DeviceInv
<1>2. UNCHANGED <<enc_buf, send_token, recv_token, crc, is_sending, on_air, task, met>>
  BY DEF Arrive, crypto, chip
<1> QED
  BY <1>1, <1>2 DEF DeviceInv, UserBuffer, ListenerBuffer, Sums, Air, Alone, Listener, Work,
                    InHand

LEMMA DeviceInvStep == DeviceInv /\ [Next]_vars => DeviceInv'
<1> SUFFICES ASSUME DeviceInv, Next PROVE DeviceInv'
  BY StutterKeeps
<1>1. \A t \in Task : SendStep(t) => DeviceInv'
  BY FeedKeeps, GetKeeps, BeginKeeps, EndKeeps DEF SendStep
<1>2. \A t \in Task : DecryptStep(t) => DeviceInv'
  BY RestKeeps, SizeKeeps DEF DecryptStep
<1>3. CASE UserStep
  BY <1>1, <1>2, <1>3, EncryptKeeps, PutBodyKeeps, CipherOutKeeps, FinishKeeps, GotResendKeeps,
     GotSyncKeeps, SwapTokenKeeps DEF UserStep, Task
<1>4. CASE ListenerStep
  BY <1>1, <1>2, <1>4, PollKeeps, ParsePacketKeeps, AnswerKeeps, EnqueueKeeps, DecryptKeeps,
     AcceptTokenKeeps DEF ListenerStep, Task
<1>5. CASE Arrive
  BY <1>5, ArriveKeeps
<1> QED
  BY <1>3, <1>4, <1>5 DEF Next

\* What a task that was left alone finds in the shared memory, in every behaviour.
THEOREM DeviceInvariance == Spec => []DeviceInv
BY InitDeviceInv, DeviceInvStep, PTL DEF Spec

\* Every variable keeps its shape.
THEOREM DeviceTypes == Spec => []TypeOK
<1>1. DeviceInv => TypeOK
  BY DEF DeviceInv, Types
<1> QED
  BY <1>1, DeviceInvariance, PTL

\* decrypt succeeds only for a frame whose own token is valid, and remembers that token,
\* unless the user's task has written to enc_buf meanwhile.
THEOREM VerdictsAreRight == Spec => []VerdictRight
<1>1. DeviceInv => VerdictRight
  BY DEF DeviceInv, ListenerBuffer, VerdictRight, Listener, At
<1> QED
  BY <1>1, DeviceInvariance, PTL

\* What the user's task puts on the air, first, again or with a new token, is the message
\* given to send_with_ack, unless the listener has decrypted while it was in enc_buf.
THEOREM FramesAreSentAsGiven == Spec => []SentAsGiven
<1>1. DeviceInv => SentAsGiven
  <2> SUFFICES ASSUME DeviceInv, "user" \in on_air, Alone("user", "enc_buf")
               PROVE  task["user"].out = [kind |-> "data", token |-> send_token,
                                          body |-> task["user"].given]
    BY DEF SentAsGiven
  <2>1. task["user"].pc = "transmitting"
    BY DEF DeviceInv, Air, Task
  <2>2. Typed("user", task["user"])
    BY DEF DeviceInv, Types, TasksTyped, Task
  <2>3. task["user"].out \in Content
    BY <2>1, <2>2 DEF Typed, UserTyped
  <2>4. /\ task["user"].out.kind = "data" /\ task["user"].out.token = send_token
        /\ task["user"].out.body = task["user"].given
    BY <2>1 DEF DeviceInv, UserBuffer
  <2> QED
    BY <2>3, <2>4 DEF Content
<1> QED
  BY <1>1, DeviceInvariance, PTL

\* A frame leaves with the checksum of its contents, and one that arrives is compared with
\* its own, unless the tasks have fed _crc at once.
THEOREM ChecksumsAreRight == Spec => []ChecksumRight
<1>1. DeviceInv => ChecksumRight
  <2> SUFFICES ASSUME DeviceInv PROVE ChecksumRight
    OBVIOUS
  <2>1. \A t \in on_air : Alone(t, "crc") => task[t].sum = task[t].out
    <3>1. on_air \subseteq Task
      BY DEF DeviceInv, Types, TypeOK
    <3> QED
      BY <3>1 DEF DeviceInv, Air, Sums
  <2>2. At("listener", "get") /\ Listener.job = "check" /\ Alone("listener", "crc") =>
           crc = Work
    BY DEF DeviceInv, Sums, InHand, Listener, Work, At, Task
  <2> QED
    BY <2>1, <2>2 DEF ChecksumRight
<1> QED
  BY <1>1, DeviceInvariance, PTL

\* The listener goes to the chip while a packet is going out only if that began after it
\* had looked at the flag, or if it took the other's flag down itself.
THEOREM ListenerListensAlone == Spec => []ListensAlone
<1>1. DeviceInv => ListensAlone
  BY DEF DeviceInv, Air, ListensAlone, Listener, At
<1> QED
  BY <1>1, DeviceInvariance, PTL

\* The receive counter does not go back, whatever the user's task does to the buffer.
THEOREM CounterGrows == Spec => ReceiveCounterGrows
<1>1. DeviceInv /\ [Next]_vars => [recv_token' >= recv_token]_vars
  <2> SUFFICES ASSUME DeviceInv, Next PROVE recv_token' >= recv_token
    OBVIOUS
  <2>1. recv_token \in Token /\ enc_buf.token \in Token
    BY DEF DeviceInv, Types, TypeOK
  <2>2. recv_token' = recv_token \/ AcceptToken
    BY DEF Next, UserStep, ListenerStep, Arrive, SendStep, FeedCrc, GetCrc, BeginPacket,
           EndPacket, Encrypt, PutBody, CipherOut, GotAck, Timeout, GotResend, GotSync,
           SwapToken, Poll, ParsePacket, BadCrc, Enqueue, Decrypt, DecryptStep,
           DecryptRest, ReadSize, RefuseToken, Copy, crypto
  <2>3. CASE recv_token' = recv_token
    BY <2>1, <2>3, TokenAssumption DEF Token
  <2>4. CASE AcceptToken
    BY <2>1, <2>4, ValidTokenGrows DEF AcceptToken
  <2> QED
    BY <2>2, <2>3, <2>4
<1> QED
  BY <1>1, DeviceInvariance, PTL DEF Spec, ReceiveCounterGrows
=============================================================================
