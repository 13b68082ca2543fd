------------------------------ MODULE Channel -------------------------------
(***************************************************************************)
(* Two sessions connected by a socket, seen through their protocols:       *)
(* stream_protocol, plain_protocol or secure_protocol with its sodium      *)
(* handshake and cipher.  The state is what the protocols keep at each     *)
(* end, the bytes under way and the bytes in each recv_buf_; Session       *)
(* models the buffers, the locks and the threads around it.                *)
(*                                                                         *)
(* A byte is a cell <<v, k, n>>: value v, enciphered with key k and nonce  *)
(* n ("none" and 0 when in clear).  Numbers are serialized to digits of    *)
(* base Base as the code serializes them to bytes, lowest digit first.     *)
(***************************************************************************)
EXTENDS Integers, Sequences

CONSTANTS Protocols,  \* subset of {"stream", "plain", "secure"}
          Base,       \* 256 in the code
          TopicWidth, \* sizeof(Topic)
          LenWidth,   \* length_field_size, 4 in the code
          MaxSend,    \* max_send_size: a frame is shorter
          Nonces,     \* nonces are numbers below Nonces (2^64 in the code)
          Topics, Payloads, \* what the application sends
          MaxSends,   \* bound: what is sent, by both ends
          Resets      \* may a close destroy bytes under way?

\* The weight of the digit after i others: 1 << (8 * i) in the code.
Weight[i \in Nat] == IF i = 0 THEN 1 ELSE Base * Weight[i - 1]

\* A length field has room for the length of what is sent and of a message of
\* the handshake.
ASSUME ChannelAssumption ==
  /\ Protocols \subseteq {"stream", "plain", "secure"}
  /\ {Base, TopicWidth, LenWidth, Nonces} \subseteq Nat \ {0}
  /\ Base > 1
  /\ MaxSend \in 1..Weight[LenWidth] /\ Weight[LenWidth] > 2
  /\ Topics \subseteq 0..(Weight[TopicWidth] - 1)
  /\ Payloads \subseteq Seq(0..(Base - 1))
  /\ MaxSends \in Nat
  /\ Resets \in BOOLEAN

Ends == {"client", "server"}
Other(e) == IF e = "client" THEN "server" ELSE "client"

VARIABLES
  proto,   \* the protocol both ends were compiled with
  stage,   \* "new", then "open" (accepted() or connected()), then "closed"
  hs,      \* the sodium_handshake of each end
  wire,    \* bytes under way to each end
  buf,     \* recv_buf_ of each end
  sent,    \* history: what each end sent
  got,     \* history: what on_receive() was called with at each end
  threw    \* ends whose handshake() or decode() threw

vars == <<proto, stage, hs, wire, buf, sent, got, threw>>

-----------------------------------------------------------------------------
(* serializer and length_delimited *)

Clear(v) == <<v, "none", 0>>

\* serializer::serialize(buf, w, v)
Serialize(v, w) == [i \in 1..w |-> Clear((v \div Weight[i - 1]) % Base)]

\* serializer::deserialize(buf, w, v)
Deserialize(cells, w) ==
  LET upTo[i \in 0..w] ==
        IF i = 0 THEN 0 ELSE upTo[i - 1] + cells[i][1] * Weight[i - 1]
  IN  upTo[w]

\* length_delimited::encode()
LengthEncode(src) == Serialize(Len(src), LenWidth) \o src

\* length_delimited::decode(): the payload, empty when there is none yet.
LengthDecode(src) ==
  IF Len(src) < LenWidth THEN <<>>
  ELSE LET len == Deserialize(src, LenWidth)
       IN  IF Len(src) >= len + LenWidth
           THEN SubSeq(src, LenWidth + 1, LenWidth + len)
           ELSE <<>>

-----------------------------------------------------------------------------
(* libsodium (external): what the code relies on. *)

\* crypto_stream_chacha20_xor(): its own inverse under one key and nonce; the
\* result under any other is not what was enciphered, here the digit Base.
Xor(cells, key, nonce) ==
  [i \in DOMAIN cells |->
     IF cells[i][2] = "none" THEN <<cells[i][1], key, nonce>>
     ELSE IF cells[i][2] = key /\ cells[i][3] = nonce THEN Clear(cells[i][1])
     ELSE Clear(Base)]

\* crypto_kx_{client,server}_session_keys(): each side's rx is the other's tx.
SessionKeys(accepted) ==
  IF accepted THEN [rx |-> "toServer", tx |-> "toClient"]
              ELSE [rx |-> "toClient", tx |-> "toServer"]

PublicKey(e) == IF e = "client" THEN 0 ELSE 1
Sealed(v, pub) == <<v, IF pub = 0 THEN "sealedClient" ELSE "sealedServer", 0>>
Opens(cell, pub) == cell = Sealed(cell[1], pub)

-----------------------------------------------------------------------------
(* sodium_handshake *)

KeyMark == Clear(0)     \* 'k'
NonceMark == Clear(1)   \* 'n'

Fresh == [keyReceived |-> FALSE, established |-> FALSE,
          rxKey |-> "none", txKey |-> "none", rxNonce |-> 0, txNonce |-> 0]

\* sync_key() and sync_nonce()
SyncKey(e) == <<KeyMark, Clear(PublicKey(e))>>
SyncNonce(nonce, peerKey) == <<NonceMark, Sealed(nonce, peerKey)>>

\* The handshake and the reply once the keys are derived and nonce is drawn,
\* sealed for the owner of key seal.
Keyed(e, h, nonce, seal) ==
  LET keys == SessionKeys(e = "server")
  IN  [hs |-> [h EXCEPT !.keyReceived = TRUE, !.rxKey = keys.rx,
                        !.txKey = keys.tx, !.rxNonce = nonce],
       reply |-> SyncNonce(nonce, seal), ok |-> TRUE]

\* on_handshake() of the peer's key, drawing nonce for what we will receive.
OnKey(e, h, msg, nonce) == Keyed(e, h, nonce, msg[2][1])

\* on_handshake() of the peer's nonce, the one to send with; throws if the
\* seal does not open.
OnNonce(e, h, msg) ==
  [hs |-> IF Opens(msg[2], PublicKey(e))
          THEN [h EXCEPT !.established = TRUE, !.txNonce = msg[2][1]] ELSE h,
   reply |-> <<>>, ok |-> Opens(msg[2], PublicKey(e))]

\* sodium_handshake::on_handshake()
OnHandshake(e, h, msg, nonce) ==
  IF h.keyReceived THEN OnNonce(e, h, msg) ELSE OnKey(e, h, msg, nonce)

-----------------------------------------------------------------------------
(* sodium_cipher *)

\* Mutant: the nonce is not advanced by a frame.
CipherEncodeSameNonce(h, src) ==
  [hs |-> h, cells |-> Xor(src, h.txKey, h.txNonce)]

\* encode() and decode(): the bytes, and the handshake with its nonce advanced.
CipherEncode(h, src) ==
  [hs |-> [h EXCEPT !.txNonce = (@ + 1) % Nonces],
   cells |-> Xor(src, h.txKey, h.txNonce)]

CipherDecode(h, src) ==
  [hs |-> [h EXCEPT !.rxNonce = (@ + 1) % Nonces],
   cells |-> Xor(src, h.rxKey, h.rxNonce)]

-----------------------------------------------------------------------------
(* encode() and decode() of the three protocols *)

\* is_established()
IsEstablished(e) ==
  /\ stage[e] = "open"
  /\ proto = "secure" => hs[e].established

\* plain_protocol::encode()
PlainEncode(topic, body) == Serialize(topic, TopicWidth) \o LengthEncode(body)

\* secure_protocol::encode()
SecureEncode(h, topic, body, encrypt) ==
  LET code == IF encrypt THEN CipherEncode(h, body) ELSE [hs |-> h, cells |-> body]
  IN  [hs |-> code.hs,
       cells |-> Serialize(topic, TopicWidth) \o <<Clear(IF encrypt THEN 1 ELSE 0)>>
                 \o Serialize(Len(body), LenWidth) \o code.cells]

\* encode(): the bytes committed to the send buffer, and the handshake after.
Encode(h, topic, body, encrypt) ==
  CASE proto = "stream" -> [hs |-> h, cells |-> body]
    [] proto = "plain"  -> [hs |-> h, cells |-> PlainEncode(topic, body)]
    [] proto = "secure" -> SecureEncode(h, topic, body, encrypt)

Nothing == [used |-> 0, topic |-> 0, body |-> <<>>, enc |-> FALSE]

\* plain_protocol::decode()
PlainDecode(src) ==
  LET body == LengthDecode(SubSeq(src, TopicWidth + 1, Len(src)))
  IN  IF Len(src) <= TopicWidth + LenWidth \/ body = <<>> THEN Nothing
      ELSE [used |-> TopicWidth + LenWidth + Len(body),
            topic |-> Deserialize(src, TopicWidth), body |-> body, enc |-> FALSE]

\* Mutant: the frame is taken as soon as its header and a byte are there.
SecureDecodeEager(src) ==
  LET head == TopicWidth + 1 + LenWidth
      len  == Deserialize(SubSeq(src, TopicWidth + 2, head), LenWidth)
      total == IF head + len <= Len(src) THEN head + len ELSE Len(src)
  IN  IF Len(src) <= head THEN Nothing
      ELSE [used |-> total, topic |-> Deserialize(src, TopicWidth),
            body |-> SubSeq(src, head + 1, total),
            enc |-> src[TopicWidth + 1][1] # 0]

\* secure_protocol::decode() up to the decryption
SecureDecode(src) ==
  LET head == TopicWidth + 1 + LenWidth
      len  == Deserialize(SubSeq(src, TopicWidth + 2, head), LenWidth)
  IN  IF Len(src) <= head \/ Len(src) < head + len THEN Nothing
      ELSE [used |-> head + len, topic |-> Deserialize(src, TopicWidth),
            body |-> SubSeq(src, head + 1, head + len),
            enc |-> src[TopicWidth + 1][1] # 0]

\* stream_protocol::decode()
StreamDecode(src) == [used |-> Len(src), topic |-> 0, body |-> src, enc |-> FALSE]

Decode(src) ==
  CASE proto = "stream" -> StreamDecode(src)
    [] proto = "plain"  -> PlainDecode(src)
    [] proto = "secure" -> SecureDecode(src)

\* What the application sends and hears: frames with their topic or, on a
\* stream, bytes.
Units(topic, body) ==
  IF proto = "stream" THEN [i \in DOMAIN body |-> <<0, <<body[i]>>>>]
                      ELSE <<<<topic, body>>>>

\* One turn of recv_frames(): a frame is decoded, decrypted in place, handed
\* to on_receive() and consumed.  s holds the bytes, the handshake and what
\* was heard so far.
RecvFrame(s) ==
  LET f == Decode(s.buf)
      d == IF f.enc THEN CipherDecode(s.hs, f.body) ELSE [hs |-> s.hs, cells |-> f.body]
  IN  IF f.used = 0 THEN s
      ELSE [buf |-> SubSeq(s.buf, f.used + 1, Len(s.buf)), hs |-> d.hs,
            got |-> s.got \o Units(f.topic, d.cells)]

\* Mutant: one frame per completed receive.
RecvFramesOne(s) == RecvFrame(s)

\* Every frame has a byte more than the fields of its header.
Shortest == CASE proto = "stream" -> 1
              [] proto = "plain"  -> TopicWidth + LenWidth + 1
              [] proto = "secure" -> TopicWidth + 1 + LenWidth + 1

\* recv_frames(): the loop ends when no whole frame is left.
RecvFrames(s) ==
  LET most == Len(s.buf) \div Shortest
      turn[i \in 0..most] == IF i = 0 THEN s ELSE RecvFrame(turn[i - 1])
  IN  turn[most]

-----------------------------------------------------------------------------
(* The actions *)

Init ==
  /\ proto \in Protocols
  /\ stage = [e \in Ends |-> "new"]
  /\ hs = [e \in Ends |-> Fresh]
  /\ wire = [e \in Ends |-> <<>>]
  /\ buf = [e \in Ends |-> <<>>]
  /\ sent = [e \in Ends |-> <<>>]
  /\ got = [e \in Ends |-> <<>>]
  /\ threw = {}

\* accepted() and connected(): what a session sends first.
Greeting(e) == IF proto = "secure" THEN LengthEncode(SyncKey(e)) ELSE <<>>

\* session::start()
Start(e) ==
  /\ stage[e] = "new"
  /\ stage' = [stage EXCEPT ![e] = "open"]
  /\ wire' = [wire EXCEPT ![Other(e)] = @ \o Greeting(e)]
  /\ UNCHANGED <<proto, hs, buf, sent, got, threw>>

\* session::send(topic, data, len, encrypt) of an established session; before
\* that encode() leaves the send buffer as it is.
Send(e, topic, body, encrypt) ==
  LET code == Encode(hs[e], topic, [i \in DOMAIN body |-> Clear(body[i])], encrypt)
      units == Units(topic, [i \in DOMAIN body |-> Clear(body[i])])
  IN  /\ IsEstablished(e)
      /\ body # <<>> /\ Len(body) < MaxSend
      /\ Len(sent["client"]) + Len(sent["server"]) < MaxSends
      /\ wire' = [wire EXCEPT ![Other(e)] = @ \o code.cells]
      /\ hs' = [hs EXCEPT ![e] = code.hs]
      /\ sent' = [sent EXCEPT ![e] = @ \o units]
      /\ UNCHANGED <<proto, stage, buf, got, threw>>

\* secure_protocol::handshake(): at most one message is taken from bytes.
Handshake(e, bytes, nonce) ==
  LET msg == LengthDecode(bytes)
      r == OnHandshake(e, hs[e], msg, nonce)
  IN  IF msg = <<>> THEN [hs |-> hs[e], buf |-> bytes, reply |-> <<>>, ok |-> TRUE]
      ELSE [hs |-> r.hs, ok |-> r.ok,
            buf |-> IF r.ok THEN SubSeq(bytes, LenWidth + Len(msg) + 1, Len(bytes))
                            ELSE bytes,
            reply |-> IF r.reply = <<>> THEN <<>> ELSE LengthEncode(r.reply)]

\* session::handle_recv() of n more bytes: established, all frames are taken;
\* otherwise one handshake message is, and frames only once it completed the
\* handshake.  nonce is the one drawn if the message is a key.
HandleRecv(e, n, nonce) ==
  /\ stage[e] = "open" /\ e \notin threw
  /\ \E bytes \in {buf[e] \o SubSeq(wire[e], 1, n)} :
     \E shake \in {IF IsEstablished(e)
                   THEN [hs |-> hs[e], buf |-> bytes, reply |-> <<>>, ok |-> TRUE]
                   ELSE Handshake(e, bytes, nonce)} :
     \E after \in {LET before == [buf |-> shake.buf, hs |-> shake.hs, got |-> got[e]]
                   IN  IF IsEstablished(e) \/ shake.hs.established
                       THEN RecvFrames(before) ELSE before} :
       /\ wire' = [wire EXCEPT ![e] = SubSeq(@, n + 1, Len(@)),
                               ![Other(e)] = @ \o shake.reply]
       /\ buf' = [buf EXCEPT ![e] = after.buf]
       /\ hs' = [hs EXCEPT ![e] = after.hs]
       /\ got' = [got EXCEPT ![e] = after.got]
       /\ threw' = IF shake.ok THEN threw ELSE threw \union {e}
       /\ UNCHANGED <<proto, stage, sent>>

\* handle_close() and the protocol's closed(): nothing more is read, and with
\* Resets only k of the bytes under way reach the other end.
Close(e, k) ==
  /\ stage[e] = "open"
  /\ Resets \/ k = Len(wire[Other(e)])
  /\ stage' = [stage EXCEPT ![e] = "closed"]
  /\ wire' = [wire EXCEPT ![e] = <<>>, ![Other(e)] = SubSeq(@, 1, k)]
  /\ UNCHANGED <<proto, hs, buf, sent, got, threw>>

StartStep == \E e \in Ends : Start(e)
SendStep == \E e \in Ends, t \in Topics, p \in Payloads, c \in BOOLEAN : Send(e, t, p, c)
RecvStep(e) ==
  \E n \in 1..Len(wire[e]) : \E nonce \in 0..(Nonces - 1) : HandleRecv(e, n, nonce)
CloseStep == \E e \in Ends : \E k \in 0..Len(wire[Other(e)]) : Close(e, k)

Next == StartStep \/ SendStep \/ (\E e \in Ends : RecvStep(e)) \/ CloseStep

Spec == Init /\ [][Next]_vars

\* Both sessions are started by the completed accept and connect, and bytes
\* that arrived complete the outstanding async_receive.
Fairness ==
  /\ \A e \in Ends : WF_vars(Start(e))
  /\ \A e \in Ends : WF_vars(RecvStep(e))

FairSpec == Spec /\ Fairness

-----------------------------------------------------------------------------
(* Properties *)

Cells == Nat \X {"none", "toClient", "toServer", "sealedClient", "sealedServer"}
             \X (0..(Nonces - 1))

TypeOK ==
  /\ proto \in Protocols
  /\ stage \in [Ends -> {"new", "open", "closed"}]
  /\ \A e \in Ends :
       /\ hs[e].rxNonce \in 0..(Nonces - 1) /\ hs[e].txNonce \in 0..(Nonces - 1)
       /\ hs[e].established => hs[e].keyReceived
       /\ \A i \in DOMAIN wire[e] : wire[e][i] \in Cells
       /\ \A i \in DOMAIN buf[e] : buf[e][i] \in Cells
  /\ threw \subseteq Ends

\* Whatever is under way to an established end decodes, with the nonce the end
\* has reached, to exactly what it has not heard yet: the two nonces and the
\* frame boundaries never drift apart (secure_protocol::decode() re-reads a
\* growing buffer, sodium_cipher counts encrypted frames only).
InFlightDecodes ==
  \A e \in Ends :
    IsEstablished(e) /\ stage[Other(e)] = "open" =>
      LET end == RecvFrames([buf |-> buf[e] \o wire[e], hs |-> hs[e], got |-> got[e]])
      IN  end.got = sent[Other(e)] /\ end.buf = <<>>

\* Channel implements FrameChannel: on_receive() is called with what the other
\* end sent, in order and once, whatever the segments and the protocol.
Frames ==
  INSTANCE FrameChannel WITH
    Unit <- (0..(Weight[TopicWidth] - 1)) \X Seq(Cells),
    up <- {e \in Ends : IsEstablished(e)},
    down <- {e \in Ends : stage[e] = "closed"}

ImplementsFrames == Frames!Spec

\* A frame that was sent is heard without another one being sent, unless an
\* end closes: no complete frame is left in recv_buf_ (recv_frames() loops).
FramesArrive == Frames!Delivered

=============================================================================
