---------------------------- MODULE SocketStream ----------------------------
(***************************************************************************)
(* Frames in a stream of bytes: src/stage/net/Socket.cpp between hub and   *)
(* inner servers ("inner") and between hub and outer clients, whose frames *)
(* carry a mask the hub verifies ("outer"), and the receiver of the SDK,   *)
(* src/xiyousdk/net/SocketClient.cpp ("sdk").  The bytes come in pieces of *)
(* any size.  What is encrypted and compressed is done and undone here     *)
(* too: StageSocket::EncryptMessage and DecryptMessage, and cipher/RC4.cpp.*)
(*                                                                         *)
(* A header keeps the order and parity of the code's fields, which matter  *)
(* to the mask: key, length and mask (or a length of four bytes), command  *)
(* with the compressed bit, and a sequence number of one byte.             *)
(***************************************************************************)
EXTENDS BinaryFormatter, FiniteSets

CONSTANTS
  Modes,        \* the kinds of connections: "inner", "outer", "sdk"
  Streams,      \* what an application may send: sequences of frames
  Transparent,  \* the commands whose payload is not encrypted
  Xored(_, _),  \* the exclusive or of two bytes
  Key, ModVt, Subtract,  \* what the two ends have agreed on
  Compressing,  \* whether the sender compresses: a subset of BOOLEAN
  SequenceNos,  \* the sequence numbers frames may have
  MSS,          \* what is read at once
  Garbage,      \* what the SDK's buffer may hold before it is written to
  Window,       \* bound: the sender waits while this many bytes are under way
  Faults        \* what may go wrong: "part", a frame is sent in part;
                \* "flip", a byte of an outer client's frame is changed

VARIABLES
  mode, frames, compressing,
  sent,        \* how many frames the sender has given to the operating system
  bytes,       \* the bytes under way
  receiver,    \* [fhdr, head, body, buffer]
  delivered,   \* the frames handed to the application
  link,        \* "open", "closed", "aborted"
  fault        \* the first frame something went wrong with, or NULL

streamVars == <<mode, frames, compressing, sent, bytes, receiver, delivered,
                link, fault>>

Fk == 1
HeaderSize == 7
Half == ByteBase \div 2
Word == ByteBase * ByteBase

\* Combining a byte with the same one again undoes it.
ASSUME XoredAssumption ==
  \A a, b \in Byte : Xored(a, b) \in Byte /\ Xored(Xored(a, b), b) = a

\* The box of rc4_crypt has 255 places.
ASSUME CipherAssumption ==
  /\ Key \in Seq(Byte) /\ Key # <<>>
  /\ ModVt \in 1 .. ByteBase - 1 /\ Subtract \in Int

ASSUME SocketAssumption ==
  /\ Modes \subseteq {"inner", "outer", "sdk"} /\ Compressing \subseteq BOOLEAN
  /\ SequenceNos \subseteq Byte /\ MSS \in Nat \ {0}
  /\ Garbage \subseteq [1 .. HeaderSize -> Byte]

\* An application sends what the length in the header can tell: two bytes if
\* there is a mask, and a positive number of four bytes otherwise.
ASSUME StreamsAssumption ==
  \A s \in Streams :
    /\ s \in Seq([cmd : 0 .. Half - 1, payload : Seq(Byte)])
    /\ \A i \in DOMAIN s :
         Len(s[i].payload) < IF "outer" \in Modes THEN Word ELSE Word * ByteBase * Half

\* A null pointer is no number and no payload.
ASSUME NullAssumption == NULL \notin Nat /\ NULL \notin Seq(Byte)

--------------------------------------------------------------------------------
(* cipher/RC4.cpp.  low is never raised, so it stays at zero.              *)

Swap(box, a, b) == [box EXCEPT ![a] = box[b], ![b] = box[a]]

\* One turn of the key schedule's second loop, and of the loop over the payload.
Mixed(s, i) ==
  LET j == (s.j + s.box[i] + Key[1 + (i % Len(Key))]) % ModVt
  IN  [box |-> Swap(s.box, i, j), j |-> j]

Turned(s, i) ==
  LET high == (s.high + s.box[i % ModVt]) % ModVt
  IN  [box |-> Swap(s.box, 0, high), high |-> high]

SBox ==
  LET s[i \in 0 .. ModVt] ==
        IF i = 0 THEN [box |-> [b \in 0 .. ModVt - 1 |-> b], j |-> 0]
        ELSE Mixed(s[i - 1], i - 1)
  IN  s[ModVt].box

\* The n bytes a payload of n bytes is combined with.
KeyStream(n) ==
  LET s[i \in 0 .. n] ==
        IF i = 0 THEN [box |-> SBox, high |-> 0] ELSE Turned(s[i - 1], i - 1)
      Mid(t) == (t.box[0] + t.box[t.high]) % ModVt
  IN  [i \in 1 .. n |-> s[i].box[Mid(s[i])]]

Encrypted(p) ==
  LET k == KeyStream(Len(p))
  IN  [i \in DOMAIN p |-> (Xored(p[i], k[i]) - Subtract) % ByteBase]

Decrypted(p) ==
  LET k == KeyStream(Len(p))
  IN  [i \in DOMAIN p |-> Xored((p[i] + Subtract) % ByteBase, k[i])]

(* The compressor: equal bytes become one and their number, in two bytes.  *)
(* It may make a payload longer, and does not make one of bytes that       *)
(* differ shorter.                                                         *)

Deflated(p) ==
  IF Len(p) < Word /\ \A i \in DOMAIN p : p[i] = p[1]
    THEN <<p[1]>> \o TwoBytes(Len(p)) ELSE p

\* An empty result stands for an exception too.
Inflated(p) ==
  IF Len(p) # 3 THEN <<>> ELSE [i \in 1 .. Number(SubSeq(p, 2, 3)) |-> p[1]]

\* EncryptMessage: [payload, compressed].
EncryptMessage(cmd, p) ==
  LET packed == compressing /\ Len(Deflated(p)) < Len(p)
  IN  IF p = <<>> \/ cmd \in Transparent THEN [payload |-> p, compressed |-> FALSE]
      ELSE [payload |-> Encrypted(IF packed THEN Deflated(p) ELSE p),
            compressed |-> packed]

\* DecryptMessage: the payload, or NULL if it cannot be unpacked.
DecryptMessage(cmd, p, compressed) ==
  LET plain == Decrypted(p)
  IN  CASE p = <<>> \/ cmd \in Transparent -> p
        [] p # <<>> /\ cmd \notin Transparent /\ ~compressed -> plain
        [] OTHER -> IF Inflated(plain) = <<>> THEN NULL ELSE Inflated(plain)

--------------------------------------------------------------------------------
(* Frames.                                                                 *)

\* The sum MaskOff32 takes over words whose first byte is the higher one, a
\* last byte alone being the higher byte of its word, folded twice.
Folded(acc) == (acc \div Word) + (acc % Word)
Octet(b, i) == IF i % 2 = 1 THEN ByteBase * b[i] ELSE b[i]
Summed(b, acc) ==
  LET s[i \in 0 .. Len(b)] == IF i = 0 THEN acc ELSE s[i - 1] + Octet(b, i)
  IN  s[Len(b)]
MaskOff32(b, acc) == Folded(Folded(Summed(b, acc)))

\* Mutant: the payload is left out of the sum.
CheckingHeadOnly(head, body) == MaskOff32(head, 0) % Word = Word - 1

CheckingMaskOff(head, body) ==
  MaskOff32(body, MaskOff32(head, 0)) % Word = Word - 1

\* 0 and 0xffff are no masks.
Masks == 1 .. Word - 2
Mask(head) == Number(SubSeq(head, 4, 5))

Command(head) == head[6] % Half
IsCompressed(head) == head[6] \div Half = 1

\* Length and mask share the four bytes of the length.
PayloadSize(head) ==
  IF mode = "outer" THEN Number(SubSeq(head, 2, 3))
  ELSE Number(SubSeq(head, 2, 3)) + Word * Number(SubSeq(head, 4, 5))

Header(size, mask, cmd, seq) ==
  <<Fk>> \o TwoBytes(size % Word) \o TwoBytes(mask) \o <<cmd, seq>>

\* ToPacket of the hub's socket, and what an outer client makes of a frame:
\* the same with a mask that makes the sum right.  There may be none: every
\* frame whose other words sum to a multiple of 0xffff is refused, and the
\* client has to take another sequence number.
StagePackets(f, seq) ==
  LET sealed == EncryptMessage(f.cmd, f.payload)
      cmd == f.cmd + (IF sealed.compressed THEN Half ELSE 0)
      size == Len(sealed.payload)
      WithMask(m) == Header(size, m, cmd, seq)
  IN  IF mode = "inner" THEN {WithMask(size \div Word) \o sealed.payload}
      ELSE {WithMask(m) \o sealed.payload :
              m \in {m \in Masks : CheckingMaskOff(WithMask(m), sealed.payload)}}

\* SocketClient::Send.
SdkPacket(f, seq) ==
  Header(Len(f.payload), Len(f.payload) \div Word, f.cmd, seq) \o f.payload

Packets(f, seq) == IF mode = "sdk" THEN {SdkPacket(f, seq)} ELSE StagePackets(f, seq)

--------------------------------------------------------------------------------
(* The state machine.                                                      *)

\* Receiver::Clear and Reset.
Idle(buffer) == [fhdr |-> FALSE, head |-> <<>>, body |-> <<>>, buffer |-> buffer]

StreamInit ==
  /\ mode \in Modes
  /\ frames \in Streams
  /\ compressing \in (IF mode = "sdk" THEN {FALSE} ELSE Compressing)
  /\ sent = 0 /\ bytes = <<>> /\ delivered = <<>>
  /\ \E g \in (IF mode = "sdk" THEN Garbage ELSE {<<>>}) : receiver = Idle(g)
  /\ link = "open" /\ fault = NULL

\* The first frame something went wrong with, now that it did with frame k.
Since(k) == IF fault = NULL \/ k < fault THEN k ELSE fault

MaySend == link = "open" /\ sent < Len(frames) /\ Len(bytes) < Window

SendFrame ==
  /\ MaySend
  /\ \E seq \in SequenceNos : \E packet \in Packets(frames[sent + 1], seq) :
       bytes' = bytes \o packet
  /\ sent' = sent + 1
  /\ UNCHANGED <<mode, frames, compressing, receiver, delivered, link, fault>>

\* The operating system took only a part of the frame, and nobody looks at how
\* much: neither ProcessSend nor SocketClient::Send.
SendPart ==
  /\ "part" \in Faults /\ mode # "outer" /\ fault = NULL
  /\ MaySend
  /\ \E seq \in SequenceNos : \E packet \in Packets(frames[sent + 1], seq) :
       \E n \in 1 .. Len(packet) - 1 :
         bytes' = bytes \o SubSeq(packet, 1, n)
  /\ sent' = sent + 1 /\ fault' = Since(sent + 1)
  /\ UNCHANGED <<mode, frames, compressing, receiver, delivered, link>>

\* On its way to the hub, a byte of an outer client's frame becomes another one:
\* none of its length, for another number of bytes may have the right sum.
SendFlipped ==
  /\ "flip" \in Faults /\ mode = "outer" /\ fault = NULL
  /\ MaySend
  /\ \E seq \in SequenceNos : \E packet \in Packets(frames[sent + 1], seq) :
       \E i \in DOMAIN packet \ {2, 3}, b \in Byte :
         /\ b # packet[i]
         /\ bytes' = bytes \o [packet EXCEPT ![i] = b]
  /\ sent' = sent + 1 /\ fault' = Since(sent + 1)
  /\ UNCHANGED <<mode, frames, compressing, receiver, delivered, link>>

\* What StartReceive asks for: the rest of the header or of the payload.
Asked ==
  LET rest == IF receiver.fhdr THEN PayloadSize(receiver.head) - Len(receiver.body)
              ELSE HeaderSize - Len(receiver.head)
  IN  IF rest > MSS THEN MSS ELSE rest

Taken(n) == bytes' = SubSeq(bytes, n + 1, Len(bytes))

Abort == link' = "aborted" /\ receiver' = Idle(<<>>) /\ UNCHANGED delivered
Await(r) == receiver' = r /\ UNCHANGED <<delivered, link>>
HandOver(cmd, payload, buffer) ==
  /\ delivered' = Append(delivered, [cmd |-> cmd, payload |-> payload])
  /\ receiver' = Idle(buffer) /\ UNCHANGED link

\* The end of ProcessReceive.
Complete(head, body) ==
  LET plain == DecryptMessage(Command(head), body, IsCompressed(head))
  IN  IF (mode = "outer" => CheckingMaskOff(head, body)) /\ plain # NULL
        THEN HandOver(Command(head), plain, <<>>)
      ELSE Abort

\* Mutant: the key is looked at in every piece of the header.
StageHeaderEveryPiece(piece) ==
  LET head == receiver.head \o piece
  IN  CASE piece[1] # Fk -> Abort
        [] piece[1] = Fk /\ Len(head) < HeaderSize ->
             Await([receiver EXCEPT !.head = head])
        [] OTHER ->
             IF PayloadSize(head) > 0
               THEN Await([receiver EXCEPT !.fhdr = TRUE, !.head = head])
             ELSE Complete(head, <<>>)

\* The key is looked at when the first bytes of a header are in.
StageHeader(piece) ==
  LET head == receiver.head \o piece
  IN  CASE receiver.head = <<>> /\ piece[1] # Fk -> Abort
        [] (receiver.head # <<>> \/ piece[1] = Fk) /\ Len(head) < HeaderSize ->
             Await([receiver EXCEPT !.head = head])
        [] OTHER ->
             IF mode = "outer" /\ Mask(head) \notin Masks THEN Abort
             ELSE IF PayloadSize(head) > 0
               THEN Await([receiver EXCEPT !.fhdr = TRUE, !.head = head])
             ELSE Complete(head, <<>>)

StagePayload(piece) ==
  LET body == receiver.body \o piece
  IN  IF Len(body) < PayloadSize(receiver.head)
        THEN Await([receiver EXCEPT !.body = body])
      ELSE Complete(receiver.head, body)

StageReceive ==
  /\ mode # "sdk" /\ link = "open"
  /\ \E n \in 1 .. Asked :
       /\ n <= Len(bytes) /\ Taken(n)
       /\ IF receiver.fhdr THEN StagePayload(SubSeq(bytes, 1, n))
          ELSE StageHeader(SubSeq(bytes, 1, n))
  /\ UNCHANGED <<mode, frames, compressing, sent, fault>>

\* DoRecvBuffer reads into a buffer that keeps what it held behind the piece,
\* and takes the buffer's first bytes for a header however long the piece was:
\* the number compared with the header's size is the one asked for.
Overwritten(piece) ==
  [i \in DOMAIN receiver.buffer |->
     IF i <= Len(piece) THEN piece[i] ELSE receiver.buffer[i]]

IsNegative(head) == head[5] >= Half

SdkHeader(piece) ==
  LET head == Overwritten(piece)
  IN  CASE head[1] # Fk \/ IsNegative(head) -> Abort
        [] head[1] = Fk /\ ~IsNegative(head) /\ PayloadSize(head) > 0 ->
             Await([fhdr |-> TRUE, head |-> head, body |-> <<>>, buffer |-> head])
        [] OTHER -> HandOver(head[6], <<>>, head)

SdkPayload(piece) ==
  LET body == receiver.body \o piece
  IN  IF Len(body) < PayloadSize(receiver.head)
        THEN Await([receiver EXCEPT !.body = body, !.buffer = Overwritten(piece)])
      ELSE HandOver(receiver.head[6], body, Overwritten(piece))

SdkReceive ==
  /\ mode = "sdk" /\ link = "open"
  /\ \E n \in 1 .. Asked :
       /\ n <= Len(bytes) /\ Taken(n)
       /\ IF receiver.fhdr THEN SdkPayload(SubSeq(bytes, 1, n))
          ELSE SdkHeader(SubSeq(bytes, 1, n))
       /\ fault' = IF receiver.fhdr \/ n = HeaderSize THEN fault
                   ELSE Since(Len(delivered) + 1)
  /\ UNCHANGED <<mode, frames, compressing, sent>>

\* The peer ends the connection, and nothing is under way any more.
Fin ==
  /\ link = "open" /\ bytes = <<>>
  /\ link' = "closed" /\ receiver' = Idle(<<>>)
  /\ UNCHANGED <<mode, frames, compressing, sent, bytes, delivered, fault>>

StreamNext == SendFrame \/ SendPart \/ SendFlipped \/ StageReceive \/ SdkReceive \/ Fin

StreamSpec == StreamInit /\ [][StreamNext]_streamVars

--------------------------------------------------------------------------------
\* Wherever the bytes are cut, the application gets the frames that were sent,
\* in order and unaltered, encrypted and compressed or not: all of them as soon
\* as their bytes are in, and no sound connection is aborted.  A frame sent in
\* part, one changed, or an SDK header that comes in pieces spoils nothing that
\* went before it.
FramesIntact ==
  LET sound == IF fault = NULL THEN Len(frames) ELSE fault - 1
  IN  /\ \A i \in DOMAIN delivered : i <= sound => delivered[i] = frames[i]
      /\ fault = NULL =>
           /\ link # "aborted"
           /\ Len(delivered) <= sent
           /\ bytes = <<>> => Len(delivered) = sent

\* A frame of an outer client in which a byte was changed is never handed on,
\* nor is anything after it taken for what it is not.
ForgedRefused ==
  mode = "outer" => IsPrefix(delivered, frames)
================================================================================
