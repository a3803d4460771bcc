--------------------------- MODULE BinaryFormatter ---------------------------
(***************************************************************************)
(* How the message classes put themselves into bytes and read themselves  *)
(* back: src/stage/stage/model/AuthenticationAAA.h and the classes under   *)
(* src/xiyousdk/proto, all of one pattern.  A class is the sequence of the *)
(* fields it writes and the sequence of the fields it reads, translated    *)
(* one from Serialize and one from Deserialize; what a field of a kind     *)
(* does to the bytes is said once.                                         *)
(*                                                                         *)
(* A byte has ByteBase values (256 in the code), a length or an item count *)
(* takes two bytes, and a text is a sequence of bytes or NULL.  A number   *)
(* is the sequence of its bytes: only lengths are computed with.           *)
(***************************************************************************)
EXTENDS Integers, Sequences, SequencesExt

CONSTANTS
  ByteBase,   \* the number of values of a byte
  NULL        \* a null pointer

ASSUME ByteBaseAssumption == ByteBase \in Nat /\ ByteBase >= 2

Byte == 0 .. ByteBase - 1

\* 0xffff: the length of a null text and the count of a null vector.
NoLength == ByteBase * ByteBase - 1
TwoBytes(n) == <<n % ByteBase, n \div ByteBase>>
Number(b) == b[1] + ByteBase * b[2]

(***************************************************************************)
(* Kinds of fields.  A fixed field has a size in the message and a width   *)
(* in memory: they differ for long double alone, of which 8 bytes are      *)
(* written while reading takes all 16 it has in memory.                    *)
(***************************************************************************)
Fixed(name, n) == [name |-> name, kind |-> "fixed", size |-> n, width |-> n]
LongDouble(name) == [name |-> name, kind |-> "fixed", size |-> 8, width |-> 16]
Text(name) == [name |-> name, kind |-> "text"]
Member(name, class) == [name |-> name, kind |-> "member", of |-> class]
Members(name, class) == [name |-> name, kind |-> "members", of |-> class]

--------------------------------------------------------------------------------
(* The classes: what Serialize writes and what Deserialize reads.          *)

AAARequestWritten ==
  <<Fixed("svrAreaNo", 2), Fixed("serverNo", 2), Text("platform"),
    Fixed("linkType", 1), Fixed("maxFD", 2)>>
AAARequestRead ==
  <<Fixed("svrAreaNo", 2), Fixed("serverNo", 2), Text("platform"),
    Fixed("linkType", 1), Fixed("maxFD", 2)>>

AAAResponseWritten ==
  <<Fixed("code", 2), Fixed("subtract", 1), Fixed("modVt", 1), Text("key"),
    Fixed("linkNo", 4), Fixed("linkType", 1)>>
AAAResponseRead ==
  <<Fixed("code", 2), Fixed("subtract", 1), Fixed("modVt", 1), Text("key"),
    Fixed("linkNo", 4), Fixed("linkType", 1)>>

LoginAccountRequestWritten ==
  <<Text("UserToken"), Fixed("ClientIP", 4), Text("ClientInfo")>>
LoginAccountRequestRead ==
  <<Text("UserToken"), Fixed("ClientIP", 4), Text("ClientInfo")>>

FeedbackAccountRequestWritten ==
  <<Fixed("AppCategory", 1), Text("AccountId"), Text("RoleId"),
    Text("ReportContent")>>
FeedbackAccountRequestRead ==
  <<Fixed("AppCategory", 1), Text("AccountId"), Text("RoleId"),
    Text("ReportContent")>>

GMWebInstructionWritten ==
  <<Text("Interface"), Text("Platform"), Fixed("TimeSpan", 4), Text("Request")>>
GMWebInstructionRead ==
  <<Text("Interface"), Text("Platform"), Fixed("TimeSpan", 4), Text("Request")>>

CreateOrderRequestWritten ==
  <<Fixed("AppCategory", 1), Text("UserId"), Fixed("ProductId", 4),
    Text("ProduceName"), Text("ProduceDesc"), Fixed("BuyNum", 4),
    Fixed("Money", 4), Fixed("RoleId", 8), Text("RoleName"),
    Fixed("RoleLevel", 4), Text("Extension"), Text("PidClientFlags"),
    Fixed("ClientIP", 4), Text("ClientInfo")>>
CreateOrderRequestRead ==
  <<Fixed("AppCategory", 1), Text("UserId"), Fixed("ProductId", 4),
    Text("ProduceName"), Text("ProduceDesc"), Fixed("BuyNum", 4),
    Fixed("Money", 4), Fixed("RoleId", 8), Text("RoleName"),
    Fixed("RoleLevel", 4), Text("Extension"), Text("PidClientFlags"),
    Fixed("ClientIP", 4), Text("ClientInfo")>>

PayAckOrderRequestWritten ==
  <<Text("ProductName"), Text("OrderNo"), Text("ChannelOrderNo"),
    Text("UserID"), Fixed("Money", 4), Text("Currency"), Text("Extension"),
    Fixed("BuyType", 4), Text("Platform")>>
\* A mutant: two texts in the wrong order.
PayAckOrderRequestReadSwapped ==
  <<Text("ProductName"), Text("ChannelOrderNo"), Text("OrderNo"),
    Text("UserID"), Fixed("Money", 4), Text("Currency"), Text("Extension"),
    Fixed("BuyType", 4), Text("Platform")>>
PayAckOrderRequestRead ==
  <<Text("ProductName"), Text("OrderNo"), Text("ChannelOrderNo"),
    Text("UserID"), Fixed("Money", 4), Text("Currency"), Text("Extension"),
    Fixed("BuyType", 4), Text("Platform")>>

CreateOrderResponseWritten ==
  <<Text("OrderNo"), Text("Extension"), Fixed("Flag", 4)>>
CreateOrderResponseRead ==
  <<Text("OrderNo"), Text("Extension"), Fixed("Flag", 4)>>

XiYouGameServerWritten ==
  <<Text("ServerName"), Fixed("IsCommend", 1), Fixed("Type", 1),
    Text("ServerId"), Fixed("Status", 1), Fixed("ActiveTime", 4),
    Fixed("LoginTime", 4), Text("Platform")>>
XiYouGameServerRead ==
  <<Text("ServerName"), Fixed("IsCommend", 1), Fixed("Type", 1),
    Text("ServerId"), Fixed("Status", 1), Fixed("ActiveTime", 4),
    Fixed("LoginTime", 4), Text("Platform")>>

LoginAccountResponseWritten ==
  <<Text("UserId"), Text("UserName"), Text("ChannelId"), Text("ChannelUserId"),
    Member("DefaultServer", "XiYouGameServer"),
    Members("LoggedServers", "XiYouGameServer")>>
LoginAccountResponseRead ==
  <<Text("UserId"), Text("UserName"), Text("ChannelId"), Text("ChannelUserId"),
    Member("DefaultServer", "XiYouGameServer"),
    Members("LoggedServers", "XiYouGameServer")>>

\* GenericResponse<T>: Code, Message and a Tag of type T, a class for every T.
GenericOrderWritten ==
  <<Fixed("Code", 4), Text("Message"), Member("Tag", "CreateOrderResponse")>>
GenericOrderRead ==
  <<Fixed("Code", 4), Text("Message"), Member("Tag", "CreateOrderResponse")>>
GenericLoginWritten ==
  <<Fixed("Code", 4), Text("Message"), Member("Tag", "LoginAccountResponse")>>
GenericLoginRead ==
  <<Fixed("Code", 4), Text("Message"), Member("Tag", "LoginAccountResponse")>>
GenericStringWritten == <<Fixed("Code", 4), Text("Message"), Text("Tag")>>
GenericStringRead == <<Fixed("Code", 4), Text("Message"), Text("Tag")>>
GenericDoubleWritten == <<Fixed("Code", 4), Text("Message"), LongDouble("Tag")>>
GenericDoubleRead == <<Fixed("Code", 4), Text("Message"), LongDouble("Tag")>>
GenericSingleWritten == <<Fixed("Code", 4), Text("Message"), Fixed("Tag", 4)>>
GenericSingleRead == <<Fixed("Code", 4), Text("Message"), Fixed("Tag", 4)>>
GenericInt8Written == <<Fixed("Code", 4), Text("Message"), Fixed("Tag", 1)>>
GenericInt8Read == <<Fixed("Code", 4), Text("Message"), Fixed("Tag", 1)>>
GenericInt16Written == <<Fixed("Code", 4), Text("Message"), Fixed("Tag", 2)>>
GenericInt16Read == <<Fixed("Code", 4), Text("Message"), Fixed("Tag", 2)>>
GenericInt32Written == <<Fixed("Code", 4), Text("Message"), Fixed("Tag", 4)>>
GenericInt32Read == <<Fixed("Code", 4), Text("Message"), Fixed("Tag", 4)>>
GenericInt64Written == <<Fixed("Code", 4), Text("Message"), Fixed("Tag", 8)>>
GenericInt64Read == <<Fixed("Code", 4), Text("Message"), Fixed("Tag", 8)>>

\* What the classes write and read, by name.
Written == [
  AuthenticationAAARequest |-> AAARequestWritten,
  AuthenticationAAAResponse |-> AAAResponseWritten,
  LoginAccountRequest |-> LoginAccountRequestWritten,
  FeedbackAccountRequest |-> FeedbackAccountRequestWritten,
  GMWebInstruction |-> GMWebInstructionWritten,
  CreateOrderRequest |-> CreateOrderRequestWritten,
  PayAckOrderRequest |-> PayAckOrderRequestWritten,
  CreateOrderResponse |-> CreateOrderResponseWritten,
  XiYouGameServer |-> XiYouGameServerWritten,
  LoginAccountResponse |-> LoginAccountResponseWritten,
  GenericOrder |-> GenericOrderWritten, GenericLogin |-> GenericLoginWritten,
  GenericString |-> GenericStringWritten, GenericDouble |-> GenericDoubleWritten,
  GenericSingle |-> GenericSingleWritten, GenericInt8 |-> GenericInt8Written,
  GenericInt16 |-> GenericInt16Written, GenericInt32 |-> GenericInt32Written,
  GenericInt64 |-> GenericInt64Written]
Reads == [
  AuthenticationAAARequest |-> AAARequestRead,
  AuthenticationAAAResponse |-> AAAResponseRead,
  LoginAccountRequest |-> LoginAccountRequestRead,
  FeedbackAccountRequest |-> FeedbackAccountRequestRead,
  GMWebInstruction |-> GMWebInstructionRead,
  CreateOrderRequest |-> CreateOrderRequestRead,
  PayAckOrderRequest |-> PayAckOrderRequestRead,
  CreateOrderResponse |-> CreateOrderResponseRead,
  XiYouGameServer |-> XiYouGameServerRead,
  LoginAccountResponse |-> LoginAccountResponseRead,
  GenericOrder |-> GenericOrderRead, GenericLogin |-> GenericLoginRead,
  GenericString |-> GenericStringRead, GenericDouble |-> GenericDoubleRead,
  GenericSingle |-> GenericSingleRead, GenericInt8 |-> GenericInt8Read,
  GenericInt16 |-> GenericInt16Read, GenericInt32 |-> GenericInt32Read,
  GenericInt64 |-> GenericInt64Read]

Classes == DOMAIN Written
FieldNames(class) == {Written[class][i].name : i \in DOMAIN Written[class]}
Field(class, name) ==
  LET i == CHOOSE i \in DOMAIN Written[class] : Written[class][i].name = name
  IN  Written[class][i]

--------------------------------------------------------------------------------
(* The texts that have a setter, which measures and copies them.          *)

AAARequestSetters == {"platform"}
AAAResponseSetters == {"key"}
LoginAccountRequestSetters == {"UserToken", "ClientInfo"}
FeedbackAccountRequestSetters == {"AccountId", "RoleId", "ReportContent"}
GMWebInstructionSetters == {"Interface", "Platform", "Request"}
CreateOrderRequestSetters ==
  {"UserId", "ProduceName", "ProduceDesc", "RoleName", "Extension",
   "PidClientFlags", "ClientInfo"}
PayAckOrderRequestSetters ==
  {"ProductName", "OrderNo", "ChannelOrderNo", "UserID", "Currency",
   "Extension", "Platform"}
CreateOrderResponseSetters == {"OrderNo", "Extension"}
XiYouGameServerSetters == {"ServerName", "ServerId", "Platform"}
LoginAccountResponseSetters == {"UserId", "UserName", "ChannelId", "ChannelUserId"}
GenericSetters == {"Message"}
GenericStringSetters == {"Message", "Tag"}

Setters == [
  AuthenticationAAARequest |-> AAARequestSetters,
  AuthenticationAAAResponse |-> AAAResponseSetters,
  LoginAccountRequest |-> LoginAccountRequestSetters,
  FeedbackAccountRequest |-> FeedbackAccountRequestSetters,
  GMWebInstruction |-> GMWebInstructionSetters,
  CreateOrderRequest |-> CreateOrderRequestSetters,
  PayAckOrderRequest |-> PayAckOrderRequestSetters,
  CreateOrderResponse |-> CreateOrderResponseSetters,
  XiYouGameServer |-> XiYouGameServerSetters,
  LoginAccountResponse |-> LoginAccountResponseSetters,
  GenericOrder |-> GenericSetters, GenericLogin |-> GenericSetters,
  GenericString |-> GenericStringSetters, GenericDouble |-> GenericSetters,
  GenericSingle |-> GenericSetters, GenericInt8 |-> GenericSetters,
  GenericInt16 |-> GenericSetters, GenericInt32 |-> GenericSetters,
  GenericInt64 |-> GenericSetters]

--------------------------------------------------------------------------------
(* The object: what the constructor and the setters make of it.           *)

\* A constructor zeroes the numbers and leaves texts and pointers null.
New(class) ==
  [name \in FieldNames(class) |->
     LET f == Field(class, name)
     IN  IF f.kind = "fixed" THEN [i \in 1 .. f.width |-> 0] ELSE NULL]

\* SetX of a text: strlen is cut to two bytes, and a text whose length then
\* reads 0xffff is taken for null.
SetText(s) ==
  IF s = NULL THEN NULL
  ELSE LET len == Len(s) % (NoLength + 1)
       IN  IF len = NoLength THEN NULL ELSE SubSeq(s, 1, len)

--------------------------------------------------------------------------------
(***************************************************************************)
(* Writing.  Only classes without members are members of members, so there *)
(* are three levels: Plain for the fields and the objects of the lowest,    *)
(* of numbers and texts alone, Inner for those of the middle, and then a    *)
(* whole message.                                                          *)
(***************************************************************************)

PlainBytes(f, v) ==
  IF f.kind = "fixed" THEN SubSeq(v, 1, f.size)
  ELSE IF v = NULL THEN TwoBytes(NoLength) ELSE TwoBytes(Len(v)) \o v

PlainObjectBytes(class, o) ==
  <<0>> \o FlattenSeq([i \in DOMAIN Written[class] |->
                         PlainBytes(Written[class][i], o[Written[class][i].name])])

\* A pointer to a member: one byte 1 for null, otherwise the member itself,
\* whose first byte is 0.
PointerBytes(o, itself) == IF o = NULL THEN <<1>> ELSE itself

\* A vector longer than its two-byte count is cut to 0xfffe items.
VectorBytes(class, items) ==
  IF items = NULL THEN TwoBytes(NoLength)
  ELSE LET n == IF Len(items) >= NoLength THEN NoLength - 1 ELSE Len(items)
       IN  TwoBytes(n)
             \o FlattenSeq([i \in 1 .. n |->
                  PointerBytes(items[i], PlainObjectBytes(class, items[i]))])

InnerBytes(f, v) ==
  CASE f.kind = "member" -> PointerBytes(v, PlainObjectBytes(f.of, v))
    [] f.kind = "members" -> VectorBytes(f.of, v)
    [] OTHER -> PlainBytes(f, v)

InnerObjectBytes(class, o) ==
  <<0>> \o FlattenSeq([i \in DOMAIN Written[class] |->
                         InnerBytes(Written[class][i], o[Written[class][i].name])])

FieldBytes(f, v) ==
  IF f.kind = "member" THEN PointerBytes(v, InnerObjectBytes(f.of, v))
  ELSE InnerBytes(f, v)

Serialize(class, o) ==
  <<0>> \o FlattenSeq([i \in DOMAIN Written[class] |->
                         FieldBytes(Written[class][i], o[Written[class][i].name])])

--------------------------------------------------------------------------------
(***************************************************************************)
(* Reading.  A reader is [pos, count, ok, obj]: pos bytes are consumed,    *)
(* count is the code's own tally of the bytes left (it may go negative and *)
(* it may drift from the truth), ok is FALSE once Deserialize has returned *)
(* false.  m is the memory read from: the bytes that arrived, and the byte *)
(* that stands for everything behind them.                                 *)
(***************************************************************************)
ByteAt(m, p) == IF p <= Len(m.bytes) THEN m.bytes[p] ELSE m.beyond
BytesAt(m, d, n) == [i \in 1 .. n |-> ByteAt(m, d.pos + i)]

\* if ((count -= n) < 0) return false;
Short(d, n) == d.count < n
Refused(d, n) == [d EXCEPT !.count = @ - n, !.ok = FALSE]

ReadFixed(m, d, f) ==
  IF Short(d, f.size) THEN Refused(d, f.size)
  ELSE [d EXCEPT !.pos = @ + f.size, !.count = @ - f.size,
                 !.obj[f.name] = BytesAt(m, d, f.width)]

\* A mutant: the length of a text is believed.
ReadTextTrusting(m, d, f) ==
  IF Short(d, 2) THEN Refused(d, 2)
  ELSE LET len == Number(BytesAt(m, d, 2))
           e == [d EXCEPT !.pos = @ + 2, !.count = @ - 2]
       IN  IF len = NoLength THEN [e EXCEPT !.obj[f.name] = NULL]
           ELSE [e EXCEPT !.pos = @ + len, !.count = @ - len,
                          !.obj[f.name] = SetText(BytesAt(m, e, len))]

ReadText(m, d, f) ==
  IF Short(d, 2) THEN Refused(d, 2)
  ELSE LET len == Number(BytesAt(m, d, 2))
           e == [d EXCEPT !.pos = @ + 2, !.count = @ - 2]
       IN  IF len \in {0, NoLength}
             THEN [e EXCEPT !.obj[f.name] = IF len = 0 THEN <<>> ELSE NULL]
           ELSE IF Short(e, len) THEN Refused(e, len)
           ELSE [e EXCEPT !.pos = @ + len, !.count = @ - len,
                          !.obj[f.name] = SetText(BytesAt(m, e, len))]

ReadPlainField(m, d, f) ==
  CASE ~d.ok -> d
    [] d.ok /\ f.kind = "fixed" -> ReadFixed(m, d, f)
    [] OTHER -> ReadText(m, d, f)

\* Every class first reads one byte, which must be 0: the object is there.
\* if ((count -= 1) < 0) return false; if (*buf++ != 0) return false;
Begun(m, class, pos, count) ==
  [pos |-> IF count < 1 THEN pos ELSE pos + 1, count |-> count - 1,
   ok |-> count >= 1 /\ ByteAt(m, pos + 1) = 0, obj |-> New(class)]

\* A class of numbers and texts, field after field.
ReadPlain(m, class, pos, count) ==
  LET fs == Reads[class]
      after[n \in 0 .. Len(fs)] ==
        IF n = 0 THEN Begun(m, class, pos, count)
        ELSE ReadPlainField(m, after[n - 1], fs[n])
  IN  after[Len(fs)]

\* if ((count - 1) < 0) return false: the byte is looked at, and a null marker
\* is passed over without being taken off count.  itself is where reading the
\* member gets to; whether it could be read is not looked at.
ReadMember(m, d, f, itself) ==
  IF Short(d, 1) THEN [d EXCEPT !.ok = FALSE]
  ELSE IF ByteAt(m, d.pos + 1) # 0
    THEN [d EXCEPT !.pos = @ + 1, !.obj[f.name] = NULL]
  ELSE [itself EXCEPT !.ok = d.ok, !.obj = [d.obj EXCEPT ![f.name] = itself.obj]]

\* A mutant: the marker of an item is read without asking whether it is there.
ReadItemUnchecked(m, d, f, i) ==
  IF ~d.ok THEN d
  ELSE IF ByteAt(m, d.pos + 1) # 0
    THEN [d EXCEPT !.pos = @ + 1, !.obj[f.name][i] = NULL]
  ELSE LET e == ReadPlain(m, f.of, d.pos, d.count)
       IN  [e EXCEPT !.obj = [d.obj EXCEPT ![f.name][i] = e.obj]]

\* One item of a vector: here a member that cannot be read ends it all.
ReadItem(m, d, f, i) ==
  IF ~d.ok THEN d
  ELSE IF Short(d, 1) THEN [d EXCEPT !.ok = FALSE]
  ELSE IF ByteAt(m, d.pos + 1) # 0
    THEN [d EXCEPT !.pos = @ + 1, !.obj[f.name][i] = NULL]
  ELSE LET e == ReadPlain(m, f.of, d.pos, d.count)
       IN  [e EXCEPT !.obj = [d.obj EXCEPT ![f.name][i] = e.obj]]

ReadMembers(m, d, f) ==
  IF Short(d, 2) THEN Refused(d, 2)
  ELSE LET n == Number(BytesAt(m, d, 2))
           e == [d EXCEPT !.pos = @ + 2, !.count = @ - 2,
                          !.obj[f.name] = IF n = NoLength THEN NULL
                                          ELSE [i \in 1 .. n |-> NULL]]
           after[k \in 0 .. n] == IF k = 0 THEN e ELSE ReadItem(m, after[k - 1], f, k)
       IN  IF n = NoLength THEN e ELSE after[n]

ReadInnerField(m, d, f) ==
  CASE d.ok /\ f.kind = "member" ->
         ReadMember(m, d, f, ReadPlain(m, f.of, d.pos, d.count))
    [] d.ok /\ f.kind = "members" -> ReadMembers(m, d, f)
    [] OTHER -> ReadPlainField(m, d, f)

ReadInner(m, class, pos, count) ==
  LET fs == Reads[class]
      after[n \in 0 .. Len(fs)] ==
        IF n = 0 THEN Begun(m, class, pos, count)
        ELSE ReadInnerField(m, after[n - 1], fs[n])
  IN  after[Len(fs)]

ReadField(m, d, f) ==
  IF d.ok /\ f.kind = "member"
    THEN ReadMember(m, d, f, ReadInner(m, f.of, d.pos, d.count))
  ELSE ReadInnerField(m, d, f)

Deserialize(m, class, pos, count) ==
  LET fs == Reads[class]
      after[n \in 0 .. Len(fs)] ==
        IF n = 0 THEN Begun(m, class, pos, count)
        ELSE ReadField(m, after[n - 1], fs[n])
  IN  after[Len(fs)]
================================================================================
