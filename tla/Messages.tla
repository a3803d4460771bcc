------------------------------ MODULE Messages ------------------------------
(***************************************************************************)
(* One message from the application that fills it in to the application    *)
(* that reads it: the setters, Serialize, the bytes, of which a peer may   *)
(* send less than a whole message, and Deserialize.  Beside the classes of *)
(* BinaryFormatter there are the two messages of src/stage/net/Message.h   *)
(* that lay out their bytes themselves: TBulkManyMessage, which carries a  *)
(* message and the link numbers it is for, and Transitroute, which carries *)
(* one between servers of a platform.                                      *)
(***************************************************************************)
EXTENDS BinaryFormatter, FiniteSets

CONSTANTS
  Inputs(_),    \* what an application may fill in, for every kind of message
  Beyond        \* the bytes that may lie behind what arrived

\* What an application has to fill in: numbers of their width, texts, and null or
\* whole objects; field by field, on three levels as BinaryFormatter's writing.
PlainValue(f, v) ==
  IF f.kind = "fixed" THEN v \in Seq(Byte) /\ Len(v) = f.width
  ELSE v = NULL \/ v \in Seq(Byte)
PlainObject(c, o) ==
  /\ o = [n \in FieldNames(c) |-> o[n]]
  /\ \A i \in DOMAIN Written[c] : PlainValue(Written[c][i], o[Written[c][i].name])

InnerValue(f, v) ==
  CASE f.kind = "member" -> v = NULL \/ PlainObject(f.of, v)
    [] f.kind = "members" ->
         v = NULL \/ /\ Len(v) \in Nat /\ v = [i \in 1 .. Len(v) |-> v[i]]
                     /\ \A i \in 1 .. Len(v) : v[i] = NULL \/ PlainObject(f.of, v[i])
    [] OTHER -> PlainValue(f, v)
InnerObject(c, o) ==
  /\ o = [n \in FieldNames(c) |-> o[n]]
  /\ \A i \in DOMAIN Written[c] : InnerValue(Written[c][i], o[Written[c][i].name])

FieldValue(f, v) ==
  IF f.kind = "member" THEN v = NULL \/ InnerObject(f.of, v) ELSE InnerValue(f, v)
ClassObject(c, o) ==
  /\ o = [n \in FieldNames(c) |-> o[n]]
  /\ \A i \in DOMAIN Written[c] : FieldValue(Written[c][i], o[Written[c][i].name])

\* The sizes of the members of a bulk message and of a route's header are those
\* of their C types; ToPacket takes the number of members in two bytes.
Bulk == [memberType : Byte, members : Seq([1 .. 2 -> Byte]), payload : Seq(Byte)]
Route == [commandId : [1 .. 2 -> Byte], sequenceNo : [1 .. 4 -> Byte],
          linkType : [1 .. 1 -> Byte], serverNo : [1 .. 2 -> Byte],
          platform : Seq(Byte), payload : Seq(Byte)]

ASSUME InputsAssumption ==
  /\ \A c \in Classes : \A v \in Inputs(c) : ClassObject(c, v)
  /\ \A v \in Inputs("BulkManyMessage") : v \in Bulk /\ Len(v.members) <= NoLength
  /\ \A v \in Inputs("Transitroute") : v \in Route

\* What lies behind are bytes as well.
ASSUME BeyondAssumption == Beyond \subseteq Byte

VARIABLES
  phase,     \* "new", "filled", "sent", "arrived", "read"
  class,     \* the class of the message
  given,     \* what the application gave to the setters
  object,    \* the object they made
  wire,      \* the bytes it was put into
  memory,    \* what the reader sees: [bytes, beyond]
  got        \* what it read: [pos, count, ok, obj]

messageVars == <<phase, class, given, object, wire, memory, got>>

Nothing == [pos |-> 0, count |-> 0, ok |-> FALSE, obj |-> NULL]

MessageInit ==
  /\ phase = "new" /\ class = NULL /\ given = NULL /\ object = NULL
  /\ wire = <<>> /\ memory = [bytes |-> <<>>, beyond |-> 0] /\ got = Nothing

--------------------------------------------------------------------------------
(* TBulkManyMessage: a byte for the member type, a two-byte count, the     *)
(* members of two bytes each, and the rest is the payload.                 *)

BulkBytes(o) ==
  <<o.memberType>> \o TwoBytes(Len(o.members)) \o FlattenSeq(o.members)
    \o o.payload

\* LoadFrom clears the message and returns early, and with success, when there
\* are no members: then type and payload stay as cleared.
LoadBulk(b) ==
  LET none == [memberType |-> 0, members |-> <<>>, payload |-> <<>>]
      count == Number(SubSeq(b, 2, 3))
      end == 3 + 2 * count
  IN  CASE Len(b) < 3 -> [Nothing EXCEPT !.obj = none]
        [] Len(b) >= 3 /\ count = 0 ->
             [pos |-> 3, count |-> 0, ok |-> TRUE, obj |-> none]
        [] Len(b) >= 3 /\ count # 0 /\ end > Len(b) ->
             [Nothing EXCEPT !.obj = none]
        [] OTHER ->
             [pos |-> Len(b), count |-> 0, ok |-> TRUE,
              obj |-> [memberType |-> b[1],
                       members |-> [i \in 1 .. count |->
                                      SubSeq(b, 2 + 2 * i, 3 + 2 * i)],
                       payload |-> SubSeq(b, end + 1, Len(b))]]

(* Transitroute: a packed header of ten bytes, the platform, whose length  *)
(* is the header's last byte, and the payload.                             *)

HeaderBytes(o) == o.commandId \o o.sequenceNo \o o.linkType \o o.serverNo

\* ToArray gives up when the length of the platform does not fit its byte.
RouteFits(o) == Len(o.platform) < ByteBase
RouteBytes(o) ==
  HeaderBytes(o) \o <<Len(o.platform)>> \o o.platform \o o.payload

LoadRoute(b) ==
  IF Len(b) < 10 \/ Len(b) - 10 < b[10] THEN Nothing
  ELSE [pos |-> Len(b), count |-> 0, ok |-> TRUE,
        obj |-> [commandId |-> SubSeq(b, 1, 2), sequenceNo |-> SubSeq(b, 3, 6),
                 linkType |-> SubSeq(b, 7, 7), serverNo |-> SubSeq(b, 8, 9),
                 platform |-> SubSeq(b, 11, 10 + b[10]),
                 payload |-> SubSeq(b, 11 + b[10], Len(b))]]

--------------------------------------------------------------------------------
(* The message's way.                                                      *)

IsFormatted(c) == c \in Classes

\* The application fills a new object in; in a class every text goes through
\* its setter, and so does every text of its members.
FilledText(c, f, v) ==
  IF f.kind = "text" /\ f.name \in Setters[c] THEN SetText(v) ELSE v
FilledPlain(c, v) ==
  [name \in FieldNames(c) |-> FilledText(c, Field(c, name), v[name])]

FilledInnerField(c, f, v) ==
  CASE f.kind \in {"fixed", "text"} -> FilledText(c, f, v)
    [] f.kind = "member" -> IF v = NULL THEN NULL ELSE FilledPlain(f.of, v)
    [] OTHER -> IF v = NULL THEN NULL
                ELSE [i \in DOMAIN v |-> IF v[i] = NULL THEN NULL
                                         ELSE FilledPlain(f.of, v[i])]
FilledInner(c, v) ==
  [name \in FieldNames(c) |-> FilledInnerField(c, Field(c, name), v[name])]

FilledField(c, f, v) ==
  IF f.kind = "member" /\ v # NULL THEN FilledInner(f.of, v)
  ELSE FilledInnerField(c, f, v)
Filled(c, v) ==
  [name \in FieldNames(c) |-> FilledField(c, Field(c, name), v[name])]

Fill ==
  /\ phase = "new"
  /\ \E c \in Classes \cup {"BulkManyMessage", "Transitroute"} :
       \E v \in Inputs(c) :
         /\ class' = c /\ given' = v
         /\ object' = IF IsFormatted(c) THEN Filled(c, v) ELSE v
  /\ phase' = "filled"
  /\ UNCHANGED <<wire, memory, got>>

Bytes(c, o) ==
  CASE IsFormatted(c) -> Serialize(c, o)
    [] c = "BulkManyMessage" -> BulkBytes(o)
    [] OTHER -> RouteBytes(o)

\* Message::New copies what the class wrote into the payload.
Send ==
  /\ phase = "filled" /\ (class = "Transitroute" => RouteFits(object))
  /\ wire' = Bytes(class, object)
  /\ phase' = "sent"
  /\ UNCHANGED <<class, given, object, memory, got>>

\* ToPacket returns null, and nothing is sent.
NotSent ==
  /\ phase = "filled" /\ class = "Transitroute" /\ ~RouteFits(object)
  /\ phase' = "new" /\ class' = NULL /\ given' = NULL /\ object' = NULL
  /\ UNCHANGED <<wire, memory, got>>

\* The whole message arrives, or a payload that ends before it does.
Arrive ==
  /\ phase = "sent"
  /\ \E n \in 0 .. Len(wire), b \in Beyond :
       memory' = [bytes |-> SubSeq(wire, 1, n), beyond |-> b]
  /\ phase' = "arrived"
  /\ UNCHANGED <<class, given, object, wire, got>>

\* Message::Deserialize and SocketMessage::Deserialize: an empty payload is
\* refused before the class is asked.
Read(c, m) ==
  CASE Len(m.bytes) = 0 -> Nothing
    [] Len(m.bytes) > 0 /\ IsFormatted(c) ->
         Deserialize(m, c, 0, Len(m.bytes))
    [] Len(m.bytes) > 0 /\ c = "BulkManyMessage" -> LoadBulk(m.bytes)
    [] OTHER -> LoadRoute(m.bytes)

Receive ==
  /\ phase = "arrived"
  /\ got' = Read(class, memory)
  /\ phase' = "read"
  /\ UNCHANGED <<class, given, object, wire, memory>>

MessageNext == Fill \/ Send \/ NotSent \/ Arrive \/ Receive

--------------------------------------------------------------------------------
Whole == Len(memory.bytes) = Len(wire)

\* Nothing of the message is so long that its length, or its number of items,
\* does not fit two bytes beside the value that stands for null.
PlainFits(f, v) == f.kind = "text" /\ v # NULL => Len(v) < NoLength
PlainObjectFits(c, v) == \A n \in FieldNames(c) : PlainFits(Field(c, n), v[n])
InnerFits(f, v) ==
  CASE f.kind = "member" /\ v # NULL -> PlainObjectFits(f.of, v)
    [] f.kind = "members" /\ v # NULL ->
         /\ Len(v) < NoLength
         /\ \A i \in DOMAIN v : v[i] # NULL => PlainObjectFits(f.of, v[i])
    [] OTHER -> PlainFits(f, v)
InnerObjectFits(c, v) == \A n \in FieldNames(c) : InnerFits(Field(c, n), v[n])
FieldFits(f, v) ==
  IF f.kind = "member" /\ v # NULL THEN InnerObjectFits(f.of, v) ELSE InnerFits(f, v)
Fits ==
  IsFormatted(class) =>
    \A n \in FieldNames(class) : FieldFits(Field(class, n), given[n])

\* Whatever an application fills in is what the application at the other end
\* reads, and reading ends where the message does; apart from texts too long
\* for their length, the payload of a bulk message for nobody, and the Tag of
\* GenericResponse<long double>, of which half is sent.
RoundTrip ==
  phase = "read" /\ Whole /\ Fits /\ class # "GenericDouble"
    /\ (class = "BulkManyMessage" => given.members # <<>>)
  => got.ok /\ got.obj = given /\ got.pos = Len(wire)

\* The classes that hold a pointer to another class, directly or below.
HoldsMember(c) == \E i \in DOMAIN Reads[c] : Reads[c][i].kind \in {"member", "members"}

\* A message cut short is refused, and nothing behind what arrived is read: by
\* the classes of numbers and texts alone.
CutRefused ==
  phase = "read" /\ ~Whole /\ IsFormatted(class) /\ class # "GenericDouble"
    /\ ~HoldsMember(class)
  => ~got.ok /\ got.pos <= Len(memory.bytes)

\* A message is read as it was filled in or, when cut, not at all.
WholeOrRefused == RoundTrip /\ CutRefused

\* A class with members counts no null marker: cut short, it may be read past
\* its end, where one more byte that is not 0 is taken for one more null item.
MembersOf(c, o, kind) == {n \in FieldNames(c) : Field(c, n).kind = kind /\ o[n] # NULL}
NullMembers(c, o) == {n \in FieldNames(c) : Field(c, n).kind = "member" /\ o[n] = NULL}
HasNull(c, o) ==
  \/ NullMembers(c, o) # {}
  \/ \E n \in MembersOf(c, o, "members") : \E i \in DOMAIN o[n] : o[n][i] = NULL
Uncounted(c, o) ==
  IF HasNull(c, o)
    THEN Cardinality(NullMembers(c, o))
           + Cardinality({p \in MembersOf(c, o, "members") \X (1 .. NoLength) :
                            p[2] \in DOMAIN o[p[1]]})
  ELSE 0
UncountedIn(c, o) ==
  IF c = "GenericLogin" /\ o["Tag"] # NULL
    THEN Uncounted("LoginAccountResponse", o["Tag"])
  ELSE Uncounted(c, o)

\* A message without null pointers is never read past its end, and one with
\* some by no more bytes than it has null members and items.
OverreadBounded ==
  phase = "read" /\ IsFormatted(class) /\ class # "GenericDouble"
  => got.pos <= Len(memory.bytes) + UncountedIn(class, object)
================================================================================
