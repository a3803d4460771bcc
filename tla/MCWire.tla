-------------------------------- MODULE MCWire --------------------------------
(* Wire on bytes of four values: texts around every length at which        *)
(* the code decides: null, empty, short, the longest, and those that do    *)
(* not fit.  One text at a time differs from the others.                   *)
EXTENDS Wire, Bitwise, TLC

TextOf(n) == [i \in 1 .. n |-> i % ByteBase]
Texts == {NULL} \cup {TextOf(n) : n \in {0, 1, 14, 15, 16}}
Usual == {NULL, TextOf(2)}

NumberOf(c, f) ==
  LET k == CHOOSE k \in DOMAIN Written[c] : Written[c][k].name = f.name
  IN  [i \in 1 .. f.width |-> (k + i) % ByteBase]

\* All texts are alike but one.
Values(c, pointers(_), kinds, usual) ==
  LET odd == {n \in FieldNames(c) : Field(c, n).kind = "text"}
  IN  {[n \in FieldNames(c) |->
          LET f == Field(c, n)
          IN  CASE f.kind = "fixed" -> NumberOf(c, f)
                [] f.kind = "text" -> IF n = o THEN t ELSE u
                [] OTHER -> p[f.kind]] :
         o \in odd, t \in kinds, u \in usual,
         p \in [{"member", "members"} -> UNION {pointers(c)}]}

NoPointers(c) == {NULL}
Servers == Values("XiYouGameServer", NoPointers, {NULL}, {TextOf(1)})
Orders == Values("CreateOrderResponse", NoPointers, {NULL, TextOf(1)}, {TextOf(1)})
ServerLists == {NULL, <<>>} \cup {<<NULL>>} \cup {<<NULL, s>> : s \in Servers}
                 \cup {<<s, NULL>> : s \in Servers} \cup {<<s, s>> : s \in Servers}

Logins ==
  {[n \in FieldNames("LoginAccountResponse") |->
      CASE n = "DefaultServer" -> d
        [] n = "LoggedServers" -> l
        [] n = "UserId" -> t
        [] OTHER -> NULL] :
     d \in {NULL} \cup Servers, l \in ServerLists, t \in {NULL, TextOf(1)}}

Generic(c, tags) ==
  {[n \in FieldNames(c) |->
      CASE n = "Code" -> <<3, 2, 1, 0>> [] n = "Message" -> t [] OTHER -> g] :
     t \in Usual, g \in tags}

Bulks == [memberType : {2},
          members : {<<>>, <<<<1, 2>>>>, <<<<3, 0>>, <<0, 3>>>>},
          payload : {<<>>, <<3>>, <<1, 0, 2>>}]

Routes == [commandId : {<<1, 2>>}, sequenceNo : {<<3, 2, 1, 0>>},
           linkType : {<<2>>}, serverNo : {<<0, 3>>},
           platform : {TextOf(n) : n \in {0, 1, 3, 4}},
           payload : {<<>>, <<2, 1>>}]

MCInputs(c) ==
  CASE c = "BulkManyMessage" -> Bulks
    [] c = "Transitroute" -> Routes
    [] c = "LoginAccountResponse" -> Logins
    [] c = "GenericOrder" -> Generic(c, {NULL} \cup Orders)
    [] c = "GenericLogin" -> Generic(c, {NULL} \cup Logins)
    [] OTHER -> Values(c, NoPointers, Texts, Usual)

\* Two streams: a payload that can be packed, one that cannot, an empty one,
\* and, sent as it is, the command 0.
Frame(cmd, payload) == [cmd |-> cmd, payload |-> payload]
Equal(n) == [i \in 1 .. n |-> 2]
MCStreams ==
  {<<Frame(1, Equal(1)), Frame(0, TextOf(3)), Frame(0, <<>>)>>,
   <<Frame(1, Equal(5)), Frame(1, TextOf(2))>>}

MCKey == <<3, 1>>
MCXored(a, b) == a ^^ b
MCGarbage == {[i \in 1 .. 7 |-> b] : b \in {0, 1}}
=============================================================================
