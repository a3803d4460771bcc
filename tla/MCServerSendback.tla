--------------------------- MODULE MCServerSendback ---------------------------
EXTENDS ServerSendback, TLC

\* Only the first packet is small: the other two do not fit together.
Sizes == [p \in Packets |-> IF p = 1 THEN 1 ELSE 2]
=============================================================================
