-------------------------- MODULE MCSocketListener --------------------------
EXTENDS SocketListener, TLC

CONSTANTS c1, c2, s1

MCPeers == {c1, c2, s1}
MCPort == c1 :> "client" @@ c2 :> "client" @@ s1 :> "server"

=============================================================================
