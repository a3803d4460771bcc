-------------------------------- MODULE Wire --------------------------------
(***************************************************************************)
(* What is on the wire, from both ends of its format: how a message        *)
(* becomes bytes and is read back (Messages), and how frames of any bytes  *)
(* pass through a stream that is cut anywhere (SocketStream).  The two     *)
(* meet in the payload of a frame alone, so a behaviour follows either one *)
(* message or one stream.                                                  *)
(***************************************************************************)
EXTENDS Messages, SocketStream

NoStream ==
  /\ mode = "none" /\ frames = <<>> /\ compressing = FALSE /\ sent = 0
  /\ bytes = <<>> /\ receiver = NULL /\ delivered = <<>> /\ link = "closed"
  /\ fault = NULL

NoMessage ==
  /\ phase = "none" /\ class = NULL /\ given = NULL /\ object = NULL
  /\ wire = <<>> /\ memory = [bytes |-> <<>>, beyond |-> 0] /\ got = Nothing

WireInit == (MessageInit /\ NoStream) \/ (StreamInit /\ NoMessage)

WireNext ==
  \/ MessageNext /\ UNCHANGED streamVars
  \/ StreamNext /\ UNCHANGED messageVars

WireSpec == WireInit /\ [][WireNext]_<<messageVars, streamVars>>
=============================================================================
