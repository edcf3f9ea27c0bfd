------------------------------ MODULE SocksDial ------------------------------
(***************************************************************************)
(* The staged SOCKS5 dial of internal/socksdial and the warm-first attempt *)
(* of internal/proxyserver/server.go: in which class each behaviour of an  *)
(* endpoint ends.  The class decides whose health an attempt touches.      *)
(*                                                                         *)
(* An exchange is "broken" when the endpoint closes, stalls past the       *)
(* deadline or answers outside its frame; it stands for every such place   *)
(* of one stage.  Configuration admits no scheme but socks5.               *)
(***************************************************************************)

\* A reply to CONNECT: its four leading bytes, and the bound address that
\* follows them.
Reply == [header : {"granted", "refused", "broken"}, bound : {"whole", "broken"}]

\* No half connection was parked, so none replied.
NoReply == [header |-> "none", bound |-> "none"]

\* How an endpoint behaves, stage by stage; "canceled" is the context of the
\* server, which a forced shutdown ends.
Behaviour ==
  [tcp    : {"up", "down", "canceled"},
   method : {"none", "password", "refused", "unknown", "broken"},
   login  : {"accepted", "rejected", "broken"},
   reply  : Reply]

\* The user and password of a route; a hostname or port may not fit a frame.
Credentials == {"absent", "usable", "oversized"}

Class == {"dial", "handshake", "connect_target", "auth", "setup"}

dialTCP(e) ==
  CASE e.tcp = "up"       -> "ok"
    [] e.tcp = "down"     -> "dial"
    [] e.tcp = "canceled" -> "setup"

Login(credentials, e) ==
  CASE credentials = "absent"    -> "auth"
    [] credentials = "oversized" -> "setup"
    [] credentials = "usable"    -> CASE e.login = "accepted" -> "ok"
                                      [] e.login = "rejected" -> "auth"
                                      [] e.login = "broken"   -> "handshake"

negotiate(credentials, e) ==
  CASE e.method = "none"                  -> "ok"
    [] e.method = "password"              -> Login(credentials, e)
    [] e.method = "refused"               -> "auth"
    [] e.method \in {"unknown", "broken"} -> "handshake"

DialHalf(credentials, e) ==
  IF dialTCP(e) = "ok" THEN negotiate(credentials, e) ELSE dialTCP(e)

\* The header alone decides that a refusal is about the target: the bound
\* address of a refused reply is never read.
CompleteConnect(encodes, reply) ==
  CASE ~encodes -> "setup"
    [] encodes /\ reply.header = "broken"  -> "handshake"
    [] encodes /\ reply.header = "refused" -> "connect_target"
    [] encodes /\ reply.header = "granted" -> IF reply.bound = "whole" THEN "ok" ELSE "handshake"

Dial(credentials, encodes, e) ==
  IF DialHalf(credentials, e) = "ok" THEN CompleteConnect(encodes, e.reply)
                                     ELSE DialHalf(credentials, e)

\* `parked` is the reply over a borrowed half connection, NoReply without
\* one.  Unless it is the endpoint's own answer the cold dial decides; the
\* parked siblings that are then discarded are WarmPool's.
dialWarmFirst(parked, credentials, encodes, e) ==
  LET completed == CompleteConnect(encodes, parked)
  IN  IF parked # NoReply /\ completed \in {"ok", "connect_target"}
      THEN completed
      ELSE Dial(credentials, encodes, e)
=============================================================================
