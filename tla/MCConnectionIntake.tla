------------------------- MODULE MCConnectionIntake -------------------------
(***************************************************************************)
(* Small instances of ConnectionIntake: records shorter than the first     *)
(* read, as long as the limit and beyond it; streams that end early, at    *)
(* the record's end and after the Noise message.                           *)
(***************************************************************************)
EXTENDS ConnectionIntake

CONSTANT MaxTotal   \* bound: bytes a client sends

Relays == [legacy : BOOLEAN, insecure : BOOLEAN]

TlsClients ==
  [tls : {TRUE}, recordLen : 0 .. MaxHello - HeaderLen + 1,
   hello : {"token", "noToken", "malformed"}, direct : {FALSE}, total : 0 .. MaxTotal,
   relay : Relays]

PlainClients ==
  [tls : {FALSE}, recordLen : {0}, hello : {"malformed"}, direct : BOOLEAN,
   total : 0 .. MaxTotal, relay : Relays]

AllClients == TlsClients \cup PlainClients
=============================================================================
