----------------------------- MODULE MCWsClient -----------------------------
(***************************************************************************)
(* Models of WsClient.  Calls share no state (each has its own channel,    *)
(* thread and socket), so one call of every kind shows what the calls do.  *)
(***************************************************************************)
EXTENDS WsClient
=============================================================================
