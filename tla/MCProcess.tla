------------------------------- MODULE MCProcess -------------------------------
(***************************************************************************)
(* Instances of Process for TLC: two datagrams, one of them too short to   *)
(* be a query, and a connection that may break off.                        *)
(***************************************************************************)
EXTENDS Process, TLC

CONSTANTS d1, d2, s1

MCSizes == d1 :> {"full"} @@ d2 :> {"runt"} @@ s1 :> {"full", "broken"}
=============================================================================
