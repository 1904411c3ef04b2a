-------------------------- MODULE MCRemoteRunner ----------------------------
(* RemoteRunner with one or two runs on the host. *)
EXTENDS RemoteRunner, TLC

CONSTANTS s1, s2, m, n

Apart == s1 :> m @@ s2 :> n
Alone == s1 :> n
=============================================================================
