--------------------------- MODULE MCLiveStreams ----------------------------
(***************************************************************************)
(* LiveStreams on small instances: profiles with one host, or with one     *)
(* host that the file names twice, and at most one change of the profile.  *)
(***************************************************************************)
EXTENDS LiveStreams, TLC

CONSTANTS a, b

Profile(admin, hosts) == [admin |-> admin, hosts |-> hosts]
OneProfile == {Profile(a, <<a>>)}
OtherNode == {Profile(a, <<a>>), Profile(a, <<b>>)}
Twice == {Profile(a, <<a, a>>)}
NoIds == {}
AnyLine == {"Line", "Refused"}
BadLine == {"Refused"}
NodeIds == {Node(a)}
OnceOrTwice == OneProfile \cup Twice

(* Behaviours in which the operator never quits.                           *)
Stays == stage # "quitting"

(* No guard reads stream_statuses, and no part of the state but itself     *)
(* depends on it: a run whose properties do not mention it leaves it out.  *)
ButStatuses == <<configVars, summaries, snapshot, records, pc, stderr, chan>>
=============================================================================
