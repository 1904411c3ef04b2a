-------------------------- MODULE MCTraceControl ----------------------------
(***************************************************************************)
(* TraceControl on small instances. A trace needs two hosts for one "done" *)
(* to leave another worker running, and three flags for a config change    *)
(* between two runs.                                                       *)
(***************************************************************************)
EXTENDS TraceControl, TLC

CONSTANTS h1, h2, c1, c2, kfstrace, radostrace

HostSymmetry == Permutations({h1, h2}) \cup Permutations({c1, c2})
=============================================================================
