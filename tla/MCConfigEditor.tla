--------------------------- MODULE MCConfigEditor ---------------------------
(* ConfigEditor with two hosts, a file that has one profile with a host    *)
(* listed twice, a count of zero and most fields left out, and that file   *)
(* with a blank default_profile.                                           *)
EXTENDS ConfigEditor

CONSTANTS hostA, hostB, badValue, someUrl, someSum

MCWords == {hostA, hostB, badValue, someUrl, someSum, Blank}
MCNames == <<Blank, "example", "lab">>
MCDefaultHosts == <<hostA, hostB>>

LabProfile ==
    [admin |-> hostA, hosts |-> <<hostA, hostA>>, clients |-> Absent,
     count |-> [n \in Counts |-> IF n = "refresh_secs" THEN 0 ELSE Absent],
     switch |-> [s \in Switches |-> Absent], url |-> Blank, sum |-> Absent]
LabFile == [default_profile |-> Absent, session_keep |-> 5, profiles |-> [n \in {"lab"} |-> LabProfile]]
BlankFile == [LabFile EXCEPT !.default_profile = Blank]
MCFiles == {NoFile, Broken, LabFile, BlankFile}

Overrides(name, hosts) == [profile |-> name, hosts |-> hosts, admin |-> Absent, refresh |-> Absent]
MCCommandLines == {Overrides(Absent, Absent), Overrides("lab", Absent), Overrides(Absent, <<hostB>>)}

MCTyped ==
    [row \in ToSet(FixedRows) \cup {"add", "host"} |->
        CASE row = "refresh_secs" -> {0, 2, badValue}
          [] row = "trace_latency_ms" -> {0, 1}
          [] row = "trace_ttl_secs" -> {3}
          [] row = "trace_window_secs" -> {10}
          [] row = "osdtrace_url" -> {someUrl}
          [] row = "osdtrace_sha256" -> {Blank, someSum, badValue}
          [] OTHER -> {hostA, hostB, Blank, badValue}]
=============================================================================
