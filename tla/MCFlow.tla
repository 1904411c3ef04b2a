------------------------------- MODULE MCFlow -------------------------------
(* Flow with three OSDs, two PGs and three objects; one osdtrace line has  *)
(* no operation's names and one radostrace line no primary.                *)
EXTENDS Flow

MCLabels == <<"-", "1.0", "1.1", "obj-a", "obj-b", "obj-c", "osd.1", "osd.2", "osd.3">>
RadosLine(osd, pg, object, us) ==
    [primary |-> osd, pg |-> pg, object |-> object, acting |-> <<osd, "osd.3">>, latency |-> us]
OsdLine(osd, pg, host, us) == [osd |-> osd, pg |-> pg, host |-> host, latency |-> us]

MCRadosLines ==
    {RadosLine("osd.1", "1.0", "obj-a", 1), RadosLine("osd.1", "1.0", "obj-b", 3),
     RadosLine("osd.2", "1.1", "obj-c", 3), RadosLine("none", "1.1", "obj-c", 3)}
MCOsdLines ==
    {OsdLine("osd.1", "1.0", "h1", 2), OsdLine("osd.3", "1.0", "h3", 2), OsdLine("-", "-", "h1", 0)}
MCHostOfOsd == [osd \in {"osd.1"} |-> "h1"]
=============================================================================
