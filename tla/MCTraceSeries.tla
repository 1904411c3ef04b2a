--------------------------- MODULE MCTraceSeries ----------------------------
(* TraceSeries with two OSDs and two PGs; one line reports an error and    *)
(* one is a header.                                                        *)
EXTENDS TraceSeries

TraceLineOf(kind, osd, pg, us, peer, peer_us) ==
    [kind |-> kind, osd |-> osd, pg |-> pg, latency |-> us, peer |-> peer, peer_latency |-> peer_us]
MCLines ==
    {TraceLineOf("op", "osd.1", "1.a", 2, "-", 0), TraceLineOf("op", "osd.1", "1.b", 5, "osd.2", 4),
     TraceLineOf("op", "osd.2", "-", 3, "osd.1", 1),
     TraceLineOf("error", "-", "-", 0, "-", 0), TraceLineOf("header", "-", "-", 0, "-", 0)}
MCOsdOrder == <<"osd.1", "osd.2">>
MCPgOrder == <<"1.a", "1.b">>
=============================================================================
