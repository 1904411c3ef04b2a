----------------------------- MODULE MCInsights -----------------------------
(* Insights twice: a short history of few symptoms, and all rules on a     *)
(* wide set of evidence without a history.                                 *)
EXTENDS Insights, TLC

MCHostOrder == <<"node-a", "node-b">>
MCOsdPlaces == <<"osd.1", "osd.2">>
MCOpPlaces == <<"lookup", "open", "rbd">>

Healthy ==
    [health |-> "HEALTH_OK", checks |-> <<>>, pools |-> <<>>, full_ratio |-> 95,
     osds |-> <<[name |-> "osd.1", used |-> 40]>>, pgs |-> <<>>, clean |-> TRUE, recovering |-> 0]
Pg(id, state) == [id |-> id, state |-> state]
FewSnapshots == {Healthy, [Healthy EXCEPT !.pgs = <<Pg("1.a", "backfill")>>, !.clean = FALSE]}
WideSnapshots ==
    FewSnapshots \cup
    {None,
     [Healthy EXCEPT !.health = "HEALTH_WARN", !.checks = <<"OSD_DOWN">>],
     [Healthy EXCEPT !.health = "HEALTH_ERR"],
     [Healthy EXCEPT !.pools = <<[name |-> "rbd", size |-> 3, domains |-> 2]>>],
     [Healthy EXCEPT !.osds = @ \o <<[name |-> "osd.2", used |-> 96]>>],
     [Healthy EXCEPT !.pgs = <<Pg("1.b", "peering"), Pg("1.c", "scrubbing+deep")>>],
     [Healthy EXCEPT !.recovering = 1],
     [Healthy EXCEPT !.clean = FALSE]}

Calm == [limits |-> FALSE, inflight |-> {}, stall |-> 0, cpu |-> 10, mem |-> 10, hostname |-> "node-b"]
Waiting(osd, ages) == {[osd |-> osd, age |-> age]: age \in ages}
FewNodes == {Calm, [Calm EXCEPT !.inflight = Waiting("osd.1", {31})]}
WideNodes ==
    {Calm, [Calm EXCEPT !.limits = TRUE], [Calm EXCEPT !.stall = 5], [Calm EXCEPT !.stall = 20],
     [Calm EXCEPT !.cpu = 90], [Calm EXCEPT !.mem = 85],
     [Calm EXCEPT !.inflight = Waiting("osd.1", 1 .. 3)], [Calm EXCEPT !.inflight = Waiting("osd.1", 2 .. 4)]}
Crowd ==
    "node-a" :> [Calm EXCEPT !.inflight = Waiting("osd.1", 1 .. 3)]
    @@ "node-b" :> [Calm EXCEPT !.inflight = Waiting("osd.2", 2 .. 4)]

NoParts == [c \in ToSet(Components) |-> 0]
OsdRow(osd, host, ops, us, part, peer) ==
    [osd |-> osd, host |-> host, ops |-> ops, max |-> us, avg |-> us \div ops,
     part |-> part, slow_peer |-> peer, hot_pg |-> None]
WideRows ==
    {<<>>}
    \cup {<<OsdRow("osd.1", "node-a", 2, us, part, "osd.2")>>:
            us \in {9999, 10000, 100000},
            part \in {NoParts, [NoParts EXCEPT !["peer"] = 10000], [NoParts EXCEPT !["queue"] = 9000]}}
    \cup {<<OsdRow("osd.1", "node-a", 3, us, [NoParts EXCEPT !["peer"] = peer], "osd.2"),
            OsdRow("osd.2", "node-b", 2, 12000, [NoParts EXCEPT !["queue"] = queue, !["recv"] = recv], None)>>:
            us \in {9000, 60000}, peer \in {100, 50000}, queue \in {100, 45000}, recv \in {0, 40000}}
    \cup {<<OsdRow("osd.1", "node-a", 2, 9000, NoParts, None), OsdRow("osd.2", "node-b", 2, 9000, NoParts, None)>>}

ClientEvent(name, us, mark) == [name |-> name, us |-> us, mark |-> mark]
TraceOf(rows, errors, kfs, rados, running) ==
    [rows |-> rows, errors |-> errors, kfs |-> kfs, rados |-> rados, running |-> running]
FewTraces == {[NoTrace EXCEPT !.running = TRUE]}
WideTraces ==
    {TraceOf(rows, errors, <<>>, rados, TRUE):
        rows \in WideRows, errors \in {<<>>, <<"node-a">>},
        rados \in {<<>>, <<ClientEvent("rbd", 500, TRUE), ClientEvent("rbd", 20000, FALSE)>>}}
    \cup {TraceOf(<<>>, <<>>, kfs, <<>>, FALSE):
        kfs \in {<<>>,
                 <<ClientEvent("open", 10000, FALSE), ClientEvent("lookup", 10, TRUE), ClientEvent("lookup", 11, FALSE)>>,
                 <<ClientEvent("open", 500, FALSE), ClientEvent("lookup", 10, FALSE), ClientEvent("lookup", 11, FALSE)>>,
                 <<ClientEvent("open", 500, TRUE)>>}}

MCStreamCounts == {<<2, 2>>}

WideEvidence ==
    {[NoEvidence EXCEPT !.snapshot = s, !.streams = counts, !.nodes = nodes]:
        s \in WideSnapshots, counts \in {<<1, 2>>, <<2, 2>>},
        nodes \in {<<>>, Crowd} \cup [{"node-a"} -> WideNodes]}
    \cup {[NoEvidence EXCEPT !.snapshot = Healthy, !.trace = trace, !.nodes = nodes]:
        trace \in WideTraces, nodes \in {<<>>} \cup [{"node-a"} -> WideNodes] \cup [{"node-b"} -> WideNodes]}
=============================================================================
