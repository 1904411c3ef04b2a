--------------------------- MODULE InsightsProofs ---------------------------
(***************************************************************************)
(* Proofs about the rules of diagnose.rs and the history of insights, as   *)
(* Insights models them: diagnose and remember_insights, for any evidence  *)
(* and any clock.  First that the rules list observations of the declared  *)
(* levels, then what the pass over them does to the history, last what     *)
(* each observation says of the evidence: a warning for every symptom,     *)
(* and no claim the evidence does not bear out.                            *)
(***************************************************************************)
EXTENDS Insights, ListTheorems

(* The pass over the observations that remember_insights is.               *)
Keeping == INSTANCE FoldTheorems WITH Step <- Remembered

Severities == {"Ok", "Info", "Warn", "Bad"}

IsList(s) == s \in Seq(ToSet(s))
Observed(s) == IsList(s) /\ \A x \in ToSet(s): x.level \in Severities

(* What the inputs of diagnose may be.                                     *)
Evidence ==
    [snapshot: Snapshots \cup {None}, streams: StreamCounts \cup {<<0, 0>>},
     nodes: UNION {[hosts -> NodeStates]: hosts \in SUBSET NodeHosts}, trace: Traces \cup {NoTrace}]

-----------------------------------------------------------------------------
(* The rules of diagnose list observations.                                *)

LEMMA ListFacts ==
    ASSUME NEW s, IsList(s)
    PROVE  /\ Len(s) \in Nat /\ DOMAIN s = 1 .. Len(s)
           /\ \A i \in DOMAIN s: s[i] \in ToSet(s)
           /\ \A x \in ToSet(s): \E i \in DOMAIN s: s[i] = x
  BY DEF IsList, ToSet

LEMMA ListOf == ASSUME NEW S, NEW s \in Seq(S) PROVE IsList(s) /\ ToSet(s) \in SUBSET S
  <1>1. Len(s) \in Nat /\ DOMAIN s = 1 .. Len(s) /\ \A i \in DOMAIN s: s[i] \in S
    OBVIOUS
  <1>2. s \in [1 .. Len(s) -> ToSet(s)]
    BY <1>1 DEF ToSet
  <1>3. s \in Seq(ToSet(s))
    BY <1>1, <1>2
  <1>4. ToSet(s) \in SUBSET S
    BY <1>1 DEF ToSet
  <1>5. QED BY <1>3, <1>4 DEF IsList

LEMMA ListConcat ==
    ASSUME NEW s, NEW t, IsList(s), IsList(t)
    PROVE  IsList(s \o t) /\ ToSet(s \o t) = ToSet(s) \cup ToSet(t)
  <1> DEFINE S == ToSet(s) \cup ToSet(t)
  <1>1. s \in Seq(S) /\ t \in Seq(S)
    <2>1. ToSet(s) \subseteq S /\ ToSet(t) \subseteq S
      OBVIOUS
    <2> HIDE DEF S
    <2>2. QED BY <2>1 DEF IsList
  <1> HIDE DEF S
  <1>2. s \o t \in Seq(S) /\ ToSet(s \o t) = ToSet(s) \cup ToSet(t)
    BY <1>1, ToSetConcat
  <1>3. QED BY <1>2, ListOf

LEMMA ObservedConcat ==
    ASSUME NEW s, NEW t, Observed(s), Observed(t)
    PROVE  Observed(s \o t)
  BY ListConcat DEF Observed

LEMMA ObservedOne ==
    /\ Observed(<<>>)
    /\ \A level \in Severities: \A text: Observed(<<Insight(level, text)>>)
  <1>1. Observed(<<>>)
    <2>1. ToSet(<<>>) = {} /\ <<>> \in Seq({})
      BY DEF ToSet
    <2>2. QED BY <2>1 DEF Observed, IsList
  <1>2. ASSUME NEW level \in Severities, NEW text PROVE Observed(<<Insight(level, text)>>)
    <2> DEFINE x == Insight(level, text)
    <2>1. x.level \in Severities
      BY DEF Insight
    <2> HIDE DEF x
    <2>2. ToSet(<<x>>) = {x}
      BY DEF ToSet
    <2>3. <<x>> \in Seq({x})
      OBVIOUS
    <2>4. Observed(<<x>>)
      BY <2>1, <2>2, <2>3 DEF Observed, IsList
    <2>5. QED BY <2>4 DEF x
  <1>3. QED BY <1>1, <1>2

LEMMA ObservedMapped ==
    ASSUME NEW n \in Nat, NEW out, out = [i \in 1 .. n |-> out[i]], \A i \in 1 .. n: out[i].level \in Severities
    PROVE  Observed(out)
  <1>1. DOMAIN out = 1 .. n
    OBVIOUS
  <1>2. out \in [1 .. n -> ToSet(out)]
    BY <1>1 DEF ToSet
  <1>3. out \in Seq(ToSet(out))
    BY <1>2
  <1>4. \A x \in ToSet(out): x.level \in Severities
    BY <1>1 DEF ToSet
  <1>5. QED BY <1>3, <1>4 DEF Observed, IsList

LEMMA LatencyLevel == \A us: insight_level_for_latency(us) \in Severities
  BY DEF insight_level_for_latency, Severities

LEMMA ListLengths ==
    ASSUME NEW set, NEW below, IsFiniteSet(set), NEW n \in Nat
    PROVE  \E m \in Nat: DOMAIN First(n, Ranked(set, below)) = 1 .. m
  <1> DEFINE r == Ranked(set, below)
             k == IF n < Len(r) THEN n ELSE Len(r)
  <1>1. Len(r) \in Nat
    BY RankedLength
  <1>2. First(n, r) = [i \in 1 .. k |-> r[1 + i - 1]]
    BY <1>1 DEF First
  <1>3. QED BY <1>1, <1>2

LEMMA SnapshotObserved ==
    ASSUME NEW s \in Snapshots \cup {None}
    PROVE  Observed(snapshot_insights(s))
  <1>0. "Ok" \in Severities /\ "Info" \in Severities /\ "Warn" \in Severities /\ "Bad" \in Severities
    BY DEF Severities
  <1>1. CASE s = None
    BY <1>0, <1>1, ObservedOne DEF snapshot_insights
  <1>2. CASE s # None
    <2>1. Observed(health_insights(s))
      BY <1>0, ObservedOne DEF health_insights, Given
    <2>2. Observed(cluster_evidence_insights(s))
      <3> DEFINE tight == Where(s.pools, LAMBDA p: p.domains > 0 /\ p.size > p.domains)
                 ixs == {i \in DOMAIN s.pools: s.pools[i].domains > 0 /\ s.pools[i].size > s.pools[i].domains}
                 a == Mapped(tight, LAMBDA p: Insight("Bad", <<"pool", p.name, p.size, p.domains>>))
                 fullest == LastMax(s.osds, LAMBDA o: o.used)
                 b == Given(s.full_ratio > 0 /\ s.osds # <<>> /\ fullest.used >= s.full_ratio,
                            <<Insight("Bad", <<"full", fullest.name, fullest.used>>)>>)
                 c == Given(s.pgs # <<>>, <<Insight("Warn", <<"pg", Abnormal(s.pgs), Len(s.pgs)>>)>>)
                 d == Given(s.recovering > 0, <<Insight("Warn", <<"recovery", s.recovering>>)>>)
      <3>1. cluster_evidence_insights(s) = ((a \o b) \o c) \o d
        BY DEF cluster_evidence_insights
      <3>2. Observed(a)
        <4>1. s.pools \in Seq(ToSet(s.pools))
          BY <1>2, InsightsAssumption
        <4>2. tight = Picked(s.pools, ixs)
          BY DEF Where
        <4>3. ixs \in SUBSET DOMAIN s.pools
          OBVIOUS
        <4> HIDE DEF ixs, tight
        <4>4. tight \in Seq(ToSet(s.pools))
          BY <4>1, <4>2, <4>3, PickedSeq
        <4>5. Len(tight) \in Nat /\ DOMAIN tight = 1 .. Len(tight)
          BY <4>4
        <4>6. a = [i \in 1 .. Len(tight) |-> a[i]] /\ \A i \in 1 .. Len(tight): a[i].level \in Severities
          BY <1>0, <4>5 DEF Mapped, Insight
        <4> HIDE DEF a
        <4>7. QED BY <4>5, <4>6, ObservedMapped
      <3>3. Observed(b)
        BY <1>0, ObservedOne DEF Given
      <3>4. Observed(c)
        BY <1>0, ObservedOne DEF Given
      <3>5. Observed(d)
        BY <1>0, ObservedOne DEF Given
      <3> HIDE DEF a, b, c, d
      <3>6. Observed((a \o b) \o c)
        BY <3>2, <3>3, <3>4, ObservedConcat
      <3>7. QED BY <3>1, <3>5, <3>6, ObservedConcat
    <2>3. Observed(Given(s.pgs = <<>> /\ ~s.clean, <<Insight("Warn", <<"PG state">>)>>))
      BY <1>0, ObservedOne DEF Given
    <2>4. Observed(health_insights(s) \o cluster_evidence_insights(s))
      BY <2>1, <2>2, ObservedConcat
    <2>5. QED BY <1>2, <2>3, <2>4, ObservedConcat DEF snapshot_insights
  <1>3. QED BY <1>1, <1>2

(* The nodes that have reported are finitely many, with finitely many      *)
(* operations in flight.                                                   *)
LEMMA NodesFinite ==
    ASSUME NEW hosts \in SUBSET NodeHosts, NEW nodes \in [hosts -> NodeStates]
    PROVE  /\ \A set \in SUBSET DOMAIN nodes: IsFiniteSet(set)
           /\ IsFiniteSet(InFlight(nodes))
  <1>1. IsFiniteSet(ToSet(HostOrder))
    <2>1. HostOrder \in Surjection(1 .. Len(HostOrder), ToSet(HostOrder)) /\ Len(HostOrder) \in Nat
      <3>1. HostOrder \in Seq(ToSet(HostOrder))
        BY InsightsAssumption
      <3>2. /\ HostOrder \in [1 .. Len(HostOrder) -> ToSet(HostOrder)] /\ Len(HostOrder) \in Nat
            /\ DOMAIN HostOrder = 1 .. Len(HostOrder)
        BY <3>1
      <3>3. \A x \in ToSet(HostOrder): \E i \in DOMAIN HostOrder: HostOrder[i] = x
        BY DEF ToSet
      <3>4. QED BY <3>2, <3>3 DEF Surjection
    <2>2. IsFiniteSet(1 .. Len(HostOrder))
      BY <2>1, FS_Interval
    <2>3. QED BY <2>1, <2>2, FS_Surjection
  <1>2. DOMAIN nodes = hosts /\ hosts \in SUBSET ToSet(HostOrder)
    BY InsightsAssumption
  <1>3. \A set \in SUBSET DOMAIN nodes: IsFiniteSet(set)
    BY <1>1, <1>2, FS_Subset
  <1> DEFINE of(h) == {[host |-> h, osd |-> o.osd, age |-> o.age]: o \in nodes[h].inflight}
             all == {of(h): h \in DOMAIN nodes}
  <1>4. ASSUME NEW h \in DOMAIN nodes PROVE IsFiniteSet(of(h))
    <2> DEFINE f == [o \in nodes[h].inflight |-> [host |-> h, osd |-> o.osd, age |-> o.age]]
    <2>1. IsFiniteSet(nodes[h].inflight)
      BY <1>2, InsightsAssumption
    <2>2. f \in Surjection(nodes[h].inflight, of(h))
      BY DEF Surjection
    <2>3. QED BY <2>1, <2>2, FS_Surjection
  <1>5. IsFiniteSet(all)
    <2> DEFINE f == [h \in DOMAIN nodes |-> of(h)]
    <2>1. f \in Surjection(DOMAIN nodes, all)
      <3> HIDE DEF of
      <3> QED BY DEF Surjection
    <2>2. QED BY <1>3, <2>1, FS_Surjection
  <1>6. IsFiniteSet(UNION all)
    BY <1>4, <1>5, FS_UNION
  <1>7. InFlight(nodes) = UNION all
    BY DEF InFlight
  <1>8. QED BY <1>3, <1>6, <1>7

LEMMA NodesObserved ==
    ASSUME NEW hosts \in SUBSET NodeHosts, NEW nodes \in [hosts -> NodeStates]
    PROVE  /\ Observed(io_limit_insights(nodes))
           /\ Observed(inflight_op_insights(nodes))
           /\ Observed(node_pressure_insights(nodes))
  <1>0. "Warn" \in Severities /\ "Bad" \in Severities
    BY DEF Severities
  <1>1. Observed(io_limit_insights(nodes))
    <2> DEFINE set == {h \in DOMAIN nodes: nodes[h].limits}
               below == [x \in set |-> {y \in set: PlaceIn(HostOrder, y) < PlaceIn(HostOrder, x)}]
               r == Ranked(set, below)
               out == io_limit_insights(nodes)
    <2>1. out = [i \in DOMAIN r |-> Insight("Bad", <<"write limit", r[i]>>)]
      BY DEF io_limit_insights, Sorted, Mapped
    <2>2. set \in SUBSET DOMAIN nodes
      OBVIOUS
    <2> HIDE DEF set, below
    <2>3. Cardinality(set) \in Nat /\ DOMAIN r = 1 .. Cardinality(set)
      BY <2>2, NodesFinite, RankedLength
    <2> HIDE DEF r, out
    <2>4. out = [i \in 1 .. Cardinality(set) |-> out[i]] /\ \A i \in 1 .. Cardinality(set): out[i].level \in Severities
      BY <1>0, <2>1, <2>3 DEF Insight
    <2>5. Observed(out)
      BY <2>3, <2>4, ObservedMapped
    <2>6. QED BY <2>5 DEF out
  <1>2. Observed(inflight_op_insights(nodes))
    <2> DEFINE set == InFlight(nodes)
               below == [x \in set |-> {y \in set: Older(y, x)}]
               r == First(4, Ranked(set, below))
               out == inflight_op_insights(nodes)
    <2>1. out = [i \in DOMAIN r |-> Insight("Bad", <<"in flight", r[i].host, r[i].osd, r[i].age>>)]
      BY DEF inflight_op_insights, Sorted, Mapped
    <2>2. IsFiniteSet(set)
      BY NodesFinite
    <2> HIDE DEF set, below
    <2>3. PICK m \in Nat: DOMAIN r = 1 .. m
      BY <2>2, ListLengths
    <2> HIDE DEF r, out
    <2>4. out = [i \in 1 .. m |-> out[i]] /\ \A i \in 1 .. m: out[i].level \in Severities
      BY <1>0, <2>1, <2>3 DEF Insight
    <2>5. Observed(out)
      BY <2>3, <2>4, ObservedMapped
    <2>6. QED BY <2>5 DEF out
  <1>3. Observed(node_pressure_insights(nodes))
    <2> DEFINE set == {h \in DOMAIN nodes: nodes[h].stall >= 5}
               Before(a, b) == \/ nodes[a].stall > nodes[b].stall
                               \/ nodes[a].stall = nodes[b].stall /\ PlaceIn(HostOrder, a) < PlaceIn(HostOrder, b)
               below == [x \in set |-> {y \in set: Before(y, x)}]
               r == First(2, Ranked(set, below))
               out == node_pressure_insights(nodes)
    <2>1. out = [i \in DOMAIN r |-> Insight(IF nodes[r[i]].stall >= 20 THEN "Bad" ELSE "Warn",
                                            <<"stalled", r[i], nodes[r[i]].stall>>)]
      BY DEF node_pressure_insights, Sorted, Mapped
    <2>2. set \in SUBSET DOMAIN nodes
      OBVIOUS
    <2> HIDE DEF set, below
    <2>3. PICK m \in Nat: DOMAIN r = 1 .. m
      BY <2>2, NodesFinite, ListLengths
    <2> HIDE DEF r, out
    <2>4. out = [i \in 1 .. m |-> out[i]] /\ \A i \in 1 .. m: out[i].level \in Severities
      BY <1>0, <2>1, <2>3 DEF Insight
    <2>5. Observed(out)
      BY <2>3, <2>4, ObservedMapped
    <2>6. QED BY <2>5 DEF out
  <1>4. QED BY <1>1, <1>2, <1>3

LEMMA OsdObserved ==
    ASSUME NEW nodes, NEW active
    PROVE  Observed(osd_trace_insights(nodes, active))
  <1> DEFINE
        worst == worst_row(active)
        queue == component_worst(active, "queue")
        recv == component_worst(active, "recv")
        leader == IF queue.part["queue"] > recv.part["recv"] THEN queue.part["queue"] ELSE recv.part["recv"]
        waiting == component_worst(active, "peer")
        peers == Where(active, LAMBDA r: r.osd = waiting.slow_peer)
        largest == LastMax(active, LAMBDA r: r.part[dominant_component(r)])
        dominant == dominant_component(largest)
        slow == Len(Where(active, LAMBDA r: r.max >= SLOW))
        ops == FoldLeft(LAMBDA sum, r: sum + r.ops, 0, active)
        p1 == <<Insight(insight_level_for_latency(worst.max),
                        <<"last", ops, Len(active), worst.osd, worst.max, worst.avg>>)>>
        p2 == Given(leader >= SLOW,
                <<Insight(insight_level_for_latency(leader),
                          <<"leaders", queue.osd, queue.part["queue"], recv.osd, recv.part["recv"]>>)>>)
        p3 == Given(waiting.part["peer"] >= SLOW /\ waiting.slow_peer # None,
                <<Insight(insight_level_for_latency(waiting.part["peer"]),
                          <<"peer", waiting.osd, waiting.part["peer"], waiting.slow_peer,
                            peer_wait_verdict(IF peers = <<>> THEN None ELSE Head(peers))>>)>>)
        p4 == IF largest.part[dominant] > 0
              THEN <<Insight(insight_level_for_latency(largest.part[dominant]),
                             <<"largest", dominant, largest.osd, largest.part[dominant]>>)>>
              ELSE Given(worst.max >= SLOW, <<Insight("Warn", <<"components are empty">>)>>)
        p5 == Given(worst.hot_pg # None, <<Insight("Info", <<"busiest PG", worst.osd, worst.hot_pg>>)>>)
        p6 == host_insights(node_for_host(nodes, worst.host), worst.host)
        p7 == IF slow >= 2 THEN <<Insight("Warn", <<"OSDs over 10ms", slow>>)>>
              ELSE Given(worst.max < SLOW, <<Insight("Ok", <<"no obvious slow OSD">>)>>)
  <1>1. osd_trace_insights(nodes, active) = (((((p1 \o p2) \o p3) \o p4) \o p5) \o p6) \o p7
    BY DEF osd_trace_insights
  <1> HIDE DEF worst, queue, recv, leader, waiting, peers, largest, dominant, slow, ops
  <1>2. "Ok" \in Severities /\ "Info" \in Severities /\ "Warn" \in Severities /\ "Bad" \in Severities
    BY DEF Severities
  <1>3. Observed(p1)
    BY LatencyLevel, ObservedOne
  <1>4. Observed(p2)
    BY LatencyLevel, ObservedOne DEF Given
  <1>5. Observed(p3)
    BY LatencyLevel, ObservedOne DEF Given
  <1>6. Observed(p4)
    BY <1>2, LatencyLevel, ObservedOne DEF Given
  <1>7. Observed(p5)
    BY <1>2, ObservedOne DEF Given
  <1>8. Observed(p6)
    BY <1>2, ObservedOne DEF host_insights, Given
  <1>9. Observed(p7)
    BY <1>2, ObservedOne DEF Given
  <1> HIDE DEF p1, p2, p3, p4, p5, p6, p7
  <1>10. Observed(((p1 \o p2) \o p3) \o p4)
    BY <1>3, <1>4, <1>5, <1>6, ObservedConcat
  <1>11. QED BY <1>1, <1>7, <1>8, <1>9, <1>10, ObservedConcat

LEMMA ClientsObserved ==
    /\ \A tracer, rows: Observed(client_insight(tracer, rows))
    /\ \A events: Observed(kfs_insights(events))
    /\ \A events: Observed(rados_insights(events))
    /\ \A active, events: Observed(cross_source_insight(active, events))
  <1>1. "Info" \in Severities /\ "Warn" \in Severities
    BY DEF Severities
  <1>2. ASSUME NEW tracer, NEW rows PROVE Observed(client_insight(tracer, rows))
    <2> DEFINE worst == slowest_row(rows)
               text == <<tracer, FoldLeft(LAMBDA sum, r: sum + r.count, 0, rows), worst.name, worst.max, worst.avg>>
    <2>1. client_insight(tracer, rows) = Given(rows # <<>>, <<Insight(insight_level_for_latency(worst.max), text)>>)
      BY DEF client_insight
    <2> HIDE DEF worst, text
    <2>2. QED BY <2>1, LatencyLevel, ObservedOne DEF Given
  <1>3. ASSUME NEW events PROVE Observed(kfs_insights(events))
    <2> DEFINE unsafe == Len(Where(events, LAMBDA e: e.mark))
               told == Given(unsafe > 0, <<Insight("Warn", <<"unsafe", unsafe>>)>>)
    <2>1. kfs_insights(events) = client_insight("kfstrace", client_rows(events)) \o told
      BY DEF kfs_insights
    <2> HIDE DEF unsafe
    <2>2. Observed(told)
      BY <1>1, ObservedOne DEF Given
    <2> HIDE DEF told
    <2>3. QED BY <1>2, <2>1, <2>2, ObservedConcat
  <1>4. ASSUME NEW events PROVE Observed(rados_insights(events))
    BY <1>2 DEF rados_insights
  <1>5. ASSUME NEW active, NEW events PROVE Observed(cross_source_insight(active, events))
    BY <1>1, ObservedOne DEF cross_source_insight, Given
  <1>6. QED BY <1>2, <1>3, <1>4, <1>5

LEMMA Diagnosed ==
    ASSUME NEW e \in Evidence
    PROVE  Observed(diagnose(e))
  <1> DEFINE
        active == Active(e.trace.rows)
        p1 == snapshot_insights(e.snapshot)
        p2 == Given(e.streams[2] > 0 /\ e.streams[1] < e.streams[2], <<Insight("Warn", <<"ssh streams", e.streams>>)>>)
        p3 == io_limit_insights(e.nodes)
        p4 == inflight_op_insights(e.nodes)
        p5 == Given(e.trace.errors # <<>>, <<Insight("Bad", <<"trace error on", Last(e.trace.errors)>>)>>)
        p6 == IF active = <<>> THEN <<>> ELSE osd_trace_insights(e.nodes, active)
        p7 == node_pressure_insights(e.nodes)
        p8 == kfs_insights(e.trace.kfs)
        p9 == rados_insights(e.trace.rados)
        p10 == cross_source_insight(active, e.trace.rados)
        p11 == Given(active = <<>> /\ e.trace.kfs = <<>> /\ e.trace.rados = <<>>,
             <<Insight("Info", IF e.trace.running THEN <<"trace is running with no matching events">>
                               ELSE <<"no trace data">>)>>)
  <1>1. diagnose(e) = (((((((((p1 \o p2) \o p3) \o p4) \o p5) \o p6) \o p7) \o p8) \o p9) \o p10) \o p11
    BY DEF diagnose
  <1>2. "Info" \in Severities /\ "Warn" \in Severities /\ "Bad" \in Severities
    BY DEF Severities
  <1>3. /\ e.snapshot \in Snapshots \cup {None}
        /\ \E hosts \in SUBSET NodeHosts: e.nodes \in [hosts -> NodeStates]
    BY DEF Evidence
  <1>4. Observed(p1)
    BY <1>3, SnapshotObserved
  <1>5. Observed(p3) /\ Observed(p4) /\ Observed(p7)
    BY <1>3, NodesObserved
  <1>6. Observed(p8) /\ Observed(p9) /\ Observed(p10)
    BY ClientsObserved
  <1>7. Observed(p2)
    BY <1>2, ObservedOne DEF Given
  <1>8. Observed(p5)
    BY <1>2, ObservedOne DEF Given
  <1>9. Observed(p6)
    BY OsdObserved, ObservedOne
  <1>10. Observed(p11)
    BY <1>2, ObservedOne DEF Given
  <1> HIDE DEF p1, p2, p3, p4, p5, p6, p7, p8, p9, p10, p11
  <1>11. Observed((((p1 \o p2) \o p3) \o p4) \o p5)
    BY <1>4, <1>5, <1>7, <1>8, ObservedConcat
  <1>12. Observed((((((p1 \o p2) \o p3) \o p4) \o p5) \o p6) \o p7)
    BY <1>5, <1>9, <1>11, ObservedConcat
  <1>13. QED BY <1>1, <1>6, <1>10, <1>12, ObservedConcat

-----------------------------------------------------------------------------
(* The history of the insights.                                            *)

(* Entries that a capture may have made.                                   *)
Worth(entry) ==
    /\ entry.at \in 0 .. LastSecond
    /\ entry.insight.level \in {"Info", "Warn", "Bad"}
    /\ entry.insight.text \notin Idle

Sane(h) == IsList(h) /\ \A i \in DOMAIN h: Worth(h[i])

Apart(h) ==
    \A i, j \in DOMAIN h: i < j /\ h[i].insight.text = h[j].insight.text => h[j].at - h[i].at > Dedup

(* h is base with entries of one time behind it.                           *)
Extends(h, base, now) ==
    /\ Len(base) <= Len(h)
    /\ \A i \in 1 .. Len(base): h[i] = base[i]
    /\ \A i \in DOMAIN h: i > Len(base) => h[i].at = now

(* An end of a history is one.                                             *)
LEMMA EndSane ==
    ASSUME NEW h, Sane(h), Apart(h), NEW m \in 1 .. Len(h) + 1
    PROVE  /\ Sane(SubSeq(h, m, Len(h))) /\ Apart(SubSeq(h, m, Len(h)))
           /\ Len(SubSeq(h, m, Len(h))) = Len(h) - m + 1
           /\ \A k \in 1 .. Len(h) - m + 1: SubSeq(h, m, Len(h))[k] = h[k + (m - 1)]
  <1> DEFINE s == SubSeq(h, m, Len(h))
  <1>1. Len(h) \in Nat /\ DOMAIN h = 1 .. Len(h) /\ h \in Seq(ToSet(h))
    BY DEF Sane, IsList
  <1>2. /\ s \in Seq(ToSet(h)) /\ Len(s) = Len(h) - m + 1
        /\ \A k \in 1 .. Len(h) - m + 1: s[k] = h[k + (m - 1)]
    BY <1>1, EndOf
  <1>3. IsList(s)
    BY <1>2, ListOf
  <1> HIDE DEF s
  <1>4. DOMAIN s = 1 .. Len(h) - m + 1 /\ \A k \in DOMAIN s: k + (m - 1) \in DOMAIN h
    BY <1>1, <1>2
  <1>5. Sane(s)
    BY <1>2, <1>3, <1>4 DEF Sane
  <1>6. Apart(s)
    <2>1. SUFFICES ASSUME NEW i \in DOMAIN s, NEW j \in DOMAIN s, i < j,
                          s[i].insight.text = s[j].insight.text
                   PROVE  s[j].at - s[i].at > Dedup
      BY DEF Apart
    <2>2. i + (m - 1) \in DOMAIN h /\ j + (m - 1) \in DOMAIN h /\ i + (m - 1) < j + (m - 1)
      BY <1>1, <1>4, <2>1
    <2>3. s[i] = h[i + (m - 1)] /\ s[j] = h[j + (m - 1)]
      BY <1>2, <1>4
    <2>4. QED BY <2>1, <2>2, <2>3 DEF Apart
  <1>7. QED BY <1>2, <1>5, <1>6 DEF s

(* What has expired was too old.                                           *)
LEMMA Expired ==
    ASSUME NEW h, Sane(h), NEW now \in Nat
    PROVE  \E m \in 1 .. Len(h) + 1:
               /\ Expire(h, now) = SubSeq(h, m, Len(h))
               /\ \A i \in 1 .. m - 1: now - h[i].at > Keep
  <1> DEFINE young == {i \in DOMAIN h: now - h[i].at <= Keep}
  <1>1. Len(h) \in Nat /\ DOMAIN h = 1 .. Len(h) /\ h \in Seq(ToSet(h))
    BY DEF Sane, IsList
  <1>2. \A i \in DOMAIN h: now - h[i].at \in Int
    BY DEF Sane, Worth
  <1>3. CASE young = {}
    <2>1. Len(h) + 1 \in 1 .. Len(h) + 1
      BY <1>1
    <2>2. Len(SubSeq(h, Len(h) + 1, Len(h))) = 0 /\ SubSeq(h, Len(h) + 1, Len(h)) \in Seq(ToSet(h))
      BY <1>1, <2>1, EndOf
    <2>3. Expire(h, now) = SubSeq(h, Len(h) + 1, Len(h))
      BY <1>3, <2>2 DEF Expire
    <2>4. \A i \in 1 .. (Len(h) + 1) - 1: now - h[i].at > Keep
      BY <1>1, <1>2, <1>3, InsightsAssumption
    <2>5. QED BY <2>1, <2>3, <2>4
  <1>4. CASE young # {}
    <2> DEFINE m == Min(young)
    <2>1. young \subseteq Nat
      BY <1>1
    <2>2. \E n \in young: \A k \in young: n <= k
      BY <1>4, <2>1, Keeping!LeastNat
    <2>3. m \in young /\ \A k \in young: m <= k
      BY <2>2 DEF Min
    <2>4. Expire(h, now) = SubSeq(h, m, Len(h))
      BY <1>4 DEF Expire
    <2> HIDE DEF m
    <2>5. m \in 1 .. Len(h) + 1
      BY <1>1, <2>3
    <2>6. ASSUME NEW i \in 1 .. m - 1 PROVE now - h[i].at > Keep
      <3>1. i \in DOMAIN h /\ ~(m <= i)
        BY <1>1, <2>5
      <3>2. ~(now - h[i].at <= Keep)
        BY <2>3, <3>1
      <3>3. now - h[i].at \in Int /\ Keep \in Int
        BY <1>2, <3>1, InsightsAssumption
      <3> DEFINE age == now - h[i].at
      <3> HIDE DEF age
      <3>4. age \in Int /\ ~(age <= Keep) => age > Keep
        BY <3>3
      <3>5. QED BY <3>2, <3>3, <3>4 DEF age
    <2>7. QED BY <2>4, <2>5, <2>6
  <1>5. QED BY <1>3, <1>4

(* What leaves by number leaves a full history.                            *)
LEMMA Cut ==
    ASSUME NEW h, Sane(h)
    PROVE  \E m \in 1 .. Len(h) + 1:
               /\ Limited(h) = SubSeq(h, m, Len(h))
               /\ Len(h) - m + 1 <= HistoryLimit
               /\ m > 1 => Len(h) - m + 1 = HistoryLimit
  <1>1. Len(h) \in Nat /\ DOMAIN h = 1 .. Len(h) /\ h \in Seq(ToSet(h)) /\ HistoryLimit \in Nat
    BY InsightsAssumption DEF Sane, IsList
  <1>2. CASE Len(h) > HistoryLimit
    <2> DEFINE m == Len(h) - HistoryLimit + 1
    <2>1. m \in 1 .. Len(h) + 1 /\ Len(h) - m + 1 = HistoryLimit
      BY <1>1, <1>2
    <2>2. Limited(h) = SubSeq(h, m, Len(h))
      BY <1>2 DEF Limited
    <2> HIDE DEF m
    <2>3. QED BY <1>1, <2>1, <2>2
  <1>3. CASE ~(Len(h) > HistoryLimit)
    <2>1. 1 \in 1 .. Len(h) + 1 /\ Len(h) - 1 + 1 = Len(h) /\ Len(h) <= HistoryLimit
      BY <1>1, <1>3
    <2>2. SubSeq(h, 1, Len(h)) = h
      <3> DEFINE s == SubSeq(h, 1, Len(h))
      <3>1. /\ s \in Seq(ToSet(h)) /\ Len(s) = Len(h)
            /\ \A k \in 1 .. Len(h): s[k] = h[k + (1 - 1)] /\ k + (1 - 1) = k
        BY <1>1, <2>1, EndOf
      <3> HIDE DEF s
      <3>2. s = h
        BY <1>1, <3>1
      <3>3. QED BY <3>2 DEF s
    <2>3. Limited(h) = SubSeq(h, 1, Len(h))
      BY <1>3, <2>2 DEF Limited
    <2>4. QED BY <2>1, <2>3
  <1>4. QED BY <1>2, <1>3

(* One observation leaves the history sane and holds it, if not itself     *)
(* then as one of the same text that counts as the same.                   *)
LEMMA OneRemembered ==
    ASSUME NEW h, NEW base, NEW now, NEW entry, Sane(h), Apart(h), Extends(h, base, now), IsList(base),
           Worth(entry), entry.at = now
    PROVE  /\ Sane(Remembered(h, entry)) /\ Apart(Remembered(h, entry))
           /\ Extends(Remembered(h, entry), base, now)
           /\ Duplicate(Remembered(h, entry), now, entry.insight.text)
           /\ \A text: Duplicate(h, now, text) => Duplicate(Remembered(h, entry), now, text)
  <1>1. CASE Duplicate(h, now, entry.insight.text)
    BY <1>1 DEF Remembered
  <1>2. CASE ~Duplicate(h, now, entry.insight.text)
    <2> DEFINE r == Append(h, entry)
               n == Len(h)
    <2>1. Remembered(h, entry) = r
      BY <1>2 DEF Remembered
    <2>2. n \in Nat /\ DOMAIN h = 1 .. n /\ h \in Seq(ToSet(h)) /\ Len(base) \in Nat
      BY DEF Sane, IsList
    <2>3. h \in Seq(ToSet(h) \cup {entry}) /\ entry \in ToSet(h) \cup {entry}
      BY <2>2
    <2>4. /\ r \in Seq(ToSet(h) \cup {entry}) /\ Len(r) = n + 1 /\ DOMAIN r = 1 .. n + 1
          /\ r[n + 1] = entry /\ \A i \in 1 .. n: r[i] = h[i]
      BY <2>2, <2>3
    <2> HIDE DEF r
    <2>5. IsList(r)
      BY <2>4, ListOf
    <2> HIDE DEF n
    <2>6. \A i \in DOMAIN r: (i \in DOMAIN h /\ r[i] = h[i]) \/ (i = n + 1 /\ r[i] = entry)
      BY <2>2, <2>4
    <2>7. Sane(r)
      BY <2>5, <2>6 DEF Sane
    <2>8. Apart(r)
      <3>1. SUFFICES ASSUME NEW i \in DOMAIN r, NEW j \in DOMAIN r, i < j,
                            r[i].insight.text = r[j].insight.text
                     PROVE  r[j].at - r[i].at > Dedup
        BY DEF Apart
      <3>2. i \in DOMAIN h /\ r[i] = h[i]
        BY <2>2, <2>4, <3>1
      <3>3. CASE j \in DOMAIN h
        BY <2>2, <2>4, <3>1, <3>2, <3>3 DEF Apart
      <3>4. CASE j = n + 1
        <4>1. r[j] = entry
          BY <2>4, <3>4
        <4>2. ~(now - h[i].at <= Dedup)
          BY <1>2, <3>1, <3>2, <4>1 DEF Duplicate
        <4>3. h[i].at \in Int /\ now \in Int /\ Dedup \in Int
          BY <3>2, InsightsAssumption DEF Sane, Worth
        <4>4. QED BY <3>2, <4>1, <4>2, <4>3
      <3>5. QED BY <2>6, <3>3, <3>4
    <2>9. Extends(r, base, now)
      <3>1. Len(base) <= n /\ \A i \in 1 .. Len(base): i \in 1 .. n /\ h[i] = base[i]
        BY <2>2 DEF Extends, n
      <3>2. \A i \in 1 .. n: i > Len(base) => h[i].at = now
        BY <2>2 DEF Extends
      <3>3. \A i \in DOMAIN r: i > Len(base) => r[i].at = now
        BY <2>2, <2>6, <3>2
      <3>4. QED BY <2>2, <2>4, <3>1, <3>3 DEF Extends
    <2>10. Duplicate(r, now, entry.insight.text)
      <3>1. n + 1 \in DOMAIN r /\ now - entry.at <= Dedup
        BY <2>2, <2>4, InsightsAssumption DEF Worth
      <3>2. QED BY <2>4, <3>1 DEF Duplicate
    <2>11. \A text: Duplicate(h, now, text) => Duplicate(r, now, text)
      <3>1. \A i \in DOMAIN h: i \in DOMAIN r /\ r[i] = h[i]
        BY <2>2, <2>4
      <3>2. QED BY <3>1 DEF Duplicate
    <2>12. QED BY <2>1, <2>7, <2>8, <2>9, <2>10, <2>11
  <1>3. QED BY <1>1, <1>2

(* All observations of a capture.                                          *)
LEMMA AllRemembered ==
    ASSUME NEW base, NEW now \in Nat, NEW entries, Sane(base), Apart(base), IsList(entries),
           \A i \in DOMAIN entries: Worth(entries[i]) /\ entries[i].at = now
    PROVE  \E h: /\ h = FoldLeft(Remembered, base, entries)
                 /\ Sane(h) /\ Apart(h) /\ Extends(h, base, now)
                 /\ \A i \in DOMAIN entries: Duplicate(h, now, entries[i].insight.text)
  <1> DEFINE S == ToSet(entries)
             Good(h, n) == /\ Sane(h) /\ Apart(h) /\ Extends(h, base, now)
                           /\ \A i \in 1 .. n: Duplicate(h, now, entries[i].insight.text)
  <1>1. Keeping!Folded(base, entries) = FoldLeft(Remembered, base, entries)
    BY DEF Keeping!Folded, FoldLeft, MapThenFoldSet, Keeping!MapThenFoldSet, Max, Keeping!Greatest
  <1>2. entries \in Seq(S) /\ Len(entries) \in Nat /\ DOMAIN entries = 1 .. Len(entries)
    BY DEF IsList
  <1> HIDE DEF S
  <1>3. PICK acc: /\ acc[0] = base
                  /\ \A n \in 1 .. Len(entries): acc[n] = Remembered(acc[n - 1], entries[n])
                  /\ acc[Len(entries)] = Keeping!Folded(base, entries)
    BY <1>2, Keeping!Fold
  <1> DEFINE T == {n \in Nat: n <= Len(entries) => Good(acc[n], n)}
  <1>4. 0 \in T
    <2>1. Extends(base, base, now)
      BY DEF Extends, Sane, IsList
    <2>2. QED BY <1>3, <2>1
  <1>5. ASSUME NEW n \in Nat, n \in T PROVE n + 1 \in T
    <2>1. SUFFICES ASSUME n + 1 <= Len(entries) PROVE Good(acc[n + 1], n + 1)
      OBVIOUS
    <2>2. n + 1 \in 1 .. Len(entries) /\ (n + 1) - 1 = n /\ n <= Len(entries)
      BY <1>2, <2>1
    <2>3. acc[n + 1] = Remembered(acc[n], entries[n + 1])
      BY <1>3, <2>2
    <2>4. Good(acc[n], n)
      BY <1>5, <2>2
    <2>5. Worth(entries[n + 1]) /\ entries[n + 1].at = now /\ IsList(base)
      BY <1>2, <2>2 DEF Sane
    <2>6. /\ Sane(acc[n + 1]) /\ Apart(acc[n + 1]) /\ Extends(acc[n + 1], base, now)
          /\ Duplicate(acc[n + 1], now, entries[n + 1].insight.text)
          /\ \A text: Duplicate(acc[n], now, text) => Duplicate(acc[n + 1], now, text)
      BY <2>3, <2>4, <2>5, OneRemembered
    <2>7. \A i \in 1 .. n + 1: Duplicate(acc[n + 1], now, entries[i].insight.text)
      BY <2>4, <2>6
    <2>8. QED BY <2>6, <2>7
  <1>6. Len(entries) \in T
    <2> HIDE DEF T
    <2>1. QED BY <1>2, <1>4, <1>5, Keeping!Induct
  <1>7. Good(FoldLeft(Remembered, base, entries), Len(entries))
    BY <1>1, <1>2, <1>3, <1>6
  <1>8. QED BY <1>2, <1>7

(* What a capture keeps of the observations.                               *)
Told(obs) == Texts(Where(obs, Kept))
Captures(obs, now) == Mapped(Where(obs, Kept), LAMBDA insight: [at |-> now, insight |-> insight])

LEMMA KeptObservations ==
    ASSUME NEW obs, Observed(obs), NEW now \in 0 .. LastSecond
    PROVE  /\ IsList(Captures(obs, now))
           /\ \A i \in DOMAIN Captures(obs, now): Worth(Captures(obs, now)[i]) /\ Captures(obs, now)[i].at = now
           /\ \A t \in Told(obs): \E i \in DOMAIN Captures(obs, now): Captures(obs, now)[i].insight.text = t
  <1> DEFINE kept == Where(obs, Kept)
             ixs == {i \in DOMAIN obs: Kept(obs[i])}
             entries == Captures(obs, now)
  <1>1. kept = Picked(obs, ixs)
    BY DEF Where
  <1>2. obs \in Seq(ToSet(obs)) /\ ixs \in SUBSET DOMAIN obs
    BY DEF Observed, IsList
  <1>3. entries = [i \in DOMAIN kept |-> [at |-> now, insight |-> kept[i]]]
    BY DEF Captures, Mapped
  <1> HIDE DEF kept, ixs, entries
  <1>4. kept \in Seq(ToSet(obs)) /\ ToSet(kept) = {obs[i]: i \in ixs}
    BY <1>1, <1>2, PickedSeq
  <1>5. Len(kept) \in Nat /\ DOMAIN kept = 1 .. Len(kept)
    BY <1>4
  <1>6. \A i \in DOMAIN kept: Kept(kept[i]) /\ kept[i].level \in Severities
    <2>1. \A i \in DOMAIN kept: kept[i] \in ToSet(kept)
      BY DEF ToSet
    <2>2. \A i \in ixs: Kept(obs[i]) /\ obs[i] \in ToSet(obs)
      BY DEF ixs, ToSet
    <2>3. QED BY <1>4, <2>1, <2>2 DEF Observed
  <1>7. DOMAIN entries = 1 .. Len(kept) /\ \A i \in 1 .. Len(kept): entries[i] = [at |-> now, insight |-> kept[i]]
    BY <1>3, <1>5
  <1>8. IsList(entries)
    <2>1. entries \in [1 .. Len(kept) -> ToSet(entries)]
      BY <1>3, <1>7 DEF ToSet
    <2>2. entries \in Seq(ToSet(entries))
      BY <1>5, <2>1
    <2>3. QED BY <2>2 DEF IsList
  <1>9. \A i \in DOMAIN entries: Worth(entries[i]) /\ entries[i].at = now
    BY <1>5, <1>6, <1>7 DEF Worth, Kept, Severities
  <1>10. \A t \in Texts(kept): \E i \in DOMAIN entries: entries[i].insight.text = t
    BY <1>5, <1>7 DEF Texts
  <1>11. QED BY <1>8, <1>9, <1>10 DEF kept, entries, Told

(* A capture in its three steps: what is too old leaves, what is observed  *)
(* is remembered, and what is too much leaves.                             *)
Captured(h, now, obs, mid, m, l) ==
    /\ m \in 1 .. Len(h) + 1 /\ l \in 1 .. Len(mid) + 1
    /\ \A i \in 1 .. m - 1: now - h[i].at > Keep
    /\ Sane(mid) /\ Apart(mid) /\ Extends(mid, SubSeq(h, m, Len(h)), now)
    /\ \A t \in Told(obs): Duplicate(mid, now, t)
    /\ remember_insights(h, now, obs) = SubSeq(mid, l, Len(mid))
    /\ Len(mid) - l + 1 <= HistoryLimit
    /\ l > 1 => Len(mid) - l + 1 = HistoryLimit

LEMMA Capture ==
    ASSUME NEW h, Sane(h), Apart(h), NEW now \in 0 .. LastSecond, NEW obs, Observed(obs)
    PROVE  \E mid, m, l: Captured(h, now, obs, mid, m, l)
  <1> DEFINE entries == Captures(obs, now)
  <1>1. now \in Nat
    BY InsightsAssumption
  <1>2. PICK m \in 1 .. Len(h) + 1: /\ Expire(h, now) = SubSeq(h, m, Len(h))
                                    /\ \A i \in 1 .. m - 1: now - h[i].at > Keep
    BY <1>1, Expired
  <1> DEFINE base == SubSeq(h, m, Len(h))
  <1>3. Sane(base) /\ Apart(base)
    BY EndSane
  <1>4. /\ IsList(entries)
        /\ \A i \in DOMAIN entries: Worth(entries[i]) /\ entries[i].at = now
        /\ \A t \in Told(obs): \E i \in DOMAIN entries: entries[i].insight.text = t
    BY KeptObservations
  <1>5. remember_insights(h, now, obs) = Limited(FoldLeft(Remembered, base, entries))
    BY <1>2 DEF remember_insights, Captures
  <1> HIDE DEF base, entries
  <1>6. PICK mid: /\ mid = FoldLeft(Remembered, base, entries)
                  /\ Sane(mid) /\ Apart(mid) /\ Extends(mid, base, now)
                  /\ \A i \in DOMAIN entries: Duplicate(mid, now, entries[i].insight.text)
    BY <1>1, <1>3, <1>4, AllRemembered
  <1>7. PICK l \in 1 .. Len(mid) + 1: /\ Limited(mid) = SubSeq(mid, l, Len(mid))
                                      /\ Len(mid) - l + 1 <= HistoryLimit
                                      /\ l > 1 => Len(mid) - l + 1 = HistoryLimit
    BY <1>6, Cut
  <1>8. \A t \in Told(obs): Duplicate(mid, now, t)
    BY <1>4, <1>6
  <1>9. remember_insights(h, now, obs) = SubSeq(mid, l, Len(mid))
    BY <1>5, <1>6, <1>7
  <1>10. QED BY <1>2, <1>6, <1>7, <1>8, <1>9 DEF base, Captured

(* While the clock has not been set back, the entries are in the order of  *)
(* their times.                                                            *)
Ordered(h, now) ==
    \A i \in DOMAIN h: h[i].at <= now /\ \A j \in DOMAIN h: i <= j => h[i].at <= h[j].at

(* What was captured at time c has an entry that counts as it, or had to   *)
(* leave for younger ones.                                                 *)
Held(h, t, c) ==
    \/ \E i \in DOMAIN h: h[i].insight.text = t /\ c - h[i].at <= Dedup
    \/ Len(h) = HistoryLimit /\ c - h[1].at <= Dedup

LEMMA HeldCut ==
    ASSUME NEW mid, NEW now \in Nat, Sane(mid), Apart(mid), Ordered(mid, now), NEW l \in 1 .. Len(mid) + 1,
           Len(mid) - l + 1 <= HistoryLimit, l > 1 => Len(mid) - l + 1 = HistoryLimit
    PROVE  LET out == SubSeq(mid, l, Len(mid)) IN
           /\ Ordered(out, now)
           /\ \A c \in Nat: \A t:
                 \/ \E i \in DOMAIN mid: mid[i].insight.text = t /\ c - mid[i].at <= Dedup
                 \/ Len(mid) >= HistoryLimit /\ c - mid[1].at <= Dedup
                 => Held(out, t, c)
  <1> DEFINE out == SubSeq(mid, l, Len(mid))
             n == Len(mid) - l + 1
  <1>1. /\ Len(mid) \in Nat /\ DOMAIN mid = 1 .. Len(mid) /\ HistoryLimit \in Nat \ {0} /\ Dedup \in Nat
        /\ \A i \in DOMAIN mid: mid[i].at \in Nat
    BY InsightsAssumption DEF Sane, IsList, Worth
  <1>2. /\ Len(out) = n /\ \A k \in 1 .. n: out[k] = mid[k + (l - 1)]
        /\ Sane(out)
    BY EndSane
  <1>3. DOMAIN out = 1 .. n
    BY <1>2 DEF Sane, IsList
  <1> HIDE DEF out
  <1>4. ASSUME NEW k \in DOMAIN out PROVE k + (l - 1) \in DOMAIN mid /\ out[k] = mid[k + (l - 1)]
    <2>1. k \in 1 .. n /\ k \in Int /\ l \in Int
      BY <1>1, <1>3
    <2>2. k + (l - 1) \in 1 .. Len(mid)
      BY <1>1, <2>1
    <2>3. QED BY <1>1, <1>2, <2>1, <2>2
  <1>5. Ordered(out, now)
    <2>1. \A i, j \in DOMAIN out: i <= j => i + (l - 1) <= j + (l - 1)
      BY <1>1, <1>3
    <2>2. QED BY <1>4, <2>1 DEF Ordered
  <1>6. ASSUME NEW c \in Nat, NEW t, NEW i \in DOMAIN mid, mid[i].insight.text = t, c - mid[i].at <= Dedup
        PROVE  Held(out, t, c)
    <2>1. CASE i >= l
      <3>1. i - l + 1 \in DOMAIN out /\ (i - l + 1) + (l - 1) = i
        BY <1>1, <1>3, <2>1
      <3>2. out[i - l + 1] = mid[i]
        BY <1>4, <3>1
      <3>3. QED BY <1>6, <3>1, <3>2 DEF Held
    <2>2. CASE ~(i >= l)
      <3>1. l > 1 /\ n = HistoryLimit /\ 1 \in DOMAIN out /\ 1 + (l - 1) = l /\ i <= l
        BY <1>1, <1>3, <2>2
      <3>2. l \in DOMAIN mid /\ out[1] = mid[l]
        BY <1>4, <3>1
      <3>3. mid[i].at <= out[1].at
        BY <3>1, <3>2 DEF Ordered
      <3>4. out[1].at \in Nat /\ mid[i].at \in Nat
        BY <1>1, <3>2
      <3>5. c - out[1].at <= Dedup
        BY <1>1, <1>6, <3>3, <3>4
      <3>6. QED BY <1>2, <3>1, <3>5 DEF Held
    <2>3. QED BY <2>1, <2>2
  <1>7. ASSUME NEW c \in Nat, NEW t, Len(mid) >= HistoryLimit, c - mid[1].at <= Dedup PROVE Held(out, t, c)
    <2>1. n = HistoryLimit /\ 1 \in DOMAIN out /\ 1 + (l - 1) = l /\ 1 \in DOMAIN mid /\ 1 <= l
      BY <1>1, <1>3, <1>7
    <2>2. l \in DOMAIN mid /\ out[1] = mid[l]
      BY <1>4, <2>1
    <2>3. mid[1].at <= out[1].at
      BY <2>1, <2>2 DEF Ordered
    <2>4. out[1].at \in Nat /\ mid[1].at \in Nat
      BY <1>1, <2>1, <2>2
    <2>5. c - out[1].at <= Dedup
      <3>1. \A x, y \in Nat: x <= y /\ c - x <= Dedup => c - y <= Dedup
        BY <1>1
      <3>2. QED BY <1>7, <2>3, <2>4, <3>1
    <2>6. Len(out) = HistoryLimit
      BY <1>2, <2>1
    <2>7. QED BY <2>5, <2>6 DEF Held
  <1>8. QED BY <1>5, <1>6, <1>7 DEF out

LEMMA HeldOn ==
    ASSUME NEW h, NEW mid, NEW now \in Nat, Sane(h), Apart(h), Ordered(h, now), Sane(mid), NEW m \in 1 .. Len(h) + 1,
           \A i \in 1 .. m - 1: now - h[i].at > Keep, Extends(mid, SubSeq(h, m, Len(h)), now)
    PROVE  /\ Ordered(mid, now)
           /\ \A c \in Nat: \A t: Held(h, t, c) /\ now - c <= Keep - Dedup =>
                 \/ \E i \in DOMAIN mid: mid[i].insight.text = t /\ c - mid[i].at <= Dedup
                 \/ Len(mid) >= HistoryLimit /\ c - mid[1].at <= Dedup
  <1> DEFINE base == SubSeq(h, m, Len(h))
             n == Len(h) - m + 1
  <1>1. /\ Len(h) \in Nat /\ DOMAIN h = 1 .. Len(h) /\ Len(mid) \in Nat /\ DOMAIN mid = 1 .. Len(mid)
        /\ HistoryLimit \in Nat \ {0} /\ Dedup \in Nat /\ Keep \in Nat
        /\ \A i \in DOMAIN h: h[i].at \in Nat
        /\ \A i \in DOMAIN mid: mid[i].at \in Nat
    BY InsightsAssumption DEF Sane, IsList, Worth
  <1>2. Len(base) = n /\ \A k \in 1 .. n: base[k] = h[k + (m - 1)]
    BY EndSane
  <1> HIDE DEF base
  <1>3. /\ n \in Nat /\ n <= Len(mid) /\ \A k \in 1 .. n: k + (m - 1) \in DOMAIN h /\ mid[k] = h[k + (m - 1)]
        /\ \A k \in DOMAIN mid: k > n => mid[k].at = now
    BY <1>1, <1>2 DEF Extends, base
  <1>4. Ordered(mid, now)
    <2>1. ASSUME NEW i \in DOMAIN mid PROVE mid[i].at <= now
      <3>1. CASE i > n
        BY <1>3, <3>1
      <3>2. CASE ~(i > n)
        <4>1. i \in 1 .. n
          BY <1>1, <1>3, <3>2
        <4>2. QED BY <1>3, <4>1 DEF Ordered
      <3>3. QED BY <3>1, <3>2
    <2>2. ASSUME NEW i \in DOMAIN mid, NEW j \in DOMAIN mid, i <= j PROVE mid[i].at <= mid[j].at
      <3>1. CASE j > n
        BY <1>3, <2>1, <3>1
      <3>2. CASE ~(j > n)
        <4>1. i \in 1 .. n /\ j \in 1 .. n /\ i + (m - 1) <= j + (m - 1)
          BY <1>1, <1>3, <2>2, <3>2
        <4>2. QED BY <1>3, <4>1 DEF Ordered
      <3>3. QED BY <3>1, <3>2
    <2>3. QED BY <2>1, <2>2 DEF Ordered
  <1>5. ASSUME NEW c \in Nat, NEW t, now - c <= Keep - Dedup, NEW i \in DOMAIN h,
               h[i].insight.text = t, c - h[i].at <= Dedup
        PROVE  \E k \in DOMAIN mid: mid[k].insight.text = t /\ c - mid[k].at <= Dedup
    <2>1. ~(now - h[i].at > Keep)
      BY <1>1, <1>5
    <2>2. i >= m
      BY <1>1, <2>1
    <2> DEFINE k == i - m + 1
    <2>3. k \in 1 .. n /\ k + (m - 1) = i
      BY <1>1, <2>2
    <2> HIDE DEF k
    <2>4. k \in DOMAIN mid /\ mid[k] = h[i]
      BY <1>1, <1>3, <2>3
    <2>5. QED BY <1>5, <2>4
  <1>6. ASSUME NEW c \in Nat, now - c <= Keep - Dedup, Len(h) = HistoryLimit, c - h[1].at <= Dedup
        PROVE  Len(mid) >= HistoryLimit /\ c - mid[1].at <= Dedup
    <2>1. 1 \in DOMAIN h
      BY <1>1, <1>6
    <2>2. h[1].at \in Nat
      BY <1>1, <2>1
    <2>3. ~(now - h[1].at > Keep)
      BY <1>1, <1>6, <2>2
    <2>4. m = 1
      <3>1. ~(1 \in 1 .. m - 1)
        BY <2>3
      <3>2. QED BY <1>1, <3>1
    <2>5. n = HistoryLimit /\ 1 \in 1 .. n /\ 1 + (m - 1) = 1
      BY <1>1, <1>6, <2>4
    <2>6. QED BY <1>1, <1>3, <1>6, <2>5
  <1>7. QED BY <1>4, <1>5, <1>6 DEF Held

-----------------------------------------------------------------------------
(* The inductive invariant: the history is sane and without echoes, and    *)
(* while the clock has not been set back, its entries are in the order of  *)
(* their times and hold what was captured, for as long as it must stay.    *)
Stays(t) == second - captured[t] > Keep - Dedup \/ Held(insight_history, t, captured[t])

InsightsInv ==
    /\ evidence \in Evidence /\ second \in 0 .. LastSecond /\ clock_set \in BOOLEAN
    /\ Sane(insight_history) /\ Apart(insight_history) /\ Len(insight_history) <= HistoryLimit
    /\ \A t \in DOMAIN captured: captured[t] \in 0 .. LastSecond
    /\ ~clock_set => Ordered(insight_history, second) /\ \A t \in DOMAIN captured: Stays(t)

LEMMA InitInv == InsightsInit => InsightsInv
  <1>1. SUFFICES ASSUME InsightsInit PROVE InsightsInv
    OBVIOUS
  <1>2. evidence \in Evidence
    <2>1. {} \in SUBSET NodeHosts /\ <<>> \in [{} -> NodeStates]
      OBVIOUS
    <2>2. <<>> \in UNION {[hosts -> NodeStates]: hosts \in SUBSET NodeHosts}
      BY <2>1
    <2>3. QED BY <1>1, <2>2 DEF InsightsInit, NoEvidence, Evidence
  <1>3. 0 \in 0 .. LastSecond /\ 0 <= HistoryLimit
    BY InsightsAssumption
  <1>4. IsList(<<>>) /\ DOMAIN <<>> = {} /\ Len(<<>>) = 0
    BY ObservedOne DEF Observed
  <1>5. Sane(<<>>) /\ Apart(<<>>) /\ Ordered(<<>>, 0)
    BY <1>4 DEF Sane, Apart, Ordered
  <1>6. QED BY <1>1, <1>2, <1>3, <1>4, <1>5 DEF InsightsInit, InsightsInv

LEMMA ClusterInv == InsightsInv /\ cluster_line => InsightsInv'
  <1>1. SUFFICES ASSUME InsightsInv, cluster_line PROVE InsightsInv'
    OBVIOUS
  <1> DEFINE h == insight_history
             now == second
  <1>2. PICK s \in Snapshots \ {None}:
            LET obs == diagnose([evidence EXCEPT !.snapshot = s]) IN
            /\ evidence' = [evidence EXCEPT !.snapshot = s]
            /\ insight_history' = remember_insights(insight_history, second, obs)
            /\ captured' = [t \in DOMAIN captured \cup Told(obs) |->
                               IF t \in Told(obs) THEN second ELSE captured[t]]
            /\ UNCHANGED <<second, clock_set>>
    BY <1>1 DEF cluster_line, Told
  <1> DEFINE obs == diagnose([evidence EXCEPT !.snapshot = s])
             told == Told(obs)
  <1>3. /\ now \in 0 .. LastSecond /\ now \in Nat /\ Keep \in Nat /\ Dedup \in Nat /\ Dedup < Keep
        /\ HistoryLimit \in Nat \ {0} /\ Sane(h) /\ Apart(h)
    BY <1>1, InsightsAssumption DEF InsightsInv
  <1>4. evidence' \in Evidence
    BY <1>1, <1>2 DEF InsightsInv, Evidence
  <1>5. Observed(obs)
    BY <1>2, <1>4, Diagnosed
  <1>6. /\ insight_history' = remember_insights(h, now, obs) /\ second' = second /\ clock_set' = clock_set
        /\ captured' = [t \in DOMAIN captured \cup told |-> IF t \in told THEN now ELSE captured[t]]
    BY <1>2
  <1> HIDE DEF obs
  <1>7. PICK mid, m, l: Captured(h, now, obs, mid, m, l)
    BY <1>3, <1>5, Capture
  <1>8. /\ m \in 1 .. Len(h) + 1 /\ l \in 1 .. Len(mid) + 1
        /\ \A i \in 1 .. m - 1: now - h[i].at > Keep
        /\ Sane(mid) /\ Apart(mid) /\ Extends(mid, SubSeq(h, m, Len(h)), now)
        /\ \A t \in Told(obs): Duplicate(mid, now, t)
        /\ remember_insights(h, now, obs) = SubSeq(mid, l, Len(mid))
        /\ Len(mid) - l + 1 <= HistoryLimit
        /\ l > 1 => Len(mid) - l + 1 = HistoryLimit
    BY <1>7 DEF Captured
  <1> DEFINE out == SubSeq(mid, l, Len(mid))
  <1>9. Sane(out) /\ Apart(out) /\ Len(out) <= HistoryLimit
    BY <1>8, EndSane
  <1>10. \A t \in DOMAIN captured': captured'[t] \in 0 .. LastSecond
    <2> HIDE DEF told
    <2>1. \A t \in DOMAIN captured: captured[t] \in 0 .. LastSecond
      BY <1>1 DEF InsightsInv
    <2>2. DOMAIN captured' = DOMAIN captured \cup told
      BY <1>6
    <2>3. SUFFICES ASSUME NEW t \in DOMAIN captured \cup told PROVE captured'[t] \in 0 .. LastSecond
      BY <2>2
    <2>4. captured'[t] = IF t \in told THEN now ELSE captured[t]
      BY <1>6
    <2>5. QED BY <1>3, <2>1, <2>4
  <1>11. ASSUME ~clock_set PROVE Ordered(out, now) /\ \A t \in DOMAIN captured': Stays(t)'
    <2>1. Ordered(h, now) /\ \A t \in DOMAIN captured: Stays(t)
      BY <1>1, <1>11 DEF InsightsInv
    <2>2. /\ Ordered(mid, now)
          /\ \A c \in Nat: \A t: Held(h, t, c) /\ now - c <= Keep - Dedup =>
                \/ \E i \in DOMAIN mid: mid[i].insight.text = t /\ c - mid[i].at <= Dedup
                \/ Len(mid) >= HistoryLimit /\ c - mid[1].at <= Dedup
      BY <1>3, <1>8, <2>1, HeldOn
    <2>3. /\ Ordered(out, now)
          /\ \A c \in Nat: \A t:
                \/ \E i \in DOMAIN mid: mid[i].insight.text = t /\ c - mid[i].at <= Dedup
                \/ Len(mid) >= HistoryLimit /\ c - mid[1].at <= Dedup
                => Held(out, t, c)
      BY <1>3, <1>8, <2>2, HeldCut
    <2> HIDE DEF out, told
    <2>4. ASSUME NEW t \in DOMAIN captured \cup told PROVE Stays(t)'
      <3>1. captured'[t] = IF t \in told THEN now ELSE captured[t]
        BY <1>6
      <3>2. CASE t \in told
        <4>1. Duplicate(mid, now, t)
          BY <1>8, <3>2 DEF told
        <4>2. Held(out, t, now)
          BY <1>3, <2>3, <4>1 DEF Duplicate
        <4>3. QED BY <1>6, <1>8, <3>1, <3>2, <4>2 DEF Stays, out
      <3>3. CASE t \notin told
        <4>1. t \in DOMAIN captured /\ captured'[t] = captured[t]
          BY <3>1, <3>3
        <4>2. captured[t] \in Nat
          BY <1>1, <4>1 DEF InsightsInv
        <4>3. CASE now - captured[t] > Keep - Dedup
          BY <1>6, <4>1, <4>3 DEF Stays
        <4>4. CASE ~(now - captured[t] > Keep - Dedup)
          <5>1. Held(h, t, captured[t])
            BY <2>1, <4>1, <4>4 DEF Stays
          <5>2. now - captured[t] <= Keep - Dedup
            BY <1>3, <4>2, <4>4
          <5>3. Held(out, t, captured[t])
            BY <2>2, <2>3, <4>2, <5>1, <5>2
          <5>4. QED BY <1>6, <1>8, <4>1, <5>3 DEF Stays, out
        <4>5. QED BY <4>3, <4>4
      <3>4. QED BY <3>2, <3>3
    <2>5. DOMAIN captured' = DOMAIN captured \cup told
      BY <1>6
    <2>6. QED BY <2>3, <2>4, <2>5
  <1> HIDE DEF out, told
  <1>12. insight_history' = out
    BY <1>6, <1>8 DEF out
  <1>13. second' \in 0 .. LastSecond /\ clock_set' \in BOOLEAN
    BY <1>1, <1>6 DEF InsightsInv
  <1>14. QED BY <1>4, <1>6, <1>9, <1>10, <1>11, <1>12, <1>13 DEF InsightsInv

LEMMA EvidenceInv == InsightsInv /\ evidence_changes => InsightsInv'
  <1>1. SUFFICES ASSUME InsightsInv, evidence_changes PROVE InsightsInv'
    OBVIOUS
  <1>2. UNCHANGED <<insight_history, second, captured, clock_set>>
    BY <1>1 DEF evidence_changes
  <1>3. evidence \in Evidence
    BY <1>1 DEF InsightsInv
  <1>4. evidence' \in Evidence
    <2>1. CASE \E h \in NodeHosts, n \in NodeStates:
                  evidence' = [evidence EXCEPT !.nodes = [k \in DOMAIN @ \cup {h} |-> IF k = h THEN n ELSE @[k]]]
      <3>1. PICK h \in NodeHosts, n \in NodeStates:
                evidence' = [evidence EXCEPT !.nodes = [k \in DOMAIN @ \cup {h} |-> IF k = h THEN n ELSE @[k]]]
        BY <2>1
      <3> DEFINE new == [k \in DOMAIN evidence.nodes \cup {h} |-> IF k = h THEN n ELSE evidence.nodes[k]]
      <3>2. PICK hosts \in SUBSET NodeHosts: evidence.nodes \in [hosts -> NodeStates]
        BY <1>3 DEF Evidence
      <3>3. new \in [hosts \cup {h} -> NodeStates] /\ hosts \cup {h} \in SUBSET NodeHosts
        BY <3>2
      <3>4. evidence' = [evidence EXCEPT !.nodes = new]
        BY <3>1
      <3> HIDE DEF new
      <3>5. new \in UNION {[hs -> NodeStates]: hs \in SUBSET NodeHosts}
        BY <3>3
      <3>6. QED BY <1>3, <3>4, <3>5 DEF Evidence
    <2>2. CASE \E c \in StreamCounts: evidence' = [evidence EXCEPT !.streams = c]
      BY <1>3, <2>2 DEF Evidence
    <2>3. CASE \E t \in Traces: evidence' = [evidence EXCEPT !.trace = t]
      BY <1>3, <2>3 DEF Evidence
    <2>4. QED BY <1>1, <2>1, <2>2, <2>3 DEF evidence_changes
  <1>5. QED BY <1>1, <1>2, <1>4 DEF InsightsInv, Stays

LEMMA ClockInv == InsightsInv /\ clock_moves => InsightsInv'
  <1>1. SUFFICES ASSUME InsightsInv, clock_moves PROVE InsightsInv'
    OBVIOUS
  <1>2. /\ second' \in 0 .. LastSecond /\ clock_set' = (clock_set \/ second' < second)
        /\ UNCHANGED <<evidence, insight_history, captured>>
        /\ second \in 0 .. LastSecond /\ clock_set \in BOOLEAN
    BY <1>1 DEF clock_moves, InsightsInv
  <1>3. clock_set' \in BOOLEAN
    BY <1>2
  <1>4. ASSUME ~clock_set' PROVE Ordered(insight_history, second') /\ \A t \in DOMAIN captured: Stays(t)'
    <2>1. ~clock_set /\ second \in Int /\ second' \in Int /\ second <= second'
      <3>1. ~clock_set /\ ~(second' < second)
        BY <1>2, <1>4
      <3>2. second \in Int /\ second' \in Int
        BY <1>2, InsightsAssumption
      <3>3. QED BY <3>1, <3>2
    <2>2. Ordered(insight_history, second) /\ \A t \in DOMAIN captured: Stays(t)
      BY <1>1, <2>1 DEF InsightsInv
    <2>3. \A i \in DOMAIN insight_history: insight_history[i].at \in Int
      BY <1>1, InsightsAssumption DEF InsightsInv, Sane, Worth
    <2>4. Ordered(insight_history, second')
      BY <2>1, <2>2, <2>3 DEF Ordered
    <2>5. ASSUME NEW t \in DOMAIN captured PROVE Stays(t)'
      <3>1. captured[t] \in Int /\ Keep - Dedup \in Int
        BY <1>1, InsightsAssumption DEF InsightsInv
      <3>2. second - captured[t] > Keep - Dedup => second' - captured[t] > Keep - Dedup
        BY <2>1, <3>1
      <3>3. QED BY <1>2, <2>2, <3>2 DEF Stays
    <2>6. QED BY <2>4, <2>5
  <1>5. QED BY <1>1, <1>2, <1>3, <1>4 DEF InsightsInv

(* The invariant holds in every state.                                     *)
THEOREM InsightsInvariant == InsightsSpec => []InsightsInv
  <1>1. InsightsInv /\ [InsightsNext]_insightsVars => InsightsInv'
    <2>1. InsightsInv /\ UNCHANGED insightsVars => InsightsInv'
      BY DEF InsightsInv, Stays, insightsVars
    <2>2. QED BY <2>1, ClusterInv, EvidenceInv, ClockInv DEF InsightsNext
  <1>2. QED BY InitInv, <1>1, PTL DEF InsightsSpec

(* The history is bounded and holds neither what is well nor the hint that *)
(* nothing is traced.                                                      *)
THEOREM HistoryTypes == InsightsSpec => []InsightsTypeOK
  <1>1. InsightsInv => InsightsTypeOK
    BY DEF InsightsInv, Sane, Worth, InsightsTypeOK
  <1>2. QED BY <1>1, InsightsInvariant, PTL

(* Whatever the clock does, two entries of one text are further apart than *)
(* the time within which they count as one.                                *)
THEOREM NoEchoes == InsightsSpec => []NoEcho
  <1>1. InsightsInv => NoEcho
    BY DEF InsightsInv, Apart, NoEcho
  <1>2. QED BY <1>1, InsightsInvariant, PTL

(* The past of the panel shows every young entry that is not observed now. *)
LEMMA PastShown ==
    ASSUME InsightsInv, NEW i \in DOMAIN insight_history, second - insight_history[i].at <= Keep
    PROVE  insight_history[i].insight.text \in Texts(operator_insights)
  <1> DEFINE h == insight_history
             t == h[i].insight.text
             current == diagnose(evidence)
             rev == Reverse(h)
             ixs == {k \in DOMAIN rev: second - rev[k].at <= Keep /\ rev[k].insight.text \notin Texts(current)}
             past == Picked(rev, ixs)
             shown == [k \in DOMAIN past |-> past[k].insight]
  <1>1. operator_insights = current \o shown
    BY DEF operator_insights, Where, Mapped
  <1>2. Observed(current)
    BY Diagnosed DEF InsightsInv
  <1>3. h \in Seq(ToSet(h)) /\ Len(h) \in Nat /\ DOMAIN h = 1 .. Len(h)
    BY DEF InsightsInv, Sane, IsList
  <1>4. /\ rev \in Seq(ToSet(h)) /\ DOMAIN rev = 1 .. Len(h)
        /\ \A k \in 1 .. Len(h): rev[k] = h[(Len(h) - k) + 1]
    <2>1. rev = [k \in 1 .. Len(h) |-> h[(Len(h) - k) + 1]]
      BY DEF Reverse
    <2> HIDE DEF rev
    <2>2. \A k \in 1 .. Len(h): (Len(h) - k) + 1 \in DOMAIN h
      BY <1>3
    <2>3. rev \in [1 .. Len(h) -> ToSet(h)]
      BY <2>1, <2>2 DEF ToSet
    <2>4. QED BY <1>3, <2>1, <2>3
  <1>5. ixs \in SUBSET DOMAIN rev
    OBVIOUS
  <1> HIDE DEF h, current, rev
  <1>6. past \in Seq(ToSet(h)) /\ ToSet(past) = {rev[k]: k \in ixs}
    <2> HIDE DEF ixs
    <2>1. QED BY <1>4, <1>5, PickedSeq
  <1> HIDE DEF past
  <1>7. DOMAIN past = 1 .. Len(past) /\ Len(past) \in Nat
    BY <1>6
  <1>8. IsList(shown)
    <2>1. shown \in [1 .. Len(past) -> ToSet(shown)]
      BY <1>7 DEF ToSet
    <2> HIDE DEF shown
    <2>2. QED BY <1>7, <2>1 DEF IsList
  <1>9. \A x \in ToSet(past): x.insight \in ToSet(shown)
    BY DEF ToSet
  <1> HIDE DEF shown
  <1>10. ToSet(operator_insights) = ToSet(current) \cup ToSet(shown)
    BY <1>1, <1>2, <1>8, ListConcat DEF Observed
  <1>11. \A s: Texts(s) = {x.text: x \in ToSet(s)}
    BY DEF Texts, ToSet
  <1>12. CASE t \in Texts(current)
    BY <1>10, <1>11, <1>12 DEF h
  <1>13. CASE t \notin Texts(current)
    <2> DEFINE k == (Len(h) - i) + 1
    <2>1. k \in 1 .. Len(h) /\ (Len(h) - k) + 1 = i
      BY <1>3 DEF h
    <2> HIDE DEF k
    <2>2. rev[k] = h[i] /\ k \in DOMAIN rev
      BY <1>4, <2>1
    <2>3. k \in ixs
      BY <1>13, <2>2 DEF h
    <2>4. h[i] \in ToSet(past)
      BY <1>6, <2>2, <2>3
    <2>5. h[i].insight \in ToSet(shown)
      BY <1>9, <2>4
    <2>6. QED BY <1>10, <1>11, <2>5 DEF h
  <1>14. QED BY <1>12, <1>13

(* What was captured stays on the panel for as long as it must, unless the *)
(* history is full or the clock has been set back.                         *)
THEOREM CapturesStay == InsightsSpec => []CapturedStays
  <1>1. ASSUME InsightsInv, NEW t \in DOMAIN captured, ~clock_set, second - captured[t] <= Keep - Dedup
        PROVE  t \in Texts(operator_insights) \/ Len(insight_history) = HistoryLimit
    <2>1. /\ second \in Int /\ captured[t] \in Int /\ Keep \in Int /\ Dedup \in Int
          /\ \A i \in DOMAIN insight_history: insight_history[i].at \in Int
      BY <1>1, InsightsAssumption DEF InsightsInv, Sane, Worth
    <2>2. Held(insight_history, t, captured[t])
      BY <1>1, <2>1 DEF InsightsInv, Stays
    <2>3. ASSUME NEW i \in DOMAIN insight_history, insight_history[i].insight.text = t,
                 captured[t] - insight_history[i].at <= Dedup
          PROVE  t \in Texts(operator_insights)
      <3>1. second - insight_history[i].at <= Keep
        BY <1>1, <2>1, <2>3
      <3>2. QED BY <1>1, <2>3, <3>1, PastShown
    <2>4. QED BY <2>2, <2>3 DEF Held
  <1>2. InsightsInv => CapturedStays
    BY <1>1 DEF CapturedStays
  <1>3. QED BY <1>2, InsightsInvariant, PTL

-----------------------------------------------------------------------------
(* The verdicts: what the observations say of the evidence.                *)

(* Observations that raise an alarm.                                       *)
Alarms == {"Warn", "Bad"}
Warns(s) == \E x \in ToSet(s): x.level \in Alarms

(* Observations that claim nothing to be the worst, and none to be well.   *)
Claims == {"in flight", "last", "kfstrace", "radostrace", "no obvious slow OSD"}
Modest(s) == IsList(s) /\ \A x \in ToSet(s): x.text[1] \notin Claims

LEMMA ConcatTells ==
    ASSUME NEW s, NEW t, IsList(s), IsList(t)
    PROVE  /\ IsList(s \o t)
           /\ Warns(s \o t) <=> Warns(s) \/ Warns(t)
           /\ Modest(s) /\ Modest(t) => Modest(s \o t)
  BY ListConcat DEF Warns, Modest

LEMMA NoneTells == IsList(<<>>) /\ ~Warns(<<>>) /\ Modest(<<>>)
  BY ObservedOne DEF Observed, ToSet, Warns, Modest

LEMMA OneTells ==
    \A level \in Severities: \A text:
        /\ IsList(<<Insight(level, text)>>)
        /\ Warns(<<Insight(level, text)>>) <=> level \in Alarms
        /\ text[1] \notin Claims => Modest(<<Insight(level, text)>>)
  <1>1. SUFFICES ASSUME NEW level \in Severities, NEW text
                 PROVE  /\ IsList(<<Insight(level, text)>>)
                        /\ Warns(<<Insight(level, text)>>) <=> level \in Alarms
                        /\ text[1] \notin Claims => Modest(<<Insight(level, text)>>)
    OBVIOUS
  <1> DEFINE x == Insight(level, text)
  <1>2. IsList(<<x>>)
    BY ObservedOne DEF Observed
  <1>3. x.level = level /\ x.text = text
    BY DEF Insight
  <1> HIDE DEF x
  <1>4. ToSet(<<x>>) = {x}
    BY DEF ToSet
  <1>5. /\ Warns(<<x>>) <=> level \in Alarms
        /\ text[1] \notin Claims => Modest(<<x>>)
    BY <1>2, <1>3, <1>4 DEF Warns, Modest
  <1>6. QED BY <1>2, <1>5 DEF x

(* Observations of one kind.                                               *)
LEMMA ManyTell ==
    ASSUME NEW n \in Nat, NEW s, DOMAIN s = 1 .. n, s = [i \in DOMAIN s |-> s[i]],
           \A i \in 1 .. n: s[i].level \in Alarms
    PROVE  /\ IsList(s) /\ ToSet(s) = {s[i]: i \in 1 .. n}
           /\ Warns(s) <=> n > 0
           /\ (\A i \in 1 .. n: s[i].text[1] \notin Claims) => Modest(s)
  <1>1. ToSet(s) = {s[i]: i \in 1 .. n}
    BY DEF ToSet
  <1>2. s \in [1 .. n -> ToSet(s)]
    BY <1>1
  <1>3. IsList(s)
    BY <1>2 DEF IsList
  <1>4. n > 0 => 1 \in 1 .. n
    OBVIOUS
  <1>5. Warns(s) <=> n > 0
    BY <1>1, <1>4 DEF Warns
  <1>6. QED BY <1>1, <1>3, <1>5 DEF Modest

LEMMA LatencyWarns ==
    \A us \in Nat: insight_level_for_latency(us) \in Alarms <=> us >= SLOW
  BY DEF insight_level_for_latency, SLOW, Alarms

(* A filter is empty when nothing passes.                                  *)
LEMMA FilterEmpty ==
    ASSUME NEW S, NEW seq \in Seq(S), NEW ixs \in SUBSET DOMAIN seq
    PROVE  /\ Len(Picked(seq, ixs)) \in Nat /\ DOMAIN Picked(seq, ixs) = 1 .. Len(Picked(seq, ixs))
           /\ ToSet(Picked(seq, ixs)) = {seq[i]: i \in ixs}
           /\ Len(Picked(seq, ixs)) > 0 <=> ixs # {}
           /\ Picked(seq, ixs) = <<>> <=> ixs = {}
  <1> DEFINE p == Picked(seq, ixs)
  <1>1. p \in Seq(S) /\ ToSet(p) = {seq[i]: i \in ixs}
    BY PickedSeq
  <1> HIDE DEF p
  <1>2. Len(p) \in Nat /\ DOMAIN p = 1 .. Len(p) /\ (p = <<>> <=> Len(p) = 0)
    BY <1>1
  <1>3. Len(p) > 0 <=> ToSet(p) # {}
    BY <1>2 DEF ToSet
  <1>4. QED BY <1>1, <1>2, <1>3 DEF p

(* What is said of the cluster.                                            *)
Troubled(s) ==
    s # None /\ (\/ s.health # "HEALTH_OK" \/ s.pgs # <<>> \/ ~s.clean \/ s.recovering > 0
                 \/ \E p \in ToSet(s.pools): p.domains > 0 /\ p.size > p.domains
                 \/ s.full_ratio > 0 /\ \E o \in ToSet(s.osds): o.used >= s.full_ratio)

(* An OSD is full when the fullest is.                                     *)
LEMMA FullestTells ==
    ASSUME NEW s \in Snapshots, s # None, s.osds # <<>>
    PROVE  LastMax(s.osds, LAMBDA o: o.used).used >= s.full_ratio
               <=> \E o \in ToSet(s.osds): o.used >= s.full_ratio
  <1> DEFINE n == Len(s.osds)
             v == [i \in 1 .. n |-> s.osds[i].used]
             top == Max(Tops(v, n))
             fullest == LastMax(s.osds, LAMBDA o: o.used)
  <1>1. s.osds \in Seq(ToSet(s.osds)) /\ s.full_ratio \in Nat /\ \A o \in ToSet(s.osds): o.used \in Nat
    BY InsightsAssumption
  <1>2. n \in Nat \ {0} /\ DOMAIN s.osds = 1 .. n
    BY <1>1
  <1>3. ToSet(s.osds) = {s.osds[i]: i \in 1 .. n}
    BY <1>2 DEF ToSet
  <1>4. fullest = s.osds[top]
    BY <1>2 DEF LastMax, Tops
  <1> HIDE DEF n, fullest
  <1>5. v \in [1 .. n -> Nat]
    BY <1>1, <1>3
  <1>6. top \in 1 .. n /\ \A j \in 1 .. n: v[j] <= v[top]
    <2> HIDE DEF v
    <2>1. QED BY <1>2, <1>5, LastTop
  <1> HIDE DEF top
  <1>7. fullest \in ToSet(s.osds) /\ \A o \in ToSet(s.osds): o.used <= fullest.used
    BY <1>3, <1>4, <1>6
  <1>8. \A a, b, c \in Nat: a <= b /\ a >= c => b >= c
    OBVIOUS
  <1>9. fullest.used >= s.full_ratio <=> \E o \in ToSet(s.osds): o.used >= s.full_ratio
    BY <1>1, <1>7, <1>8
  <1>10. QED BY <1>9 DEF fullest

LEMMA SnapshotTells ==
    ASSUME NEW s \in Snapshots \cup {None}
    PROVE  /\ Modest(snapshot_insights(s))
           /\ Warns(snapshot_insights(s)) <=> Troubled(s)
  <1>0. /\ "Info" \in Severities /\ "Warn" \in Severities /\ "Bad" \in Severities
        /\ "Info" \notin Alarms /\ "Warn" \in Alarms /\ "Bad" \in Alarms
    BY DEF Alarms, Severities
  <1>1. CASE s = None
    <2> DEFINE text == <<"waiting for first cluster snapshot">>
    <2>1. text[1] \notin Claims
      BY DEF Claims
    <2>2. snapshot_insights(s) = <<Insight("Info", text)>>
      BY <1>1 DEF snapshot_insights
    <2> HIDE DEF text
    <2>3. QED BY <1>0, <1>1, <2>1, <2>2, OneTells DEF Troubled
  <1>2. CASE s # None
    <2> DEFINE tight == {i \in DOMAIN s.pools: s.pools[i].domains > 0 /\ s.pools[i].size > s.pools[i].domains}
               t == Picked(s.pools, tight)
               fullest == LastMax(s.osds, LAMBDA o: o.used)
               full == s.full_ratio > 0 /\ s.osds # <<>> /\ fullest.used >= s.full_ratio
               stuck == s.pgs = <<>> /\ ~s.clean
               h == Given(s.health # "HEALTH_OK",
                          <<Insight(IF s.health = "HEALTH_WARN" THEN "Warn" ELSE "Bad",
                                    <<"health", s.health, First(3, s.checks), Len(s.checks)>>)>>)
               a == [i \in DOMAIN t |-> Insight("Bad", <<"pool", t[i].name, t[i].size, t[i].domains>>)]
               b == Given(full, <<Insight("Bad", <<"full", fullest.name, fullest.used>>)>>)
               c == Given(s.pgs # <<>>, <<Insight("Warn", <<"pg", Abnormal(s.pgs), Len(s.pgs)>>)>>)
               d == Given(s.recovering > 0, <<Insight("Warn", <<"recovery", s.recovering>>)>>)
               f == Given(stuck, <<Insight("Warn", <<"PG state">>)>>)
    <2>1. snapshot_insights(s) = (h \o (((a \o b) \o c) \o d)) \o f
      BY <1>2 DEF snapshot_insights, health_insights, cluster_evidence_insights, Where, Mapped
    <2> HIDE DEF fullest
    <2>2. Modest(h) /\ (Warns(h) <=> s.health # "HEALTH_OK")
      <3> DEFINE text == <<"health", s.health, First(3, s.checks), Len(s.checks)>>
      <3>1. text[1] \notin Claims
        BY DEF Claims
      <3> HIDE DEF text
      <3>2. QED BY <1>0, <3>1, NoneTells, OneTells DEF Given, text
    <2>3. Modest(a) /\ (Warns(a) <=> tight # {})
      <3>1. s.pools \in Seq(ToSet(s.pools)) /\ tight \in SUBSET DOMAIN s.pools
        BY <1>2, InsightsAssumption
      <3> HIDE DEF tight
      <3>2. Len(t) \in Nat /\ DOMAIN t = 1 .. Len(t) /\ (Len(t) > 0 <=> tight # {})
        BY <3>1, FilterEmpty
      <3> HIDE DEF t
      <3>3. \A i \in DOMAIN t: <<"pool", t[i].name, t[i].size, t[i].domains>>[1] \notin Claims
        BY DEF Claims
      <3>4. /\ DOMAIN a = 1 .. Len(t) /\ a = [i \in DOMAIN a |-> a[i]]
            /\ \A i \in 1 .. Len(t): a[i].level \in Alarms /\ a[i].text[1] \notin Claims
        BY <1>0, <3>2, <3>3 DEF Insight
      <3> HIDE DEF a
      <3>5. QED BY <3>2, <3>4, ManyTell
    <2>4. Modest(b) /\ (Warns(b) <=> full)
      <3> DEFINE text == <<"full", fullest.name, fullest.used>>
      <3>1. text[1] \notin Claims
        BY DEF Claims
      <3> HIDE DEF text, full
      <3>2. QED BY <1>0, <3>1, NoneTells, OneTells DEF Given, text
    <2>5. Modest(c) /\ (Warns(c) <=> s.pgs # <<>>)
      <3> DEFINE text == <<"pg", Abnormal(s.pgs), Len(s.pgs)>>
      <3>1. text[1] \notin Claims
        BY DEF Claims
      <3> HIDE DEF text
      <3>2. QED BY <1>0, <3>1, NoneTells, OneTells DEF Given, text
    <2>6. Modest(d) /\ (Warns(d) <=> s.recovering > 0)
      <3> DEFINE text == <<"recovery", s.recovering>>
      <3>1. text[1] \notin Claims
        BY DEF Claims
      <3> HIDE DEF text
      <3>2. QED BY <1>0, <3>1, NoneTells, OneTells DEF Given, text
    <2>7. Modest(f) /\ (Warns(f) <=> stuck)
      <3> DEFINE text == <<"PG state">>
      <3>1. text[1] \notin Claims
        BY DEF Claims
      <3> HIDE DEF text, stuck
      <3>2. QED BY <1>0, <3>1, NoneTells, OneTells DEF Given, text
    <2>8. tight # {} <=> \E p \in ToSet(s.pools): p.domains > 0 /\ p.size > p.domains
      BY DEF ToSet
    <2>9. full <=> s.full_ratio > 0 /\ \E o \in ToSet(s.osds): o.used >= s.full_ratio
      <3>1. CASE s.osds = <<>>
        BY <3>1 DEF ToSet
      <3>2. CASE s.osds # <<>>
        BY <1>2, <3>2, FullestTells DEF fullest
      <3>3. QED BY <3>1, <3>2
    <2> HIDE DEF h, a, b, c, d, f, tight, full
    <2>10. Modest((a \o b) \o c) /\ (Warns((a \o b) \o c) <=> (tight # {} \/ full) \/ s.pgs # <<>>)
      BY <2>3, <2>4, <2>5, ConcatTells DEF Modest
    <2> DEFINE g == ((a \o b) \o c) \o d
    <2>11. Modest(g) /\ (Warns(g) <=> ((tight # {} \/ full) \/ s.pgs # <<>>) \/ s.recovering > 0)
      BY <2>6, <2>10, ConcatTells DEF Modest
    <2> HIDE DEF g
    <2>12. /\ Modest((h \o g) \o f)
           /\ Warns((h \o g) \o f) <=> (Warns(h) \/ Warns(g)) \/ Warns(f)
      BY <2>2, <2>7, <2>11, ConcatTells DEF Modest
    <2>13. Modest(snapshot_insights(s)) /\ (Warns(snapshot_insights(s)) <=> (Warns(h) \/ Warns(g)) \/ Warns(f))
      BY <2>1, <2>12 DEF g
    <2>14. QED BY <1>2, <2>2, <2>7, <2>8, <2>9, <2>11, <2>13 DEF Troubled
  <1>3. QED BY <1>1, <1>2

-----------------------------------------------------------------------------
(* What is said of the nodes.                                              *)

(* Places in a list tell its elements apart.                               *)
LEMMA Places ==
    ASSUME NEW order, order \in Seq(ToSet(order))
    PROVE  /\ \A x \in ToSet(order): PlaceIn(order, x) \in Int
           /\ \A x, y \in ToSet(order): PlaceIn(order, x) = PlaceIn(order, y) => x = y
  <1>1. ASSUME NEW x \in ToSet(order)
        PROVE  PlaceIn(order, x) \in Nat /\ order[PlaceIn(order, x)] = x
    BY <1>1, PlaceFound DEF PlaceIn, SelectInSeq
  <1>2. \A x \in ToSet(order): PlaceIn(order, x) \in Nat /\ order[PlaceIn(order, x)] = x
    BY <1>1
  <1>3. QED BY <1>2

(* An operation in flight.                                                 *)
InFlightOp == [host: ToSet(HostOrder), osd: ToSet(OsdPlaces), age: Nat]

LEMMA InFlightOps ==
    ASSUME NEW hosts \in SUBSET NodeHosts, NEW nodes \in [hosts -> NodeStates]
    PROVE  /\ InFlight(nodes) \subseteq InFlightOp
           /\ InFlight(nodes) # {} <=> \E h \in DOMAIN nodes: nodes[h].inflight # {}
  <1>1. DOMAIN nodes = hosts /\ hosts \in SUBSET ToSet(HostOrder)
    BY InsightsAssumption
  <1> DEFINE of(h) == {[host |-> h, osd |-> o.osd, age |-> o.age]: o \in nodes[h].inflight}
  <1>2. InFlight(nodes) = UNION {of(h): h \in DOMAIN nodes}
    BY DEF InFlight
  <1>3. ASSUME NEW h \in DOMAIN nodes PROVE of(h) \subseteq InFlightOp /\ (of(h) # {} <=> nodes[h].inflight # {})
    <2>1. nodes[h] \in NodeStates /\ h \in ToSet(HostOrder)
      BY <1>1
    <2>2. \A o \in nodes[h].inflight: o.osd \in ToSet(OsdPlaces) /\ o.age \in Nat
      BY <2>1, InsightsAssumption
    <2>3. \A o \in nodes[h].inflight: [host |-> h, osd |-> o.osd, age |-> o.age] \in InFlightOp
      BY <2>1, <2>2 DEF InFlightOp
    <2>4. QED BY <2>3
  <1> HIDE DEF of
  <1>4. QED BY <1>2, <1>3

LEMMA OlderOrders ==
    ASSUME NEW set \in SUBSET InFlightOp
    PROVE  Orders([x \in set |-> {y \in set: Older(y, x)}], set)
  <1> DEFINE a == [x \in set |-> 0 - x.age]
             b == [x \in set |-> PlaceIn(HostOrder, x.host)]
             c == [x \in set |-> PlaceIn(OsdPlaces, x.osd)]
             below == [x \in set |-> {y \in set: Older(y, x)}]
  <1>1. /\ \A x \in set: x.host \in ToSet(HostOrder) /\ x.osd \in ToSet(OsdPlaces) /\ x.age \in Nat
        /\ \A x, y \in set: x.host = y.host /\ x.osd = y.osd /\ x.age = y.age => x = y
    BY DEF InFlightOp
  <1>2. HostOrder \in Seq(ToSet(HostOrder)) /\ OsdPlaces \in Seq(ToSet(OsdPlaces))
    BY InsightsAssumption
  <1>3. a \in [set -> Int] /\ b \in [set -> Int] /\ c \in [set -> Int]
    BY <1>1, <1>2, Places
  <1>4. \A x, y \in set: a[x] = a[y] /\ b[x] = b[y] /\ c[x] = c[y] => x = y
    <2>1. \A x, y \in set: a[x] = a[y] => x.age = y.age
      BY <1>1
    <2>2. \A x, y \in set: b[x] = b[y] => x.host = y.host
      BY <1>1, <1>2, Places
    <2>3. \A x, y \in set: c[x] = c[y] => x.osd = y.osd
      BY <1>1, <1>2, Places
    <2> HIDE DEF a, b, c
    <2>4. QED BY <1>1, <2>1, <2>2, <2>3
  <1>5. \A x, y \in set: Older(y, x) <=> KeysLess(a, b, c, y, x)
    <2>1. \A x, y \in set: /\ a[y] < a[x] <=> y.age > x.age
                           /\ a[y] = a[x] <=> y.age = x.age
      BY <1>1
    <2>2. \A x, y \in set: b[y] = b[x] <=> y.host = x.host
      BY <1>1, <1>2, Places
    <2>3. \A x, y \in set: /\ b[y] < b[x] <=> PlaceIn(HostOrder, y.host) < PlaceIn(HostOrder, x.host)
                           /\ c[y] < c[x] <=> PlaceIn(OsdPlaces, y.osd) < PlaceIn(OsdPlaces, x.osd)
      OBVIOUS
    <2> HIDE DEF a, b, c
    <2>4. QED BY <2>1, <2>2, <2>3 DEF Older, KeysLess
  <1>6. below = [x \in set |-> {y \in set: KeysLess(a, b, c, y, x)}]
    <2> HIDE DEF a, b, c
    <2>1. QED BY <1>5
  <1> HIDE DEF a, b, c, below
  <1>7. Orders(below, set)
    BY <1>3, <1>4, <1>6, KeysOrder
  <1>8. QED BY <1>7 DEF below

(* The operations named are the oldest, four of them if there are more.    *)
OpOf(text) == [host |-> text[2], osd |-> text[3], age |-> text[4]]
Oldest(ops, all) == \A o \in all \ ops: Cardinality(ops) = 4 /\ \A n \in ops: n.age >= o.age

LEMMA OpOfText ==
    \A a, b, c: /\ OpOf(<<"in flight", a, b, c>>) = [host |-> a, osd |-> b, age |-> c]
                /\ <<"in flight", a, b, c>>[1] = "in flight"
  BY DEF OpOf

LEMMA InFlightTells ==
    ASSUME NEW hosts \in SUBSET NodeHosts, NEW nodes \in [hosts -> NodeStates]
    PROVE  LET s == inflight_op_insights(nodes) IN
           /\ IsList(s)
           /\ Warns(s) <=> \E h \in DOMAIN nodes: nodes[h].inflight # {}
           /\ \A x \in ToSet(s): x.text[1] = "in flight"
           /\ Oldest({OpOf(x.text): x \in ToSet(s)}, InFlight(nodes))
  <1> DEFINE set == InFlight(nodes)
             below == [x \in set |-> {y \in set: Older(y, x)}]
             r == Ranked(set, below)
             k == IF 4 < Len(r) THEN 4 ELSE Len(r)
             f == SubSeq(r, 1, k)
             s == [i \in DOMAIN f |-> Insight("Bad", <<"in flight", f[i].host, f[i].osd, f[i].age>>)]
  <1>1. inflight_op_insights(nodes) = s
    BY DEF inflight_op_insights, Sorted, Mapped, First
  <1>2. IsFiniteSet(set) /\ set \in SUBSET InFlightOp
    BY NodesFinite, InFlightOps
  <1>3. set # {} <=> \E h \in DOMAIN nodes: nodes[h].inflight # {}
    BY InFlightOps
  <1> HIDE DEF set
  <1>4. Orders(below, set)
    BY <1>2, OlderOrders
  <1>5. \A x, y \in set: y \in below[x] => y.age >= x.age
    <2>1. \A x, y \in set: x.age \in Nat /\ y.age \in Nat
      BY <1>2 DEF InFlightOp
    <2>2. QED BY <2>1 DEF Older
  <1> HIDE DEF below
  <1>6. /\ f \in Seq(set) /\ Len(f) = k
        /\ \A x \in set \ ToSet(f): Cardinality(ToSet(f)) = 4 /\ \A y \in ToSet(f): y \in below[x]
    BY <1>2, <1>4, FirstRanked
  <1>7. Len(r) \in Nat /\ (Len(r) > 0 <=> set # {})
    <2>1. Len(r) \in Nat /\ Len(r) = Cardinality(set)
      BY <1>2, RankedLength
    <2> HIDE DEF r
    <2>2. set # {} <=> Cardinality(set) # 0
      BY <1>2, FS_EmptySet
    <2>3. QED BY <2>1, <2>2
  <1> HIDE DEF r
  <1>8. k \in Nat /\ (k > 0 <=> set # {})
    BY <1>7
  <1> HIDE DEF k
  <1>9. DOMAIN f = 1 .. k
    BY <1>6
  <1> HIDE DEF f
  <1>10. /\ DOMAIN s = 1 .. k /\ s = [i \in DOMAIN s |-> s[i]]
         /\ \A i \in 1 .. k: /\ s[i].level \in Alarms
                             /\ s[i].text = <<"in flight", f[i].host, f[i].osd, f[i].age>>
    BY <1>9 DEF Insight, Alarms
  <1> HIDE DEF s
  <1>11. IsList(s) /\ ToSet(s) = {s[i]: i \in 1 .. k} /\ (Warns(s) <=> k > 0)
    BY <1>8, <1>10, ManyTell
  <1>12. \A i \in 1 .. k: f[i] \in set
    BY <1>6, <1>9
  <1>13. \A i \in 1 .. k: s[i].text[1] = "in flight" /\ OpOf(s[i].text) = f[i]
    <2>1. SUFFICES ASSUME NEW i \in 1 .. k PROVE s[i].text[1] = "in flight" /\ OpOf(s[i].text) = f[i]
      OBVIOUS
    <2>2. f[i] = [host |-> f[i].host, osd |-> f[i].osd, age |-> f[i].age]
      BY <1>2, <1>12 DEF InFlightOp
    <2> DEFINE a == f[i].host
               b == f[i].osd
               c == f[i].age
    <2>3. s[i].text = <<"in flight", a, b, c>>
      BY <1>10
    <2> HIDE DEF a, b, c
    <2>4. OpOf(s[i].text) = [host |-> a, osd |-> b, age |-> c] /\ s[i].text[1] = "in flight"
      BY <2>3, OpOfText
    <2>5. QED BY <2>2, <2>4 DEF a, b, c
  <1>14. {OpOf(x.text): x \in ToSet(s)} = ToSet(f)
    <2>1. ToSet(f) = {f[i]: i \in 1 .. k}
      BY <1>9 DEF ToSet
    <2>2. ASSUME NEW x \in ToSet(s) PROVE OpOf(x.text) \in ToSet(f)
      <3>1. PICK i \in 1 .. k: x = s[i]
        BY <1>11
      <3>2. OpOf(x.text) = f[i]
        BY <1>13, <3>1
      <3>3. QED BY <2>1, <3>2
    <2>3. ASSUME NEW y \in ToSet(f) PROVE \E x \in ToSet(s): OpOf(x.text) = y
      <3>1. PICK i \in 1 .. k: y = f[i]
        BY <2>1
      <3>2. s[i] \in ToSet(s) /\ OpOf(s[i].text) = y
        BY <1>11, <1>13, <3>1
      <3>3. QED BY <3>2
    <2> HIDE DEF s, f
    <2>4. QED BY <2>2, <2>3
  <1>15. Oldest(ToSet(f), set)
    <2>1. ToSet(f) \subseteq set
      BY <1>9, <1>12 DEF ToSet
    <2>2. ASSUME NEW x \in set \ ToSet(f)
          PROVE  Cardinality(ToSet(f)) = 4 /\ \A y \in ToSet(f): y.age >= x.age
      BY <1>5, <1>6, <2>1, <2>2
    <2>3. QED BY <2>2 DEF Oldest
  <1>16. \A x \in ToSet(s): x.text[1] = "in flight"
    BY <1>11, <1>13
  <1>17. Oldest({OpOf(x.text): x \in ToSet(s)}, set)
    BY <1>14, <1>15
  <1>18. QED BY <1>1, <1>3, <1>8, <1>11, <1>16, <1>17 DEF set

LEMMA NodesTell ==
    ASSUME NEW hosts \in SUBSET NodeHosts, NEW nodes \in [hosts -> NodeStates]
    PROVE  /\ Modest(io_limit_insights(nodes)) /\ Modest(node_pressure_insights(nodes))
           /\ Warns(io_limit_insights(nodes)) <=> \E h \in DOMAIN nodes: nodes[h].limits
           /\ Warns(node_pressure_insights(nodes)) <=> \E h \in DOMAIN nodes: nodes[h].stall >= 5
  <1>1. /\ Modest(io_limit_insights(nodes))
        /\ Warns(io_limit_insights(nodes)) <=> \E h \in DOMAIN nodes: nodes[h].limits
    <2> DEFINE set == {h \in DOMAIN nodes: nodes[h].limits}
               below == [x \in set |-> {y \in set: PlaceIn(HostOrder, y) < PlaceIn(HostOrder, x)}]
               r == Ranked(set, below)
               s == [i \in DOMAIN r |-> Insight("Bad", <<"write limit", r[i]>>)]
    <2>1. io_limit_insights(nodes) = s
      BY DEF io_limit_insights, Sorted, Mapped
    <2>2. IsFiniteSet(set)
      BY NodesFinite
    <2> HIDE DEF set, below
    <2>3. Cardinality(set) \in Nat /\ DOMAIN r = 1 .. Cardinality(set)
      BY <2>2, RankedLength
    <2>4. Cardinality(set) > 0 <=> set # {}
      BY <2>2, <2>3, FS_EmptySet
    <2> HIDE DEF r
    <2>5. \A i \in DOMAIN r: <<"write limit", r[i]>>[1] \notin Claims
      BY DEF Claims
    <2>6. /\ DOMAIN s = 1 .. Cardinality(set) /\ s = [i \in DOMAIN s |-> s[i]]
          /\ \A i \in 1 .. Cardinality(set): s[i].level \in Alarms /\ s[i].text[1] \notin Claims
      BY <2>3, <2>5 DEF Insight, Alarms
    <2> HIDE DEF s
    <2>7. Modest(s) /\ (Warns(s) <=> Cardinality(set) > 0)
      BY <2>3, <2>6, ManyTell
    <2>8. QED BY <2>1, <2>4, <2>7 DEF set
  <1>2. /\ Modest(node_pressure_insights(nodes))
        /\ Warns(node_pressure_insights(nodes)) <=> \E h \in DOMAIN nodes: nodes[h].stall >= 5
    <2> DEFINE set == {h \in DOMAIN nodes: nodes[h].stall >= 5}
               Before(a, b) == \/ nodes[a].stall > nodes[b].stall
                               \/ nodes[a].stall = nodes[b].stall /\ PlaceIn(HostOrder, a) < PlaceIn(HostOrder, b)
               below == [x \in set |-> {y \in set: Before(y, x)}]
               r == Ranked(set, below)
               k == IF 2 < Len(r) THEN 2 ELSE Len(r)
               f == SubSeq(r, 1, k)
               s == [i \in DOMAIN f |-> Insight(IF nodes[f[i]].stall >= 20 THEN "Bad" ELSE "Warn",
                                                <<"stalled", f[i], nodes[f[i]].stall>>)]
    <2>1. node_pressure_insights(nodes) = s
      BY DEF node_pressure_insights, Sorted, Mapped, First
    <2>2. IsFiniteSet(set)
      BY NodesFinite
    <2> HIDE DEF set, below
    <2>3. Cardinality(set) \in Nat /\ Len(r) = Cardinality(set)
      BY <2>2, RankedLength
    <2> HIDE DEF r
    <2>4. Len(r) > 0 <=> set # {}
      BY <2>2, <2>3, FS_EmptySet
    <2>5. k \in Nat /\ (k > 0 <=> Len(r) > 0)
      BY <2>3
    <2>6. f = [i \in 1 .. k |-> r[1 + i - 1]]
      BY <2>5
    <2> HIDE DEF k
    <2>7. DOMAIN f = 1 .. k
      BY <2>6
    <2> HIDE DEF f
    <2>8. \A i \in DOMAIN f: <<"stalled", f[i], nodes[f[i]].stall>>[1] \notin Claims
      BY DEF Claims
    <2>9. /\ DOMAIN s = 1 .. k /\ s = [i \in DOMAIN s |-> s[i]]
          /\ \A i \in 1 .. k: s[i].level \in Alarms /\ s[i].text[1] \notin Claims
      BY <2>7, <2>8 DEF Insight, Alarms
    <2> HIDE DEF s
    <2>10. Modest(s) /\ (Warns(s) <=> k > 0)
      BY <2>5, <2>9, ManyTell
    <2>11. QED BY <2>1, <2>4, <2>5, <2>10 DEF set
  <1>3. QED BY <1>1, <1>2

-----------------------------------------------------------------------------
(* What is said of the rows of osdtrace.                                   *)

TraceRows(S) == \A r \in S: r.ops \in Nat /\ r.max \in Nat /\ r.part \in [ToSet(Components) -> Nat]

LEMMA ComponentNames ==
    /\ Components \in Seq(ToSet(Components)) /\ Len(Components) = 7
    /\ "peer" \in ToSet(Components) /\ "queue" \in ToSet(Components) /\ "recv" \in ToSet(Components)
  <1>1. Components \in Seq({"peer", "kv_commit", "bluestore", "queue", "recv", "dispatch", "throttle"})
    BY DEF Components
  <1>6. Len(Components) = 7
    BY DEF Components
  <1>2. IsList(Components)
    <2> HIDE DEF Components
    <2>1. QED BY <1>1, ListOf
  <1>3. /\ Components[1] = "peer" /\ Components[4] = "queue" /\ Components[5] = "recv"
        /\ 1 \in DOMAIN Components /\ 4 \in DOMAIN Components /\ 5 \in DOMAIN Components
    BY DEF Components
  <1> HIDE DEF Components
  <1>4. \A i \in DOMAIN Components: Components[i] \in ToSet(Components)
    BY DEF ToSet
  <1>5. QED BY <1>2, <1>3, <1>4, <1>6 DEF IsList

LEMMA DominantComponent ==
    ASSUME NEW row, row.part \in [ToSet(Components) -> Nat]
    PROVE  /\ dominant_component(row) \in ToSet(Components)
           /\ \A c \in ToSet(Components): row.part[c] <= row.part[dominant_component(row)]
  <1> DEFINE n == Len(Components)
             v == [i \in 1 .. n |-> row.part[Components[i]]]
             t == Max(Tops(v, n))
             d == dominant_component(row)
  <1>1. n \in Nat \ {0} /\ DOMAIN Components = 1 .. n
    <2>1. Components \in Seq(ToSet(Components)) /\ Len(Components) = 7
      BY ComponentNames
    <2> HIDE DEF Components
    <2>2. QED BY <2>1
  <1>2. ToSet(Components) = {Components[i]: i \in 1 .. n}
    BY <1>1 DEF ToSet
  <1>3. d = Components[t]
    BY <1>1 DEF dominant_component, LastMax, Tops
  <1> HIDE DEF n
  <1>4. v \in [1 .. n -> Nat] /\ \A i \in 1 .. n: v[i] = row.part[Components[i]]
    BY <1>2
  <1> HIDE DEF v
  <1>5. t \in 1 .. n /\ \A j \in 1 .. n: v[j] <= v[t]
    BY <1>1, <1>4, LastTop
  <1> HIDE DEF t, d
  <1>6. d \in ToSet(Components) /\ \A c \in ToSet(Components): row.part[c] <= row.part[d]
    BY <1>2, <1>3, <1>4, <1>5
  <1>7. QED BY <1>6 DEF d

LEMMA ComponentWorst ==
    ASSUME NEW S, TraceRows(S), NEW active \in Seq(S), active # <<>>, NEW c \in ToSet(Components)
    PROVE  component_worst(active, c) \in ToSet(active)
  <1> DEFINE n == Len(active)
             v == [i \in 1 .. n |-> active[i].part[c]]
             t == Max(Tops(v, n))
  <1>1. n \in Nat \ {0} /\ DOMAIN active = 1 .. n
    OBVIOUS
  <1>2. component_worst(active, c) = active[t]
    BY <1>1 DEF component_worst, LastMax, Tops
  <1>3. \A i \in 1 .. n: active[i] \in S
    OBVIOUS
  <1> HIDE DEF n
  <1>4. v \in [1 .. n -> Nat]
    BY <1>3 DEF TraceRows
  <1> HIDE DEF v
  <1>5. t \in 1 .. n
    BY <1>1, <1>4, LastTop
  <1>6. QED BY <1>1, <1>2, <1>5 DEF ToSet

(* The row with the largest part of all.                                   *)
LEMMA LargestPart ==
    ASSUME NEW S, TraceRows(S), NEW active \in Seq(S), active # <<>>
    PROVE  LET largest == LastMax(active, LAMBDA r: r.part[dominant_component(r)])
               most == largest.part[dominant_component(largest)]
           IN most \in Nat /\ (most >= SLOW <=> \E r \in ToSet(active): \E c \in ToSet(Components): r.part[c] >= SLOW)
  <1> DEFINE largest == LastMax(active, LAMBDA r: r.part[dominant_component(r)])
             most == largest.part[dominant_component(largest)]
             n == Len(active)
             v == [i \in 1 .. n |-> active[i].part[dominant_component(active[i])]]
             t == Max(Tops(v, n))
  <1>1. n \in Nat \ {0} /\ DOMAIN active = 1 .. n
    OBVIOUS
  <1>2. \A i \in 1 .. n: active[i] \in S
    OBVIOUS
  <1>3. largest = active[t]
    BY <1>1 DEF LastMax, Tops
  <1> HIDE DEF n, largest
  <1>4. ASSUME NEW i \in 1 .. n
        PROVE  /\ v[i] \in Nat /\ dominant_component(active[i]) \in ToSet(Components)
               /\ \A c \in ToSet(Components): active[i].part[c] <= v[i] /\ active[i].part[c] \in Nat
    <2>1. active[i].part \in [ToSet(Components) -> Nat]
      BY <1>2 DEF TraceRows
    <2>2. /\ dominant_component(active[i]) \in ToSet(Components)
          /\ \A c \in ToSet(Components): active[i].part[c] <= active[i].part[dominant_component(active[i])]
      BY <2>1, DominantComponent
    <2>3. QED BY <2>1, <2>2
  <1>5. v \in [1 .. n -> Nat] /\ \A i \in 1 .. n: v[i] = active[i].part[dominant_component(active[i])]
    BY <1>4
  <1> HIDE DEF v
  <1>6. t \in 1 .. n /\ \A j \in 1 .. n: v[j] <= v[t]
    BY <1>1, <1>5, LastTop
  <1> HIDE DEF t
  <1>7. most = v[t] /\ most \in Nat
    BY <1>3, <1>4, <1>5, <1>6
  <1>8. ToSet(active) = {active[i]: i \in 1 .. n}
    BY <1>1 DEF ToSet
  <1>9. ASSUME NEW r \in ToSet(active), NEW c \in ToSet(Components), r.part[c] >= SLOW PROVE most >= SLOW
    <2>1. PICK i \in 1 .. n: r = active[i]
      BY <1>8
    <2>2. r.part[c] <= v[i] /\ v[i] <= v[t] /\ r.part[c] \in Nat /\ v[i] \in Nat /\ v[t] \in Nat
      BY <1>4, <1>6, <2>1
    <2>3. QED BY <1>7, <1>9, <2>2 DEF SLOW
  <1>10. most >= SLOW => \E r \in ToSet(active): \E c \in ToSet(Components): r.part[c] >= SLOW
    <2>1. dominant_component(largest) \in ToSet(Components) /\ largest \in ToSet(active)
      BY <1>3, <1>4, <1>6, <1>8
    <2>2. QED BY <2>1
  <1>11. QED BY <1>7, <1>9, <1>10 DEF largest

(* The slowest row, of equally slow and busy ones the last.                *)
LEMMA WorstRow ==
    ASSUME NEW S, TraceRows(S), NEW active \in Seq(S), active # <<>>
    PROVE  \E w \in Slowest(active): /\ worst_row(active) = active[w] /\ Slowest(active) = {w}
                                     /\ \A r \in ToSet(active): r.max <= active[w].max
  <1> DEFINE n == Len(active)
             m == [i \in 1 .. n |-> active[i].max]
             ixs == {i \in DOMAIN active: \A o \in ToSet(active): o.max <= active[i].max}
             slowest == Picked(active, ixs)
             worst == worst_row(active)
  <1>1. n \in Nat \ {0} /\ DOMAIN active = 1 .. n
    OBVIOUS
  <1>2. \A i \in 1 .. n: active[i] \in S /\ active[i].max \in Nat /\ active[i].ops \in Nat
    <2>1. \A i \in 1 .. n: active[i] \in S
      BY <1>1
    <2>2. QED BY <2>1 DEF TraceRows
  <1>3. ToSet(active) = {active[i]: i \in 1 .. n}
    BY <1>1 DEF ToSet
  <1>4. worst = LastMax(slowest, LAMBDA r: r.ops)
    BY DEF worst_row, Where
  <1> HIDE DEF n, worst
  <1>5. ixs # {} /\ ixs \in SUBSET (1 .. n)
    <2>1. m \in [1 .. n -> Nat] /\ \A i \in 1 .. n: m[i] = active[i].max
      BY <1>2
    <2> HIDE DEF m
    <2>2. PICK i \in 1 .. n: \A j \in 1 .. n: m[j] <= m[i]
      BY <1>1, <2>1, TopsExist DEF Tops
    <2>3. i \in ixs
      BY <1>1, <1>3, <2>1, <2>2
    <2>4. QED BY <1>1, <2>3
  <1>6. /\ \A i \in ixs: \A j \in 1 .. n: active[j].max <= active[i].max
        /\ \A j \in (1 .. n) \ ixs: \E k \in 1 .. n: ~(active[k].max <= active[j].max)
    BY <1>1, <1>3
  <1> HIDE DEF ixs
  <1>7. PICK order \in Seq(Nat): /\ Increasing(order) /\ ToSet(order) = ixs
                                 /\ slowest = [k \in DOMAIN order |-> active[order[k]]]
    <2>1. ixs \in SUBSET DOMAIN active
      BY <1>1, <1>5
    <2>2. QED BY <2>1, IndexesInOrder
  <1>8. slowest \in Seq(S) /\ slowest # <<>>
    BY <1>1, <1>5, PickedSeq, FilterEmpty
  <1>9. /\ DOMAIN slowest = DOMAIN order
        /\ \A k \in DOMAIN order: slowest[k] = active[order[k]] /\ order[k] \in ixs /\ order[k] \in Nat /\ k \in Nat
        /\ \A i \in ixs: \E k \in DOMAIN order: order[k] = i
    BY <1>7 DEF ToSet
  <1> HIDE DEF slowest
  <1> DEFINE len == Len(slowest)
             v == [k \in 1 .. len |-> slowest[k].ops]
             t == Max(Tops(v, len))
  <1>10. len \in Nat \ {0} /\ DOMAIN slowest = 1 .. len
    BY <1>8
  <1>11. worst = slowest[t]
    BY <1>4, <1>10 DEF LastMax, Tops
  <1> HIDE DEF len
  <1>12. v \in [1 .. len -> Nat] /\ \A k \in 1 .. len: v[k] = active[order[k]].ops
    BY <1>2, <1>5, <1>9, <1>10
  <1> HIDE DEF v
  <1>20. t \in 1 .. len /\ \A j \in 1 .. len: v[j] <= v[t] /\ (j > t => v[j] < v[t])
    BY <1>10, <1>12, LastTop
  <1> HIDE DEF t
  <1> DEFINE w == order[t]
  <1>13. w \in ixs /\ w \in 1 .. n /\ worst = active[w]
    BY <1>5, <1>9, <1>10, <1>11, <1>20
  <1>14. ASSUME NEW j \in 1 .. n
         PROVE  ~Slower(active[w], active[j]) /\ (j > w => Slower(active[j], active[w]))
    <2>1. active[j].max <= active[w].max /\ active[j].max \in Nat /\ active[w].max \in Nat
      BY <1>2, <1>6, <1>13
    <2>2. CASE j \notin ixs
      <3>1. PICK k \in 1 .. n: ~(active[k].max <= active[j].max)
        BY <1>6, <2>2
      <3>2. active[k].max <= active[w].max /\ active[k].max \in Nat
        BY <1>2, <1>6, <1>13
      <3>3. active[j].max < active[w].max
        BY <2>1, <3>1, <3>2
      <3>4. ~(active[w].max < active[j].max) /\ active[w].max # active[j].max
        BY <2>1, <3>3
      <3>5. QED BY <3>3, <3>4, Zenon DEF Slower
    <2>3. CASE j \in ixs
      <3>1. active[j].max = active[w].max
        <4>1. active[w].max <= active[j].max
          BY <1>6, <1>13, <2>3
        <4>2. QED BY <2>1, <4>1
      <3>2. PICK l \in DOMAIN order: order[l] = j
        BY <1>9, <2>3
      <3>3. active[j].ops <= active[w].ops /\ (l > t => active[j].ops < active[w].ops)
        <4>1. l \in 1 .. len
          BY <1>9, <1>10
        <4>2. v[l] <= v[t] /\ (l > t => v[l] < v[t])
          BY <1>20, <4>1, Zenon
        <4>3. v[l] = active[j].ops /\ v[t] = active[w].ops
          BY <1>12, <1>20, <3>2, <4>1
        <4>4. QED BY <4>2, <4>3, Zenon
      <3>4. j > w => l > t
        <4>1. l \in Nat /\ t \in Nat /\ t \in DOMAIN order /\ order[l] \in Nat /\ order[t] \in Nat
          BY <1>9, <1>10, <1>20
        <4>2. l < t => order[l] < order[t]
          BY <1>7, <4>1 DEF Increasing
        <4>3. SUFFICES ASSUME j > w, l <= t PROVE FALSE
          BY <4>1
        <4>4. order[l] <= order[t]
          <5>1. CASE l = t
            BY <4>1, <5>1
          <5>2. CASE l < t
            BY <4>1, <4>2, <5>2
          <5>3. QED BY <4>1, <4>3, <5>1, <5>2
        <4>5. QED BY <3>2, <4>1, <4>3, <4>4
      <3>5. active[j].ops \in Nat /\ active[w].ops \in Nat
        BY <1>2, <1>13
      <3>6. ~(active[w].max < active[j].max) /\ ~(active[w].ops < active[j].ops)
        <4>1. \A a, b \in Nat: a <= b => ~(b < a)
          OBVIOUS
        <4>2. QED BY <2>1, <3>3, <3>5, <4>1, Zenon
      <3>7. QED BY <3>1, <3>3, <3>4, <3>6, Zenon DEF Slower
    <2>4. QED BY <2>2, <2>3
  <1> HIDE DEF w
  <1>15. w \in Slowest(active)
    BY <1>1, <1>13, <1>14 DEF Slowest
  <1>16. ASSUME NEW i \in Slowest(active) PROVE i = w
    <2>1. i \in 1 .. n /\ \A j \in 1 .. n: ~Slower(active[i], active[j]) /\ (j > i => Slower(active[j], active[i]))
      BY <1>1 DEF Slowest
    <2>2. ~(w > i) /\ ~(i > w)
      BY <1>13, <1>14, <2>1
    <2>3. QED BY <1>13, <2>1, <2>2
  <1>17. \A r \in ToSet(active): r.max <= active[w].max
    BY <1>3, <1>6, <1>13
  <1>18. Slowest(active) = {w}
    BY <1>15, <1>16
  <1>19. QED BY <1>13, <1>15, <1>17, <1>18 DEF worst

(* What the rules of the rows claim of them.                               *)
RowsHonest(x, active) ==
    /\ x.text[1] = "last" => \A r \in ToSet(active): r.max <= x.text[5]
    /\ x.text[1] = "no obvious slow OSD" => \A r \in ToSet(active): r.max < SLOW
    /\ x.text[1] \notin {"in flight", "kfstrace", "radostrace"}

LEMMA HostTells ==
    ASSUME NEW node, NEW host
    PROVE  Modest(host_insights(node, host)) /\ (Warns(host_insights(node, host)) <=> Loaded(node))
  <1>0. /\ "Warn" \in Severities /\ "Bad" \in Severities /\ "Warn" \in Alarms /\ "Bad" \in Alarms
    BY DEF Alarms, Severities
  <1>1. \A u, v: <<"CPU", u, v>>[1] \notin Claims /\ <<"memory", u, v>>[1] \notin Claims
    BY DEF Claims
  <1>2. CASE node = None
    BY <1>2, NoneTells DEF host_insights, Loaded
  <1>3. CASE node # None /\ node.cpu >= 85
    <2> DEFINE text == <<"CPU", host, node.cpu>>
    <2>1. host_insights(node, host) = <<Insight("Bad", text)>> /\ Loaded(node)
      BY <1>3 DEF host_insights, Loaded
    <2>2. text[1] \notin Claims
      BY <1>1
    <2> HIDE DEF text
    <2>3. QED BY <1>0, <2>1, <2>2, OneTells
  <1>4. CASE node # None /\ ~(node.cpu >= 85)
    <2> DEFINE text == <<"memory", host, node.mem>>
    <2>1. host_insights(node, host) = Given(node.mem >= 85, <<Insight("Warn", text)>>) /\ (Loaded(node) <=> node.mem >= 85)
      BY <1>4 DEF host_insights, Loaded
    <2>2. text[1] \notin Claims
      BY <1>1
    <2> HIDE DEF text
    <2>3. QED BY <1>0, <2>1, <2>2, OneTells, NoneTells DEF Given
  <1>5. QED BY <1>2, <1>3, <1>4

LEMMA OsdTells ==
    ASSUME NEW nodes, NEW S, TraceRows(S), NEW active \in Seq(S), active # <<>>
    PROVE  LET s == osd_trace_insights(nodes, active) IN
           /\ IsList(s)
           /\ Warns(s) <=> \/ \E r \in ToSet(active): r.max >= SLOW \/ \E c \in ToSet(Components): r.part[c] >= SLOW
                           \/ \E i \in Slowest(active): Loaded(node_for_host(nodes, active[i].host))
           /\ \A x \in ToSet(s): RowsHonest(x, active)
  <1> DEFINE
        worst == worst_row(active)
        queue == component_worst(active, "queue")
        recv == component_worst(active, "recv")
        leader == IF queue.part["queue"] > recv.part["recv"] THEN queue.part["queue"] ELSE recv.part["recv"]
        waiting == component_worst(active, "peer")
        wait == waiting.part["peer"]
        peers == Where(active, LAMBDA r: r.osd = waiting.slow_peer)
        verdict == peer_wait_verdict(IF peers = <<>> THEN None ELSE Head(peers))
        largest == LastMax(active, LAMBDA r: r.part[dominant_component(r)])
        dominant == dominant_component(largest)
        most == largest.part[dominant]
        slow == Len(Where(active, LAMBDA r: r.max >= SLOW))
        ops == FoldLeft(LAMBDA sum, r: sum + r.ops, 0, active)
        told == wait >= SLOW /\ waiting.slow_peer # None
        t1 == <<"last", ops, Len(active), worst.osd, worst.max, worst.avg>>
        t2 == <<"leaders", queue.osd, queue.part["queue"], recv.osd, recv.part["recv"]>>
        t3 == <<"peer", waiting.osd, wait, waiting.slow_peer, verdict>>
        t4 == <<"largest", dominant, largest.osd, most>>
        t5 == <<"busiest PG", worst.osd, worst.hot_pg>>
        p1 == <<Insight(insight_level_for_latency(worst.max), t1)>>
        p2 == Given(leader >= SLOW, <<Insight(insight_level_for_latency(leader), t2)>>)
        p3 == Given(told, <<Insight(insight_level_for_latency(wait), t3)>>)
        p4 == IF most > 0 THEN <<Insight(insight_level_for_latency(most), t4)>>
              ELSE Given(worst.max >= SLOW, <<Insight("Warn", <<"components are empty">>)>>)
        p5 == Given(worst.hot_pg # None, <<Insight("Info", t5)>>)
        p6 == host_insights(node_for_host(nodes, worst.host), worst.host)
        p7 == IF slow >= 2 THEN <<Insight("Warn", <<"OSDs over 10ms", slow>>)>>
              ELSE Given(worst.max < SLOW, <<Insight("Ok", <<"no obvious slow OSD">>)>>)
        slowrow == \E r \in ToSet(active): r.max >= SLOW
        slowpart == \E r \in ToSet(active): \E c \in ToSet(Components): r.part[c] >= SLOW
        busy == Loaded(node_for_host(nodes, worst.host))
  <1>1. osd_trace_insights(nodes, active) = (((((p1 \o p2) \o p3) \o p4) \o p5) \o p6) \o p7
    BY DEF osd_trace_insights
  <1>2. /\ "Ok" \in Severities /\ "Info" \in Severities /\ "Warn" \in Severities /\ "Bad" \in Severities
        /\ "Ok" \notin Alarms /\ "Info" \notin Alarms /\ "Warn" \in Alarms /\ "Bad" \in Alarms
    BY DEF Severities, Alarms
  <1>3. PICK w \in Slowest(active): /\ worst = active[w] /\ Slowest(active) = {w}
                                    /\ \A r \in ToSet(active): r.max <= active[w].max
    BY WorstRow
  <1>4. worst \in ToSet(active) /\ worst \in S
    <2>1. w \in DOMAIN active
      BY <1>3 DEF Slowest
    <2>2. QED BY <1>3, <2>1 DEF ToSet
  <1>5. busy <=> \E i \in Slowest(active): Loaded(node_for_host(nodes, active[i].host))
    BY <1>3
  <1> HIDE DEF worst
  <1>6. /\ worst.max \in Nat /\ \A r \in ToSet(active): r.max <= worst.max /\ r.max \in Nat
    <2>1. ToSet(active) \subseteq S
      BY DEF ToSet
    <2>2. QED BY <1>3, <1>4, <2>1 DEF TraceRows
  <1>7. worst.max >= SLOW <=> slowrow
    BY <1>4, <1>6 DEF SLOW
  <1>8. /\ "peer" \in ToSet(Components) /\ "queue" \in ToSet(Components) /\ "recv" \in ToSet(Components)
        /\ queue \in ToSet(active) /\ recv \in ToSet(active) /\ waiting \in ToSet(active)
    BY ComponentNames, ComponentWorst
  <1>9. /\ leader \in Nat /\ (leader >= SLOW => slowpart)
        /\ wait \in Nat /\ (wait >= SLOW => slowpart)
    <2>1. ToSet(active) \subseteq S
      BY DEF ToSet
    <2>2. \A r \in ToSet(active): \A c \in ToSet(Components): r.part[c] \in Nat
      BY <2>1 DEF TraceRows
    <2> HIDE DEF queue, recv, waiting
    <2>3. queue.part["queue"] \in Nat /\ recv.part["recv"] \in Nat /\ waiting.part["peer"] \in Nat
      BY <1>8, <2>2
    <2>4. (queue.part["queue"] >= SLOW \/ recv.part["recv"] >= SLOW \/ waiting.part["peer"] >= SLOW) => slowpart
      BY <1>8
    <2>5. QED BY <2>3, <2>4
  <1>10. most \in Nat /\ (most >= SLOW <=> slowpart)
    BY LargestPart
  <1>11. slow >= 2 => slowrow
    <2> DEFINE ixs == {i \in DOMAIN active: active[i].max >= SLOW}
    <2>1. slow = Len(Picked(active, ixs))
      BY DEF Where
    <2>2. ixs \in SUBSET DOMAIN active
      OBVIOUS
    <2>3. ixs # {} => slowrow
      BY DEF ToSet
    <2> HIDE DEF ixs, slow
    <2>4. slow \in Nat /\ (slow > 0 <=> ixs # {})
      BY <2>1, <2>2, FilterEmpty
    <2>5. QED BY <2>3, <2>4
  <1> HIDE DEF queue, recv, leader, waiting, wait, peers, verdict, largest, dominant, most, slow, ops, told
  <1>12. /\ IsList(p1) /\ (Warns(p1) <=> slowrow)
         /\ \A x \in ToSet(p1): RowsHonest(x, active)
    <2>1. insight_level_for_latency(worst.max) \in Severities
      BY LatencyLevel
    <2>2. t1[1] = "last" /\ t1[5] = worst.max
      OBVIOUS
    <2> DEFINE x == Insight(insight_level_for_latency(worst.max), t1)
    <2> HIDE DEF t1
    <2>3. IsList(p1) /\ (Warns(p1) <=> slowrow)
      BY <1>6, <1>7, <2>1, OneTells, LatencyWarns
    <2>4. x.text = t1
      BY DEF Insight
    <2>5. p1 = <<x>>
      OBVIOUS
    <2> HIDE DEF x, p1
    <2>6. ToSet(p1) = {x}
      BY <2>5 DEF ToSet
    <2>7. RowsHonest(x, active)
      BY <1>6, <2>2, <2>4 DEF RowsHonest
    <2>8. QED BY <2>3, <2>6, <2>7
  <1>13. Modest(p2) /\ (Warns(p2) => slowpart)
    <2>1. insight_level_for_latency(leader) \in Severities
      BY LatencyLevel
    <2>2. t2[1] \notin Claims
      BY DEF Claims
    <2> HIDE DEF t2
    <2>3. QED BY <1>9, <2>1, <2>2, OneTells, NoneTells DEF Given
  <1>14. Modest(p3) /\ (Warns(p3) => slowpart)
    <2>1. insight_level_for_latency(wait) \in Severities
      BY LatencyLevel
    <2>2. t3[1] \notin Claims
      BY DEF Claims
    <2>3. told => wait >= SLOW
      BY DEF told
    <2> HIDE DEF t3
    <2>4. QED BY <1>9, <2>1, <2>2, <2>3, OneTells, NoneTells DEF Given
  <1>15. Modest(p4) /\ (slowpart => Warns(p4)) /\ (Warns(p4) => slowpart \/ slowrow)
    <2>1. insight_level_for_latency(most) \in Severities
      BY LatencyLevel
    <2>2. t4[1] \notin Claims
      BY DEF Claims
    <2>3. CASE most > 0
      <3> HIDE DEF t4, slowpart, slowrow
      <3>1. QED BY <1>10, <2>1, <2>2, <2>3, OneTells, LatencyWarns
    <2>4. CASE ~(most > 0)
      <3>1. ~slowpart
        BY <1>10, <2>4 DEF SLOW
      <3> DEFINE t == <<"components are empty">>
      <3>2. t[1] \notin Claims
        BY DEF Claims
      <3>3. p4 = Given(worst.max >= SLOW, <<Insight("Warn", t)>>)
        BY <2>4
      <3> HIDE DEF t, p4, slowpart, slowrow
      <3>4. QED BY <1>2, <1>7, <3>1, <3>2, <3>3, OneTells, NoneTells DEF Given
    <2>5. QED BY <2>3, <2>4
  <1>16. Modest(p5) /\ ~Warns(p5)
    <2>1. t5[1] \notin Claims
      BY DEF Claims
    <2> HIDE DEF t5
    <2>2. QED BY <1>2, <2>1, OneTells, NoneTells DEF Given
  <1>17. Modest(p6) /\ (Warns(p6) <=> busy)
    BY HostTells
  <1>18. /\ IsList(p7) /\ (Warns(p7) => slowrow)
         /\ \A x \in ToSet(p7): RowsHonest(x, active)
    <2>1. CASE slow >= 2
      <3> DEFINE t == <<"OSDs over 10ms", slow>>
      <3>1. t[1] \notin Claims
        BY DEF Claims
      <3>2. p7 = <<Insight("Warn", t)>>
        BY <2>1
      <3> HIDE DEF t, p7
      <3>3. Modest(p7)
        BY <1>2, <3>1, <3>2, OneTells
      <3>4. QED BY <1>11, <2>1, <3>3 DEF Modest, RowsHonest, Claims
    <2>2. CASE ~(slow >= 2) /\ worst.max < SLOW
      <3> DEFINE t == <<"no obvious slow OSD">>
                 x == Insight("Ok", t)
      <3>1. t[1] = "no obvious slow OSD" /\ x.text = t
        BY DEF Insight
      <3>2. p7 = <<x>>
        BY <2>2 DEF Given
      <3> HIDE DEF t, p7
      <3>3. IsList(p7) /\ ~Warns(p7)
        BY <1>2, <3>2, OneTells
      <3> HIDE DEF x
      <3>4. ToSet(p7) = {x}
        BY <3>2 DEF ToSet
      <3>5. \A r \in ToSet(active): r.max < SLOW
        BY <1>6, <2>2 DEF SLOW
      <3>6. RowsHonest(x, active)
        BY <3>1, <3>5 DEF RowsHonest
      <3>7. QED BY <3>3, <3>4, <3>6
    <2>3. CASE ~(slow >= 2) /\ ~(worst.max < SLOW)
      <3>1. p7 = <<>>
        BY <2>3 DEF Given
      <3> HIDE DEF p7
      <3>2. QED BY <3>1, NoneTells DEF ToSet
    <2>4. QED BY <2>1, <2>2, <2>3
  <1>19. \A s: Modest(s) => IsList(s) /\ \A x \in ToSet(s): RowsHonest(x, active)
    BY DEF Modest, RowsHonest, Claims
  <1> HIDE DEF p1, p2, p3, p4, p5, p6, p7, slowrow, slowpart, busy
  <1> DEFINE q == ((p1 \o p2) \o p3) \o p4
             r == (q \o p5) \o p6
  <1>20. /\ IsList(q) /\ (Warns(q) <=> slowrow \/ slowpart)
         /\ ToSet(q) = ((ToSet(p1) \cup ToSet(p2)) \cup ToSet(p3)) \cup ToSet(p4)
    <2>1. /\ IsList(p1 \o p2) /\ ToSet(p1 \o p2) = ToSet(p1) \cup ToSet(p2)
          /\ Warns(p1 \o p2) <=> Warns(p1) \/ Warns(p2)
      BY <1>12, <1>13, <1>19, ListConcat, ConcatTells
    <2> DEFINE q1 == p1 \o p2
    <2> HIDE DEF q1
    <2>2. /\ IsList(q1 \o p3) /\ ToSet(q1 \o p3) = ToSet(q1) \cup ToSet(p3)
          /\ Warns(q1 \o p3) <=> Warns(q1) \/ Warns(p3)
      BY <1>14, <1>19, <2>1, ListConcat, ConcatTells DEF q1
    <2> DEFINE q2 == q1 \o p3
    <2> HIDE DEF q2
    <2>3. /\ IsList(q2 \o p4) /\ ToSet(q2 \o p4) = ToSet(q2) \cup ToSet(p4)
          /\ Warns(q2 \o p4) <=> Warns(q2) \/ Warns(p4)
      BY <1>15, <1>19, <2>2, ListConcat, ConcatTells DEF q2
    <2>4. q = q2 \o p4
      BY DEF q1, q2
    <2>5. QED BY <1>12, <1>13, <1>14, <1>15, <2>1, <2>2, <2>3, <2>4 DEF q1, q2
  <1> HIDE DEF q
  <1>21. /\ IsList(r) /\ (Warns(r) <=> (slowrow \/ slowpart) \/ busy)
         /\ ToSet(r) = (ToSet(q) \cup ToSet(p5)) \cup ToSet(p6)
    <2>1. /\ IsList(q \o p5) /\ ToSet(q \o p5) = ToSet(q) \cup ToSet(p5)
          /\ Warns(q \o p5) <=> Warns(q) \/ Warns(p5)
      BY <1>16, <1>19, <1>20, ListConcat, ConcatTells
    <2> DEFINE q1 == q \o p5
    <2> HIDE DEF q1
    <2>2. /\ IsList(q1 \o p6) /\ ToSet(q1 \o p6) = ToSet(q1) \cup ToSet(p6)
          /\ Warns(q1 \o p6) <=> Warns(q1) \/ Warns(p6)
      BY <1>17, <1>19, <2>1, ListConcat, ConcatTells DEF q1
    <2>3. QED BY <1>16, <1>17, <1>20, <2>1, <2>2 DEF q1
  <1> HIDE DEF r
  <1>22. /\ IsList(r \o p7) /\ ToSet(r \o p7) = ToSet(r) \cup ToSet(p7)
         /\ Warns(r \o p7) <=> (slowrow \/ slowpart) \/ busy
    <2>1. /\ IsList(r \o p7) /\ ToSet(r \o p7) = ToSet(r) \cup ToSet(p7)
          /\ Warns(r \o p7) <=> Warns(r) \/ Warns(p7)
      BY <1>18, <1>21, ListConcat, ConcatTells
    <2>2. QED BY <1>18, <1>21, <2>1
  <1>23. \A x \in ToSet(r \o p7): RowsHonest(x, active)
    BY <1>12, <1>13, <1>14, <1>15, <1>16, <1>17, <1>18, <1>19, <1>20, <1>21, <1>22
  <1>24. osd_trace_insights(nodes, active) = r \o p7
    BY <1>1 DEF r, q
  <1>25. slowrow \/ slowpart <=> \E x \in ToSet(active): x.max >= SLOW \/ \E c \in ToSet(Components): x.part[c] >= SLOW
    BY DEF slowrow, slowpart
  <1>26. QED BY <1>5, <1>22, <1>23, <1>24, <1>25

-----------------------------------------------------------------------------
(* What is said of the events of the client tracers.                       *)

ClientEvents(E) == \A e \in E: e.name \in ToSet(OpPlaces) /\ e.us \in Nat

(* The events of one name, and their row.                                  *)
EventsOf(events, name) == Where(events, LAMBDA e: e.name = name)
NameRow(events, name) == ClientRow(name, EventsOf(events, name))
NamesOf(events) == {e.name: e \in ToSet(events)}
NameRows(events) == {NameRow(events, name): name \in NamesOf(events)}

LEMMA RowTells ==
    ASSUME NEW E, ClientEvents(E), NEW events \in Seq(E), NEW name
    PROVE  LET row == NameRow(events, name) IN
           /\ row.name = name /\ row.count \in Nat /\ row.max \in Nat
           /\ \A e \in ToSet(events): e.name = name => e.us <= row.max
           /\ row.max = 0 \/ \E e \in ToSet(events): e.us = row.max
  <1> DEFINE ixs == {i \in DOMAIN events: events[i].name = name}
             my == EventsOf(events, name)
             n == Len(my)
             us == [i \in 1 .. n |-> my[i].us]
             set == {e.us: e \in ToSet(my)}
             row == NameRow(events, name)
  <1>1. my = Picked(events, ixs)
    BY DEF EventsOf, Where
  <1>2. ixs \in SUBSET DOMAIN events
    OBVIOUS
  <1>3. row.name = name /\ row.count = n /\ row.max = Max({0} \cup set)
    BY DEF NameRow, ClientRow
  <1>4. \A i \in ixs: events[i].name = name /\ events[i] \in ToSet(events)
    BY DEF ToSet
  <1>5. \A e \in ToSet(events): e.name = name => \E i \in ixs: e = events[i]
    BY DEF ToSet
  <1> HIDE DEF ixs, my, row
  <1>6. my \in Seq(E) /\ ToSet(my) = {events[i]: i \in ixs}
    BY <1>1, <1>2, PickedSeq
  <1>7. n \in Nat /\ DOMAIN my = 1 .. n
    BY <1>6
  <1> HIDE DEF n
  <1>8. \A i \in 1 .. n: my[i] \in E /\ my[i].us \in Nat
    <2>1. \A i \in 1 .. n: my[i] \in E
      BY <1>6, <1>7
    <2>2. QED BY <2>1 DEF ClientEvents
  <1>9. us \in [1 .. n -> Nat]
    BY <1>8
  <1>10. set = {us[i]: i \in 1 .. n}
    BY <1>7 DEF ToSet
  <1> HIDE DEF us, set
  <1> DEFINE m == Max({0} \cup set)
  <1>11. m \in {0} \cup set /\ m \in Nat /\ \A x \in set: x <= m
    BY <1>7, <1>9, <1>10, MaxOrZero
  <1> HIDE DEF m
  <1>12. \A e \in ToSet(events): e.name = name => e.us <= m
    BY <1>5, <1>6, <1>11 DEF set
  <1>13. m = 0 \/ \E e \in ToSet(events): e.us = m
    BY <1>4, <1>6, <1>11 DEF set
  <1>14. row.max = m
    BY <1>3 DEF m
  <1>15. QED BY <1>3, <1>7, <1>11, <1>12, <1>13, <1>14 DEF row

(* The rows of the names are told apart by their order.                    *)
LEMMA RowsOrdered ==
    ASSUME NEW E, ClientEvents(E), NEW events \in Seq(E)
    PROVE  /\ IsFiniteSet(NameRows(events))
           /\ Orders([x \in NameRows(events) |-> {y \in NameRows(events): BusyFirst(y, x)}], NameRows(events))
  <1> DEFINE names == NamesOf(events)
             set == NameRows(events)
  <1>1. names \subseteq ToSet(OpPlaces)
    <2>1. \A e \in ToSet(events): e \in E
      BY DEF ToSet
    <2>2. QED BY <2>1 DEF NamesOf, ClientEvents
  <1>2. IsFiniteSet(names)
    <2> DEFINE f == [e \in ToSet(events) |-> e.name]
    <2>1. IsFiniteSet(ToSet(events))
      BY ToSetFinite
    <2>2. DOMAIN f = ToSet(events) /\ names = {f[e]: e \in DOMAIN f}
      BY DEF NamesOf
    <2> HIDE DEF f, names
    <2>3. QED BY <2>1, <2>2, ImageFinite
  <1>3. IsFiniteSet(set)
    <2> DEFINE f == [name \in names |-> NameRow(events, name)]
    <2>1. DOMAIN f = names /\ set = {f[x]: x \in DOMAIN f}
      BY DEF NameRows
    <2> HIDE DEF f, names, set
    <2>2. QED BY <1>2, <2>1, ImageFinite
  <1>4. \A name \in names: NameRow(events, name).name = name
    BY RowTells
  <1>5. \A x \in set: \E name \in names: x = NameRow(events, name)
    BY DEF NameRows
  <1>6. \A x \in set: x.count \in Nat /\ x.max \in Nat /\ x.name \in ToSet(OpPlaces)
    <2>1. SUFFICES ASSUME NEW name \in names
                   PROVE  LET x == NameRow(events, name) IN x.count \in Nat /\ x.max \in Nat /\ x.name \in ToSet(OpPlaces)
      BY <1>5
    <2>2. NameRow(events, name).count \in Nat /\ NameRow(events, name).max \in Nat
      BY RowTells
    <2>3. QED BY <1>1, <1>4, <2>2
  <1>7. \A x, y \in set: x.name = y.name => x = y
    BY <1>4, <1>5
  <1> HIDE DEF set, names
  <1> DEFINE a == [x \in set |-> 0 - x.count]
             b == [x \in set |-> 0 - x.max]
             c == [x \in set |-> PlaceIn(OpPlaces, x.name)]
             below == [x \in set |-> {y \in set: BusyFirst(y, x)}]
  <1>8. OpPlaces \in Seq(ToSet(OpPlaces))
    BY InsightsAssumption
  <1>9. a \in [set -> Int] /\ b \in [set -> Int] /\ c \in [set -> Int]
    BY <1>6, <1>8, Places
  <1>10. \A x, y \in set: c[x] = c[y] => x = y
    BY <1>6, <1>7, <1>8, Places
  <1>11. \A x, y \in set: BusyFirst(y, x) <=> KeysLess(a, b, c, y, x)
    <2>1. \A x, y \in set: /\ a[y] < a[x] <=> y.count > x.count
                           /\ a[y] = a[x] <=> y.count = x.count
      BY <1>6
    <2>2. \A x, y \in set: /\ b[y] < b[x] <=> y.max > x.max
                           /\ b[y] = b[x] <=> y.max = x.max
      BY <1>6
    <2>3. \A x, y \in set: c[y] < c[x] <=> PlaceIn(OpPlaces, y.name) < PlaceIn(OpPlaces, x.name)
      OBVIOUS
    <2> HIDE DEF a, b, c
    <2>4. QED BY <2>1, <2>2, <2>3 DEF BusyFirst, KeysLess
  <1>12. below = [x \in set |-> {y \in set: KeysLess(a, b, c, y, x)}]
    <2> HIDE DEF a, b, c
    <2>1. QED BY <1>11
  <1> HIDE DEF a, b, c, below
  <1>13. Orders(below, set)
    BY <1>9, <1>10, <1>12, KeysOrder
  <1>14. QED BY <1>3, <1>13 DEF below, set

(* The row that stands for all has the greatest latency of all events.     *)
LEMMA SlowestRow ==
    ASSUME NEW E, ClientEvents(E), NEW events \in Seq(E)
    PROVE  LET rows == client_rows(events)
               worst == slowest_row(rows)
           IN /\ rows # <<>> <=> ToSet(events) # {}
              /\ rows # <<>> =>
                    /\ worst.max \in Nat
                    /\ \A e \in ToSet(events): e.us <= worst.max
                    /\ worst.max >= SLOW <=> \E e \in ToSet(events): e.us >= SLOW
  <1> DEFINE set == NameRows(events)
             below == [x \in set |-> {y \in set: BusyFirst(y, x)}]
             rows == client_rows(events)
             worst == slowest_row(rows)
             n == Len(rows)
             v == [i \in 1 .. n |-> rows[i].max]
             t == Max(Tops(v, n))
  <1>1. rows = Ranked(set, below)
    BY DEF client_rows, Sorted, NameRows, NameRow, EventsOf, NamesOf
  <1>2. rows \in Seq(set) /\ ToSet(rows) = set
    <2>1. IsFiniteSet(set) /\ Orders(below, set)
      BY RowsOrdered
    <2> HIDE DEF set, below, rows
    <2>2. QED BY <1>1, <2>1, RankedSeq
  <1>3. set # {} <=> ToSet(events) # {}
    BY DEF NameRows, NamesOf
  <1>4. \A x \in set: \E name: x = NameRow(events, name)
    BY DEF NameRows
  <1>5. \A e \in ToSet(events): NameRow(events, e.name) \in set
    BY DEF NameRows, NamesOf
  <1> HIDE DEF rows
  <1>6. n \in Nat /\ DOMAIN rows = 1 .. n /\ (rows # <<>> <=> n # 0)
    BY <1>2
  <1>7. ToSet(rows) = {rows[i]: i \in 1 .. n}
    BY <1>6 DEF ToSet
  <1>8. rows # <<>> <=> ToSet(events) # {}
    <2> HIDE DEF set
    <2>1. QED BY <1>2, <1>3, <1>6, <1>7
  <1>9. ASSUME rows # <<>>
        PROVE  /\ worst.max \in Nat
               /\ \A e \in ToSet(events): e.us <= worst.max
               /\ worst.max >= SLOW <=> \E e \in ToSet(events): e.us >= SLOW
    <2>1. worst = rows[t]
      BY <1>6 DEF slowest_row, LastMax, Tops
    <2> HIDE DEF n, set
    <2>2. \A x \in set: x.max \in Nat
      <3>1. SUFFICES ASSUME NEW name PROVE NameRow(events, name).max \in Nat
        BY <1>4
      <3>2. QED BY RowTells
    <2>3. v \in [1 .. n -> Nat] /\ \A i \in 1 .. n: v[i] = rows[i].max
      BY <1>2, <1>7, <2>2
    <2>4. n \in Nat \ {0}
      BY <1>6, <1>9
    <2> HIDE DEF v
    <2>5. t \in 1 .. n /\ \A j \in 1 .. n: v[j] <= v[t]
      BY <2>3, <2>4, LastTop
    <2> HIDE DEF t, worst
    <2>6. worst \in set /\ worst.max \in Nat /\ \A x \in set: x.max <= worst.max
      BY <1>2, <1>7, <2>1, <2>2, <2>3, <2>5
    <2>7. ASSUME NEW e \in ToSet(events) PROVE e.us <= worst.max /\ e.us \in Nat
      <3>1. e \in E
        BY DEF ToSet
      <3>2. e.us \in Nat
        BY <3>1 DEF ClientEvents
      <3> DEFINE row == NameRow(events, e.name)
      <3>3. e.us <= row.max /\ row.max \in Nat
        BY RowTells
      <3>4. row.max <= worst.max
        BY <1>5, <2>6
      <3> HIDE DEF row
      <3>5. QED BY <2>6, <3>2, <3>3, <3>4
    <2>8. worst.max = 0 \/ \E e \in ToSet(events): e.us = worst.max
      <3>1. PICK name: worst = NameRow(events, name)
        BY <1>4, <2>6
      <3>2. NameRow(events, name).max = 0 \/ \E e \in ToSet(events): e.us = NameRow(events, name).max
        BY RowTells
      <3>3. QED BY <3>1, <3>2
    <2>9. worst.max >= SLOW <=> \E e \in ToSet(events): e.us >= SLOW
      BY <2>6, <2>7, <2>8 DEF SLOW
    <2>10. QED BY <2>6, <2>7, <2>9 DEF worst
  <1>10. QED BY <1>8, <1>9 DEF rows

LEMMA ClientTells ==
    ASSUME NEW E, ClientEvents(E), NEW events \in Seq(E), NEW tracer
    PROVE  LET s == client_insight(tracer, client_rows(events)) IN
           /\ IsList(s)
           /\ Warns(s) <=> \E e \in ToSet(events): e.us >= SLOW
           /\ \A x \in ToSet(s): x.text[1] = tracer /\ \A e \in ToSet(events): e.us <= x.text[4]
  <1> DEFINE rows == client_rows(events)
             worst == slowest_row(rows)
             total == FoldLeft(LAMBDA sum, r: sum + r.count, 0, rows)
             text == <<tracer, total, worst.name, worst.max, worst.avg>>
             x == Insight(insight_level_for_latency(worst.max), text)
             s == client_insight(tracer, rows)
  <1>1. s = Given(rows # <<>>, <<x>>)
    BY DEF client_insight
  <1>2. /\ rows # <<>> <=> ToSet(events) # {}
        /\ rows # <<>> =>
              /\ worst.max \in Nat
              /\ \A e \in ToSet(events): e.us <= worst.max
              /\ worst.max >= SLOW <=> \E e \in ToSet(events): e.us >= SLOW
    BY SlowestRow
  <1>3. insight_level_for_latency(worst.max) \in Severities
    BY LatencyLevel
  <1>4. text[1] = tracer /\ text[4] = worst.max /\ x.text = text
    BY DEF Insight
  <1> HIDE DEF rows, worst, text
  <1>5. CASE rows = <<>>
    <2>1. s = <<>>
      BY <1>1, <1>5 DEF Given
    <2> HIDE DEF s
    <2>2. QED BY <1>2, <1>5, <2>1, NoneTells DEF ToSet, s, rows
  <1>6. CASE rows # <<>>
    <2>1. s = <<x>>
      BY <1>1, <1>6 DEF Given
    <2>2. IsList(<<x>>) /\ (Warns(<<x>>) <=> worst.max >= SLOW)
      BY <1>2, <1>3, <1>6, OneTells, LatencyWarns
    <2> HIDE DEF s, x
    <2>3. ToSet(s) = {x}
      BY <2>1 DEF ToSet
    <2>4. QED BY <1>2, <1>4, <1>6, <2>1, <2>2, <2>3 DEF s, rows
  <1>7. QED BY <1>5, <1>6

LEMMA KfsTells ==
    ASSUME NEW E, ClientEvents(E), NEW events \in Seq(E)
    PROVE  LET s == kfs_insights(events) IN
           /\ IsList(s)
           /\ Warns(s) <=> \E e \in ToSet(events): e.us >= SLOW \/ e.mark
           /\ \A x \in ToSet(s): \/ x.text[1] \notin Claims
                                 \/ x.text[1] = "kfstrace" /\ \A e \in ToSet(events): e.us <= x.text[4]
  <1> DEFINE ixs == {i \in DOMAIN events: events[i].mark}
             unsafe == Len(Picked(events, ixs))
             text == <<"unsafe", unsafe>>
             a == client_insight("kfstrace", client_rows(events))
             b == Given(unsafe > 0, <<Insight("Warn", text)>>)
  <1>1. kfs_insights(events) = a \o b
    BY DEF kfs_insights, Where
  <1>2. /\ IsList(a) /\ (Warns(a) <=> \E e \in ToSet(events): e.us >= SLOW)
        /\ \A x \in ToSet(a): x.text[1] = "kfstrace" /\ \A e \in ToSet(events): e.us <= x.text[4]
    BY ClientTells
  <1>3. unsafe > 0 <=> \E e \in ToSet(events): e.mark
    <2>1. ixs \in SUBSET DOMAIN events
      OBVIOUS
    <2>2. ixs # {} <=> \E e \in ToSet(events): e.mark
      BY DEF ToSet
    <2> HIDE DEF ixs
    <2>3. QED BY <2>1, <2>2, FilterEmpty
  <1> HIDE DEF unsafe
  <1>4. text[1] \notin Claims /\ "Warn" \in Severities /\ "Warn" \in Alarms
    BY DEF Claims, Severities, Alarms
  <1> HIDE DEF text
  <1>5. Modest(b) /\ (Warns(b) <=> unsafe > 0)
    BY <1>4, OneTells, NoneTells DEF Given
  <1> HIDE DEF a, b
  <1>6. IsList(a \o b) /\ (Warns(a \o b) <=> Warns(a) \/ Warns(b)) /\ ToSet(a \o b) = ToSet(a) \cup ToSet(b)
    BY <1>2, <1>5, ListConcat, ConcatTells DEF Modest
  <1>7. Warns(a \o b) <=> \E e \in ToSet(events): e.us >= SLOW \/ e.mark
    BY <1>2, <1>3, <1>5, <1>6
  <1>8. \A x \in ToSet(a \o b): \/ x.text[1] \notin Claims
                                \/ x.text[1] = "kfstrace" /\ \A e \in ToSet(events): e.us <= x.text[4]
    BY <1>2, <1>5, <1>6 DEF Modest
  <1>9. QED BY <1>1, <1>6, <1>7, <1>8

LEMMA TraceFacts ==
    ASSUME NEW t \in Traces \cup {NoTrace}
    PROVE  /\ TraceRows(ToSet(t.rows)) /\ Active(t.rows) \in Seq(ToSet(t.rows))
           /\ ClientEvents(ToSet(t.kfs)) /\ t.kfs \in Seq(ToSet(t.kfs))
           /\ ClientEvents(ToSet(t.rados)) /\ t.rados \in Seq(ToSet(t.rados))
  <1>1. /\ TraceRows(ToSet(t.rows)) /\ t.rows \in Seq(ToSet(t.rows))
        /\ ClientEvents(ToSet(t.kfs)) /\ t.kfs \in Seq(ToSet(t.kfs))
        /\ ClientEvents(ToSet(t.rados)) /\ t.rados \in Seq(ToSet(t.rados))
    <2>1. CASE t \in Traces
      BY <2>1, InsightsAssumption DEF TraceRows, ClientEvents
    <2>2. CASE t = NoTrace
      <3>1. t.rows = <<>> /\ t.kfs = <<>> /\ t.rados = <<>>
        BY <2>2 DEF NoTrace
      <3>2. ToSet(<<>>) = {} /\ <<>> \in Seq({})
        BY DEF ToSet
      <3>3. QED BY <3>1, <3>2 DEF TraceRows, ClientEvents
    <2>3. QED BY <2>1, <2>2
  <1> DEFINE ixs == {i \in DOMAIN t.rows: t.rows[i].ops > 0}
  <1>2. Active(t.rows) = Picked(t.rows, ixs)
    BY DEF Active, Where
  <1>3. ixs \in SUBSET DOMAIN t.rows
    OBVIOUS
  <1> HIDE DEF ixs
  <1>4. Active(t.rows) \in Seq(ToSet(t.rows))
    BY <1>1, <1>2, <1>3, PickedSeq
  <1>5. QED BY <1>1, <1>4

(* What an observation claims is true of the evidence.                     *)
Honest(x, e) ==
    /\ x.text[1] = "last" => \A r \in ToSet(Active(e.trace.rows)): r.max <= x.text[5]
    /\ x.text[1] = "no obvious slow OSD" => \A r \in ToSet(Active(e.trace.rows)): r.max < SLOW
    /\ x.text[1] = "kfstrace" => \A event \in ToSet(e.trace.kfs): event.us <= x.text[4]
    /\ x.text[1] = "radostrace" => \A event \in ToSet(e.trace.rados): event.us <= x.text[4]

LEMMA ModestHonest ==
    ASSUME NEW s, Modest(s)
    PROVE  IsList(s) /\ \A x \in ToSet(s): x.text[1] # "in flight" /\ \A e: Honest(x, e)
  BY DEF Modest, Honest, Claims

LEMMA RowsTell ==
    ASSUME NEW e \in Evidence
    PROVE  LET active == Active(e.trace.rows)
               s == IF active = <<>> THEN <<>> ELSE osd_trace_insights(e.nodes, active)
           IN /\ IsList(s)
              /\ Warns(s) <=> \/ \E r \in ToSet(active): r.max >= SLOW \/ \E c \in ToSet(Components): r.part[c] >= SLOW
                              \/ \E i \in Slowest(active): Loaded(node_for_host(e.nodes, active[i].host))
              /\ \A x \in ToSet(s): x.text[1] # "in flight" /\ Honest(x, e)
  <1> DEFINE active == Active(e.trace.rows)
             s == IF active = <<>> THEN <<>> ELSE osd_trace_insights(e.nodes, active)
             S == ToSet(e.trace.rows)
  <1>1. e.trace \in Traces \cup {NoTrace}
    BY DEF Evidence
  <1>2. TraceRows(S) /\ active \in Seq(S)
    BY <1>1, TraceFacts
  <1> HIDE DEF active, S
  <1>3. CASE active = <<>>
    <2>1. s = <<>> /\ ToSet(s) = {} /\ ToSet(active) = {} /\ Slowest(active) = {}
      BY <1>3 DEF ToSet, Slowest
    <2> HIDE DEF s
    <2>2. QED BY <2>1, NoneTells DEF s, active
  <1>4. CASE active # <<>>
    <2>1. s = osd_trace_insights(e.nodes, active)
      BY <1>4
    <2>2. /\ IsList(s)
          /\ Warns(s) <=> \/ \E r \in ToSet(active): r.max >= SLOW \/ \E c \in ToSet(Components): r.part[c] >= SLOW
                          \/ \E i \in Slowest(active): Loaded(node_for_host(e.nodes, active[i].host))
          /\ \A x \in ToSet(s): RowsHonest(x, active)
      BY <1>2, <1>4, <2>1, OsdTells
    <2>3. \A x \in ToSet(s): x.text[1] # "in flight" /\ Honest(x, e)
      BY <2>2 DEF RowsHonest, Honest, active
    <2> HIDE DEF s
    <2>4. QED BY <2>2, <2>3 DEF s, active
  <1>5. QED BY <1>3, <1>4

(* The observations, rule by rule.                                         *)
LEMMA Verdicts ==
    ASSUME NEW e \in Evidence
    PROVE  /\ Warns(diagnose(e)) <=> Alarming(e)
           /\ \A x \in ToSet(diagnose(e)): Honest(x, e)
           /\ Oldest({OpOf(x.text): x \in {y \in ToSet(diagnose(e)): y.text[1] = "in flight"}}, InFlight(e.nodes))
  <1> DEFINE
        active == Active(e.trace.rows)
        lost == e.streams[2] > 0 /\ e.streams[1] < e.streams[2]
        idle == active = <<>> /\ e.trace.kfs = <<>> /\ e.trace.rados = <<>>
        why == IF e.trace.running THEN <<"trace is running with no matching events">> ELSE <<"no trace data">>
        p1 == snapshot_insights(e.snapshot)
        p2 == Given(lost, <<Insight("Warn", <<"ssh streams", e.streams>>)>>)
        p3 == io_limit_insights(e.nodes)
        p4 == inflight_op_insights(e.nodes)
        p5 == Given(e.trace.errors # <<>>, <<Insight("Bad", <<"trace error on", Last(e.trace.errors)>>)>>)
        p6 == IF active = <<>> THEN <<>> ELSE osd_trace_insights(e.nodes, active)
        p7 == node_pressure_insights(e.nodes)
        p8 == kfs_insights(e.trace.kfs)
        p9 == rados_insights(e.trace.rados)
        p10 == cross_source_insight(active, e.trace.rados)
        p11 == Given(idle, <<Insight("Info", why)>>)
        limits == \E h \in DOMAIN e.nodes: e.nodes[h].limits
        waits == \E h \in DOMAIN e.nodes: e.nodes[h].inflight # {}
        stalls == \E h \in DOMAIN e.nodes: e.nodes[h].stall >= 5
        slow == \/ \E r \in ToSet(active): r.max >= SLOW \/ \E c \in ToSet(Components): r.part[c] >= SLOW
                \/ \E i \in Slowest(active): Loaded(node_for_host(e.nodes, active[i].host))
        kfs == \E event \in ToSet(e.trace.kfs): event.us >= SLOW \/ event.mark
        rados == \E event \in ToSet(e.trace.rados): event.us >= SLOW
  <1>1. diagnose(e) = (((((((((p1 \o p2) \o p3) \o p4) \o p5) \o p6) \o p7) \o p8) \o p9) \o p10) \o p11
    BY DEF diagnose
  <1>2. /\ "Info" \in Severities /\ "Warn" \in Severities /\ "Bad" \in Severities
        /\ "Info" \notin Alarms /\ "Warn" \in Alarms /\ "Bad" \in Alarms
    BY DEF Severities, Alarms
  <1>3. /\ e.snapshot \in Snapshots \cup {None} /\ e.trace \in Traces \cup {NoTrace}
        /\ e.streams \in StreamCounts \cup {<<0, 0>>}
        /\ \E hosts \in SUBSET NodeHosts: e.nodes \in [hosts -> NodeStates]
    BY DEF Evidence
  <1>4. Modest(p1) /\ (Warns(p1) <=> Troubled(e.snapshot))
    BY <1>3, SnapshotTells
  <1>5. Modest(p2) /\ (Warns(p2) <=> e.streams[1] < e.streams[2])
    <2>1. e.streams[1] \in Nat /\ e.streams[2] \in Nat
      BY <1>3, InsightsAssumption
    <2>2. lost <=> e.streams[1] < e.streams[2]
      BY <2>1
    <2> DEFINE text == <<"ssh streams", e.streams>>
    <2>3. text[1] \notin Claims
      BY DEF Claims
    <2> HIDE DEF text, lost
    <2>4. QED BY <1>2, <2>2, <2>3, OneTells, NoneTells DEF Given, text
  <1>6. /\ Modest(p3) /\ (Warns(p3) <=> limits) /\ Modest(p7) /\ (Warns(p7) <=> stalls)
        /\ IsList(p4) /\ (Warns(p4) <=> waits)
        /\ \A x \in ToSet(p4): x.text[1] = "in flight"
        /\ Oldest({OpOf(x.text): x \in ToSet(p4)}, InFlight(e.nodes))
    BY <1>3, NodesTell, InFlightTells
  <1>7. Modest(p5) /\ (Warns(p5) <=> e.trace.errors # <<>>)
    <2> DEFINE text == <<"trace error on", Last(e.trace.errors)>>
    <2>1. text[1] \notin Claims
      BY DEF Claims
    <2> HIDE DEF text
    <2>2. QED BY <1>2, <2>1, OneTells, NoneTells DEF Given, text
  <1>8. IsList(p6) /\ (Warns(p6) <=> slow) /\ \A x \in ToSet(p6): x.text[1] # "in flight" /\ Honest(x, e)
    BY RowsTell
  <1>9. IsList(p8) /\ (Warns(p8) <=> kfs) /\ \A x \in ToSet(p8): x.text[1] # "in flight" /\ Honest(x, e)
    <2>1. ClientEvents(ToSet(e.trace.kfs)) /\ e.trace.kfs \in Seq(ToSet(e.trace.kfs))
      BY <1>3, TraceFacts
    <2>2. /\ IsList(p8) /\ (Warns(p8) <=> kfs)
          /\ \A x \in ToSet(p8): \/ x.text[1] \notin Claims
                                 \/ x.text[1] = "kfstrace" /\ \A event \in ToSet(e.trace.kfs): event.us <= x.text[4]
      BY <2>1, KfsTells
    <2> HIDE DEF p8
    <2>3. QED BY <2>2 DEF Honest, Claims
  <1>10. IsList(p9) /\ (Warns(p9) <=> rados) /\ \A x \in ToSet(p9): x.text[1] # "in flight" /\ Honest(x, e)
    <2>1. ClientEvents(ToSet(e.trace.rados)) /\ e.trace.rados \in Seq(ToSet(e.trace.rados))
      BY <1>3, TraceFacts
    <2>2. p9 = client_insight("radostrace", client_rows(e.trace.rados))
      BY DEF rados_insights
    <2>3. /\ IsList(p9) /\ (Warns(p9) <=> rados)
          /\ \A x \in ToSet(p9): x.text[1] = "radostrace" /\ \A event \in ToSet(e.trace.rados): event.us <= x.text[4]
      BY <2>1, <2>2, ClientTells
    <2> HIDE DEF p9
    <2>4. QED BY <2>3 DEF Honest
  <1>11. Modest(p10) /\ ~Warns(p10)
    <2> DEFINE client == Max({0} \cup {x.us : x \in ToSet(e.trace.rados)})
               server == Max({0} \cup {r.max : r \in ToSet(active)})
               text == <<"cross-source", client, server>>
    <2>1. text[1] \notin Claims
      BY DEF Claims
    <2>2. p10 = Given(client # 0 /\ server # 0, <<Insight("Info", text)>>)
      BY DEF cross_source_insight
    <2> HIDE DEF text, client, server, p10
    <2>3. QED BY <1>2, <2>1, <2>2, OneTells, NoneTells DEF Given
  <1>12. Modest(p11) /\ ~Warns(p11)
    <2>1. why[1] \notin Claims
      BY DEF Claims
    <2> HIDE DEF why, idle
    <2>2. QED BY <1>2, <2>1, OneTells, NoneTells DEF Given
  <1> HIDE DEF p1, p2, p3, p4, p5, p6, p7, p8, p9, p10, p11
  <1> DEFINE Fair(s) == IsList(s) /\ \A x \in ToSet(s): x.text[1] # "in flight" /\ Honest(x, e)
             q == ((p1 \o p2) \o p3) \o p4
             r == ((q \o p5) \o p6) \o p7
             all == (((r \o p8) \o p9) \o p10) \o p11
  <1>13. \A s: Modest(s) => Fair(s)
    BY ModestHonest
  <1>14. Fair(p1) /\ Fair(p2) /\ Fair(p3) /\ Fair(p5) /\ Fair(p6) /\ Fair(p7) /\ Fair(p8) /\ Fair(p9) /\ Fair(p10) /\ Fair(p11)
    BY <1>4, <1>5, <1>6, <1>7, <1>8, <1>9, <1>10, <1>11, <1>12, <1>13
  <1>15. IsList(q) /\ ToSet(q) = ((ToSet(p1) \cup ToSet(p2)) \cup ToSet(p3)) \cup ToSet(p4)
    <2> DEFINE q1 == p1 \o p2
               q2 == q1 \o p3
    <2>1. IsList(q1) /\ ToSet(q1) = ToSet(p1) \cup ToSet(p2)
      BY <1>14, ListConcat
    <2> HIDE DEF q1
    <2>2. IsList(q2) /\ ToSet(q2) = ToSet(q1) \cup ToSet(p3)
      BY <1>14, <2>1, ListConcat
    <2> HIDE DEF q2
    <2>3. IsList(q2 \o p4) /\ ToSet(q2 \o p4) = ToSet(q2) \cup ToSet(p4)
      BY <1>6, <2>2, ListConcat
    <2>4. QED BY <2>1, <2>2, <2>3 DEF q1, q2
  <1> HIDE DEF q
  <1>16. IsList(r) /\ ToSet(r) = ((ToSet(q) \cup ToSet(p5)) \cup ToSet(p6)) \cup ToSet(p7)
    <2> DEFINE q1 == q \o p5
               q2 == q1 \o p6
    <2>1. IsList(q1) /\ ToSet(q1) = ToSet(q) \cup ToSet(p5)
      BY <1>14, <1>15, ListConcat
    <2> HIDE DEF q1
    <2>2. IsList(q2) /\ ToSet(q2) = ToSet(q1) \cup ToSet(p6)
      BY <1>14, <2>1, ListConcat
    <2> HIDE DEF q2
    <2>3. IsList(q2 \o p7) /\ ToSet(q2 \o p7) = ToSet(q2) \cup ToSet(p7)
      BY <1>14, <2>2, ListConcat
    <2>4. QED BY <2>1, <2>2, <2>3 DEF q1, q2
  <1> HIDE DEF r
  <1>17. IsList(all) /\ ToSet(all) = (((ToSet(r) \cup ToSet(p8)) \cup ToSet(p9)) \cup ToSet(p10)) \cup ToSet(p11)
    <2> DEFINE q1 == r \o p8
               q2 == q1 \o p9
               q3 == q2 \o p10
    <2>1. IsList(q1) /\ ToSet(q1) = ToSet(r) \cup ToSet(p8)
      BY <1>14, <1>16, ListConcat
    <2> HIDE DEF q1
    <2>2. IsList(q2) /\ ToSet(q2) = ToSet(q1) \cup ToSet(p9)
      BY <1>14, <2>1, ListConcat
    <2> HIDE DEF q2
    <2>3. IsList(q3) /\ ToSet(q3) = ToSet(q2) \cup ToSet(p10)
      BY <1>14, <2>2, ListConcat
    <2> HIDE DEF q3
    <2>4. IsList(q3 \o p11) /\ ToSet(q3 \o p11) = ToSet(q3) \cup ToSet(p11)
      BY <1>14, <2>3, ListConcat
    <2>5. QED BY <2>1, <2>2, <2>3, <2>4 DEF q1, q2, q3
  <1> HIDE DEF all
  <1>18. diagnose(e) = all
    BY <1>1 DEF all, r, q
  <1> DEFINE quiet == UNION {ToSet(p1), ToSet(p2), ToSet(p3), ToSet(p5), ToSet(p6), ToSet(p7), ToSet(p8), ToSet(p9), ToSet(p10), ToSet(p11)}
  <1>19. ToSet(all) = quiet \cup ToSet(p4)
    BY <1>15, <1>16, <1>17
  <1>20. \A x \in quiet: x.text[1] # "in flight" /\ Honest(x, e)
    BY <1>14
  <1>21. \A x \in ToSet(p4): Honest(x, e)
    BY <1>6 DEF Honest
  <1> HIDE DEF quiet
  <1>22. {y \in ToSet(all): y.text[1] = "in flight"} = ToSet(p4)
    BY <1>6, <1>19, <1>20
  <1>23. Warns(all) <=> \/ Warns(p1) \/ Warns(p2) \/ Warns(p3) \/ Warns(p4) \/ Warns(p5) \/ Warns(p6)
                        \/ Warns(p7) \/ Warns(p8) \/ Warns(p9) \/ Warns(p10) \/ Warns(p11)
    BY <1>15, <1>16, <1>17 DEF Warns
  <1>24. Alarming(e) <=> \/ Troubled(e.snapshot) \/ e.streams[1] < e.streams[2] \/ limits \/ waits \/ stalls
                         \/ e.trace.errors # <<>> \/ slow \/ kfs \/ rados
    BY DEF Alarming, Troubled, NodeAlarm
  <1> HIDE DEF limits, waits, stalls, slow, kfs, rados
  <1>25. Warns(all) <=> Alarming(e)
    BY <1>4, <1>5, <1>6, <1>7, <1>8, <1>9, <1>10, <1>11, <1>12, <1>23, <1>24
  <1>26. QED BY <1>6, <1>18, <1>19, <1>20, <1>21, <1>22, <1>25

(* What the panel says of the present is true: it warns exactly when       *)
(* something is wrong, and what it names is the worst.                     *)
THEOREM VerdictsHold == InsightsSpec => []VerdictsTrue
  <1>1. ASSUME NEW e \in Evidence, evidence = e PROVE VerdictsTrue
    <2> DEFINE S == ToSet(diagnose(e))
    <2>1. /\ Warns(diagnose(e)) <=> Alarming(e)
          /\ \A x \in S: Honest(x, e)
          /\ Oldest({OpOf(x.text): x \in {y \in S: y.text[1] = "in flight"}}, InFlight(e.nodes))
      BY Verdicts
    <2>2. AlarmsAreTrue
      BY <1>1, <2>1 DEF AlarmsAreTrue, Warns, Alarms, ToSet
    <2>3. Texts(diagnose(e)) = {x.text: x \in S}
      BY DEF Texts, ToSet
    <2> HIDE DEF S
    <2> DEFINE texts == Texts(diagnose(e))
               Said(kind) == {t \in texts: t[1] = kind}
               named == {[host |-> t[2], osd |-> t[3], age |-> t[4]]: t \in Said("in flight")}
    <2>4. named = {OpOf(x.text): x \in {y \in S: y.text[1] = "in flight"}}
      BY <2>3 DEF OpOf
    <2>5. \A o \in InFlight(e.nodes) \ named: Cardinality(named) = 4 /\ \A n \in named: n.age >= o.age
      BY <2>1, <2>4 DEF Oldest
    <2>6. /\ \A t \in Said("last"): \A r \in ToSet(Active(e.trace.rows)): r.max <= t[5]
          /\ \A t \in Said("kfstrace"): \A event \in ToSet(e.trace.kfs): event.us <= t[4]
          /\ \A t \in Said("radostrace"): \A event \in ToSet(e.trace.rados): event.us <= t[4]
          /\ Said("no obvious slow OSD") # {} => \A r \in ToSet(Active(e.trace.rows)): r.max < SLOW
      BY <2>1, <2>3 DEF Honest
    <2>7. WorstIsNamed
      BY <1>1, <2>5, <2>6 DEF WorstIsNamed
    <2>8. QED BY <2>2, <2>7 DEF VerdictsTrue
  <1>2. InsightsInv => VerdictsTrue
    BY <1>1 DEF InsightsInv
  <1>3. QED BY <1>2, InsightsInvariant, PTL
=============================================================================
