------------------------------ MODULE Insights ------------------------------
(***************************************************************************)
(* The insights panel: the rules of diagnose.rs, which turn the cluster    *)
(* snapshot, the node summaries and the trace rows into observations, and  *)
(* the history of app.rs, which keeps observations after their cause has   *)
(* gone.  A text is a tuple of its kind and of what it names; latencies    *)
(* are in microseconds and shares in percent.                              *)
(***************************************************************************)
EXTENDS Integers, Sequences, FiniteSets, SequencesExt, FiniteSetsExt, Lists

CONSTANTS
    HostOrder,  \* the hosts in the order of their names
    OsdPlaces,  \* the OSD names in their order
    OpPlaces,   \* the names of MDS operations and of pools in their order
    None,       \* Option::None, and the "-" of a row without a PG
    Snapshots,  \* the cluster snapshots that may arrive
    NodeStates, \* the node summaries that may arrive
    Traces,     \* the rows, errors and client events of the window
    StreamCounts, \* pairs of live and all ssh streams
    NodeHosts,  \* the hosts whose node stream sends lines
    Keep,       \* INSIGHT_HISTORY_SECS
    Dedup,      \* INSIGHT_DEDUP_SECS
    HistoryLimit, \* INSIGHT_HISTORY_LIMIT
    LastSecond  \* bound: the time

(* The parts of a latency that osdtrace tells apart.                       *)
Components == <<"peer", "kv_commit", "bluestore", "queue", "recv", "dispatch", "throttle">>

ASSUME InsightsAssumption ==
    /\ HostOrder \in Seq(ToSet(HostOrder)) /\ NodeHosts \subseteq ToSet(HostOrder)
    /\ OsdPlaces \in Seq(ToSet(OsdPlaces)) /\ OpPlaces \in Seq(ToSet(OpPlaces))
    /\ \A s \in Snapshots \ {None}:
          /\ s.pools \in Seq(ToSet(s.pools)) /\ s.osds \in Seq(ToSet(s.osds))
          /\ s.full_ratio \in Nat /\ \A o \in ToSet(s.osds): o.used \in Nat
    /\ \A n \in NodeStates:
          IsFiniteSet(n.inflight) /\ \A o \in n.inflight: o.osd \in ToSet(OsdPlaces) /\ o.age \in Nat
    /\ \A t \in Traces:
          /\ t.rows \in Seq(ToSet(t.rows)) /\ t.kfs \in Seq(ToSet(t.kfs)) /\ t.rados \in Seq(ToSet(t.rados))
          /\ \A r \in ToSet(t.rows): r.ops \in Nat /\ r.max \in Nat /\ r.part \in [ToSet(Components) -> Nat]
          /\ \A e \in ToSet(t.kfs) \cup ToSet(t.rados): e.name \in ToSet(OpPlaces) /\ e.us \in Nat
    /\ StreamCounts \subseteq Nat \X Nat
    /\ Dedup \in Nat /\ Keep \in Nat /\ Dedup < Keep
    /\ HistoryLimit \in Nat \ {0} /\ LastSecond \in Nat

VARIABLES
    evidence,        \* the inputs of diagnose
    insight_history, \* VecDeque<TimedInsight>
    second,          \* the wall clock, which may be set back
    captured,        \* history: when each text was last captured
    clock_set        \* history: whether the clock has been set back

insightsVars == <<evidence, insight_history, second, captured, clock_set>>

PlaceIn(order, x) == SelectInSeq(order, LAMBDA y: y = x)
First(n, seq) == SubSeq(seq, 1, IF n < Len(seq) THEN n ELSE Len(seq))
Mapped(seq, Op(_)) == [i \in DOMAIN seq |-> Op(seq[i])]
Given(condition, seq) == IF condition THEN seq ELSE <<>>

(* max_by_key: the last of the elements with the greatest value.           *)
LastMax(seq, Value(_)) ==
    seq[Max({i \in DOMAIN seq: \A j \in DOMAIN seq: Value(seq[j]) <= Value(seq[i])})]

SLOW == 10000

insight_level_for_latency(us) ==
    IF us >= 100000 THEN "Bad" ELSE IF us >= SLOW THEN "Warn" ELSE IF us > 0 THEN "Ok" ELSE "Info"

Insight(level, text) == [level |-> level, text |-> text]

-----------------------------------------------------------------------------
(* The cluster.                                                            *)

health_insights(s) ==
    Given(s.health # "HEALTH_OK",
          <<Insight(IF s.health = "HEALTH_WARN" THEN "Warn" ELSE "Bad",
                    <<"health", s.health, First(3, s.checks), Len(s.checks)>>)>>)

(* The PG that is named: one in deep scrub, else one that moves.           *)
Abnormal(pgs) ==
    LET Of(kind) == Where(pgs, LAMBDA pg: pg.state = kind) IN
    Head(Of("scrubbing+deep") \o Of("backfill") \o pgs)

cluster_evidence_insights(s) ==
    LET tight == Where(s.pools, LAMBDA p: p.domains > 0 /\ p.size > p.domains)
        fullest == LastMax(s.osds, LAMBDA o: o.used)
    IN Mapped(tight, LAMBDA p: Insight("Bad", <<"pool", p.name, p.size, p.domains>>))
       \o Given(s.full_ratio > 0 /\ s.osds # <<>> /\ fullest.used >= s.full_ratio,
                <<Insight("Bad", <<"full", fullest.name, fullest.used>>)>>)
       \o Given(s.pgs # <<>>,
                <<Insight("Warn", <<"pg", Abnormal(s.pgs), Len(s.pgs)>>)>>)
       \o Given(s.recovering > 0, <<Insight("Warn", <<"recovery", s.recovering>>)>>)

snapshot_insights(s) ==
    IF s = None THEN <<Insight("Info", <<"waiting for first cluster snapshot">>)>>
    ELSE health_insights(s) \o cluster_evidence_insights(s)
         \o Given(s.pgs = <<>> /\ ~s.clean, <<Insight("Warn", <<"PG state">>)>>)

-----------------------------------------------------------------------------
(* The nodes.                                                              *)

io_limit_insights(nodes) ==
    Mapped(Sorted({h \in DOMAIN nodes: nodes[h].limits},
                  LAMBDA a, b: PlaceIn(HostOrder, a) < PlaceIn(HostOrder, b)),
           LAMBDA h: Insight("Bad", <<"write limit", h>>))

(* The four first named operations, in place of the four oldest.           *)
Older_fault(a, b) ==
    \/ PlaceIn(HostOrder, a.host) < PlaceIn(HostOrder, b.host)
    \/ a.host = b.host /\ PlaceIn(OsdPlaces, a.osd) < PlaceIn(OsdPlaces, b.osd)
    \/ a.host = b.host /\ a.osd = b.osd /\ a.age > b.age

Older(a, b) ==
    \/ a.age > b.age
    \/ a.age = b.age /\ PlaceIn(HostOrder, a.host) < PlaceIn(HostOrder, b.host)
    \/ a.age = b.age /\ a.host = b.host /\ PlaceIn(OsdPlaces, a.osd) < PlaceIn(OsdPlaces, b.osd)

InFlight(nodes) == UNION {{[host |-> h, osd |-> o.osd, age |-> o.age]: o \in nodes[h].inflight}: h \in DOMAIN nodes}

inflight_op_insights(nodes) ==
    Mapped(First(4, Sorted(InFlight(nodes), Older)),
           LAMBDA o: Insight("Bad", <<"in flight", o.host, o.osd, o.age>>))

node_pressure_insights(nodes) ==
    LET stalled == {h \in DOMAIN nodes: nodes[h].stall >= 5}
        Before(a, b) == \/ nodes[a].stall > nodes[b].stall
                        \/ nodes[a].stall = nodes[b].stall /\ PlaceIn(HostOrder, a) < PlaceIn(HostOrder, b)
    IN Mapped(First(2, Sorted(stalled, Before)),
              LAMBDA h: Insight(IF nodes[h].stall >= 20 THEN "Bad" ELSE "Warn", <<"stalled", h, nodes[h].stall>>))

-----------------------------------------------------------------------------
(* The rows of osdtrace.                                                   *)

dominant_component(row) == LastMax(Components, LAMBDA c: row.part[c])

component_worst(active, c) == LastMax(active, LAMBDA r: r.part[c])

peer_wait_verdict(peer) ==
    IF peer = None THEN "peer trace row missing"
    ELSE LET queue == peer.part["queue"]
             recv == peer.part["recv"]
         IN CASE queue >= SLOW /\ queue >= 2 * recv -> "peer queue"
              [] recv >= SLOW /\ recv >= 2 * queue -> "request network"
              [] OTHER -> "response network"

(* By the key, or by the host or hostname that the summary reports.        *)
node_for_host(nodes, host) ==
    IF host \in DOMAIN nodes THEN nodes[host]
    ELSE LET named == {h \in DOMAIN nodes: nodes[h].hostname = host}
         IN IF named = {} THEN None ELSE nodes[CHOOSE h \in named: TRUE]

host_insights(node, host) ==
    IF node = None THEN <<>>
    ELSE IF node.cpu >= 85 THEN <<Insight("Bad", <<"CPU", host, node.cpu>>)>>
    ELSE Given(node.mem >= 85, <<Insight("Warn", <<"memory", host, node.mem>>)>>)

(* The greatest latency, then the most operations.                         *)
worst_row(active) ==
    LET slowest == Where(active, LAMBDA r: \A o \in ToSet(active): o.max <= r.max)
    IN LastMax(slowest, LAMBDA r: r.ops)

osd_trace_insights(nodes, active) ==
    LET worst == worst_row(active)
        queue == component_worst(active, "queue")
        recv == component_worst(active, "recv")
        leader == IF queue.part["queue"] > recv.part["recv"] THEN queue.part["queue"] ELSE recv.part["recv"]
        waiting == component_worst(active, "peer")
        peers == Where(active, LAMBDA r: r.osd = waiting.slow_peer)
        largest == LastMax(active, LAMBDA r: r.part[dominant_component(r)])
        dominant == dominant_component(largest)
        slow == Len(Where(active, LAMBDA r: r.max >= SLOW))
    IN <<Insight(insight_level_for_latency(worst.max),
                 <<"last", FoldLeft(LAMBDA sum, r: sum + r.ops, 0, active), Len(active), worst.osd, worst.max, worst.avg>>)>>
       \o Given(leader >= SLOW,
                <<Insight(insight_level_for_latency(leader),
                          <<"leaders", queue.osd, queue.part["queue"], recv.osd, recv.part["recv"]>>)>>)
       \o Given(waiting.part["peer"] >= SLOW /\ waiting.slow_peer # None,
                <<Insight(insight_level_for_latency(waiting.part["peer"]),
                          <<"peer", waiting.osd, waiting.part["peer"], waiting.slow_peer,
                            peer_wait_verdict(IF peers = <<>> THEN None ELSE Head(peers))>>)>>)
       \o (IF largest.part[dominant] > 0
           THEN <<Insight(insight_level_for_latency(largest.part[dominant]),
                          <<"largest", dominant, largest.osd, largest.part[dominant]>>)>>
           ELSE Given(worst.max >= SLOW, <<Insight("Warn", <<"components are empty">>)>>))
       \o Given(worst.hot_pg # None, <<Insight("Info", <<"busiest PG", worst.osd, worst.hot_pg>>)>>)
       \o host_insights(node_for_host(nodes, worst.host), worst.host)
       \o (IF slow >= 2 THEN <<Insight("Warn", <<"OSDs over 10ms", slow>>)>>
           ELSE Given(worst.max < SLOW, <<Insight("Ok", <<"no obvious slow OSD">>)>>))

-----------------------------------------------------------------------------
(* The events of the client tracers, one row per MDS operation or pool.    *)

ClientRow(name, events) ==
    [name |-> name, count |-> Len(events),
     max |-> Max({0} \cup {e.us : e \in ToSet(events)}),
     avg |-> FoldLeft(LAMBDA sum, e: sum + e.us, 0, events) \div Len(events),
     marked |-> Len(Where(events, LAMBDA e: e.mark))]

BusyFirst(a, b) ==
    \/ a.count > b.count
    \/ a.count = b.count /\ a.max > b.max
    \/ a.count = b.count /\ a.max = b.max /\ PlaceIn(OpPlaces, a.name) < PlaceIn(OpPlaces, b.name)

(* kfs_op_rows, whose mark is an unsafe latency, and rados_pool_rows,      *)
(* whose mark is a write.                                                  *)
client_rows(events) ==
    Sorted({ClientRow(name, Where(events, LAMBDA e: e.name = name)): name \in {e.name : e \in ToSet(events)}},
                 BusyFirst)

slowest_row(rows) == LastMax(rows, LAMBDA r: r.max)

client_insight(tracer, rows) ==
    Given(rows # <<>>,
          LET worst == slowest_row(rows)
          IN <<Insight(insight_level_for_latency(worst.max),
                       <<tracer, FoldLeft(LAMBDA sum, r: sum + r.count, 0, rows), worst.name, worst.max, worst.avg>>)>>)

kfs_insights(events) ==
    LET unsafe == Len(Where(events, LAMBDA e: e.mark))
    IN client_insight("kfstrace", client_rows(events))
       \o Given(unsafe > 0, <<Insight("Warn", <<"unsafe", unsafe>>)>>)

rados_insights(events) == client_insight("radostrace", client_rows(events))

cross_source_insight(active, events) ==
    LET client == Max({0} \cup {e.us : e \in ToSet(events)})
        server == Max({0} \cup {r.max : r \in ToSet(active)})
    IN Given(client # 0 /\ server # 0, <<Insight("Info", <<"cross-source", client, server>>)>>)

-----------------------------------------------------------------------------
Active(rows) == Where(rows, LAMBDA r: r.ops > 0)
Idle == {<<"no trace data">>, <<"trace is running with no matching events">>}

diagnose(e) ==
    LET active == Active(e.trace.rows) IN
    snapshot_insights(e.snapshot)
    \o Given(e.streams[2] > 0 /\ e.streams[1] < e.streams[2], <<Insight("Warn", <<"ssh streams", e.streams>>)>>)
    \o io_limit_insights(e.nodes)
    \o inflight_op_insights(e.nodes)
    \o Given(e.trace.errors # <<>>, <<Insight("Bad", <<"trace error on", Last(e.trace.errors)>>)>>)
    \o (IF active = <<>> THEN <<>> ELSE osd_trace_insights(e.nodes, active))
    \o node_pressure_insights(e.nodes)
    \o kfs_insights(e.trace.kfs)
    \o rados_insights(e.trace.rados)
    \o cross_source_insight(active, e.trace.rados)
    \o Given(active = <<>> /\ e.trace.kfs = <<>> /\ e.trace.rados = <<>>,
             <<Insight("Info", IF e.trace.running THEN <<"trace is running with no matching events">>
                               ELSE <<"no trace data">>)>>)

(* An observation is worth keeping unless all is well or nothing traced.   *)
Kept(insight) == insight.level # "Ok" /\ insight.text \notin Idle

(* Entries leave from the front only, by age and then by number.           *)
Expire(history, now) ==
    LET young == {i \in DOMAIN history: now - history[i].at <= Keep}
    IN IF young = {} THEN <<>> ELSE SubSeq(history, Min(young), Len(history))

(* A capture of any time makes a later one of the same text a duplicate.   *)
Duplicate_fault(history, now, text) == \E i \in DOMAIN history: history[i].insight.text = text

(* Only a repetition of the last entry is a duplicate.                     *)
Duplicate_last_fault(history, now, text) ==
    history # <<>> /\ Last(history).insight.text = text /\ now - Last(history).at <= Dedup

Duplicate(history, now, text) ==
    \E i \in DOMAIN history: now - history[i].at <= Dedup /\ history[i].insight.text = text

Limited(history) ==
    IF Len(history) > HistoryLimit THEN SubSeq(history, Len(history) - HistoryLimit + 1, Len(history)) ELSE history

Remembered(history, entry) ==
    IF Duplicate(history, entry.at, entry.insight.text) THEN history ELSE Append(history, entry)

remember_insights(history, now, insights) ==
    Limited(FoldLeft(Remembered, Expire(history, now),
                     Mapped(Where(insights, Kept), LAMBDA insight: [at |-> now, insight |-> insight])))

(* The panel: what is observed now, then the past, the newest first.       *)
Texts(insights) == {insights[i].text : i \in DOMAIN insights}

operator_insights ==
    LET current == diagnose(evidence)
        past == Where(Reverse(insight_history),
                          LAMBDA t: second - t.at <= Keep /\ t.insight.text \notin Texts(current))
    IN current \o Mapped(past, LAMBDA t: t.insight)

-----------------------------------------------------------------------------
(* A line of the cluster stream, the only one that captures the insights.  *)
cluster_line ==
    \E s \in Snapshots \ {None}:
        LET now == diagnose([evidence EXCEPT !.snapshot = s]) IN
        /\ evidence' = [evidence EXCEPT !.snapshot = s]
        /\ insight_history' = remember_insights(insight_history, second, now)
        /\ captured' = [t \in DOMAIN captured \cup Texts(Where(now, Kept)) |->
                           IF t \in Texts(Where(now, Kept)) THEN second ELSE captured[t]]
        /\ UNCHANGED <<second, clock_set>>

(* A line of a node stream, a change of a stream's state, and what the     *)
(* tracers and the passing of the window make of the trace.                *)
evidence_changes ==
    /\ \/ \E h \in NodeHosts, n \in NodeStates:
             evidence' = [evidence EXCEPT !.nodes = [k \in DOMAIN @ \cup {h} |-> IF k = h THEN n ELSE @[k]]]
       \/ \E c \in StreamCounts: evidence' = [evidence EXCEPT !.streams = c]
       \/ \E t \in Traces: evidence' = [evidence EXCEPT !.trace = t]
    /\ UNCHANGED <<insight_history, second, captured, clock_set>>

(* Time passes; the clock is set back at most once.                        *)
clock_moves ==
    /\ second' \in 0 .. LastSecond
    /\ second' = second + 1 \/ (second' < second /\ ~clock_set)
    /\ clock_set' = (clock_set \/ second' < second)
    /\ UNCHANGED <<evidence, insight_history, captured>>

NoTrace == [rows |-> <<>>, errors |-> <<>>, kfs |-> <<>>, rados |-> <<>>, running |-> FALSE]
NoEvidence == [snapshot |-> None, streams |-> <<0, 0>>, nodes |-> <<>>, trace |-> NoTrace]

InsightsInit ==
    /\ evidence = NoEvidence
    /\ insight_history = <<>> /\ captured = <<>>
    /\ second = 0 /\ clock_set = FALSE

InsightsNext == cluster_line \/ evidence_changes \/ clock_moves

InsightsSpec == InsightsInit /\ [][InsightsNext]_insightsVars

-----------------------------------------------------------------------------
(* Types: the history is bounded and holds neither what is well nor the    *)
(* hint that nothing is traced.                                            *)
InsightsTypeOK ==
    /\ Len(insight_history) <= HistoryLimit
    /\ \A i \in DOMAIN insight_history:
          LET entry == insight_history[i] IN
          /\ entry.at \in 0 .. LastSecond
          /\ entry.insight.level \in {"Info", "Warn", "Bad"}
          /\ entry.insight.text \notin Idle

(* What an operator must hear of, said without the rules.  Of equally slow *)
(* OSDs the last is the one whose host is looked at.                       *)
Slower(a, b) == a.max < b.max \/ (a.max = b.max /\ a.ops < b.ops)
Slowest(rows) ==
    {i \in DOMAIN rows: \A j \in DOMAIN rows: ~Slower(rows[i], rows[j]) /\ (j > i => Slower(rows[j], rows[i]))}
Loaded(node) == node # None /\ (node.cpu >= 85 \/ node.mem >= 85)
NodeAlarm(node) == node.limits \/ node.inflight # {} \/ node.stall >= 5

Alarming(e) ==
    LET s == e.snapshot
        rows == Active(e.trace.rows)
    IN \/ s # None /\ (\/ s.health # "HEALTH_OK" \/ s.pgs # <<>> \/ ~s.clean \/ s.recovering > 0
                       \/ \E p \in ToSet(s.pools): p.domains > 0 /\ p.size > p.domains
                       \/ s.full_ratio > 0 /\ \E o \in ToSet(s.osds): o.used >= s.full_ratio)
       \/ e.streams[1] < e.streams[2]
       \/ \E h \in DOMAIN e.nodes: NodeAlarm(e.nodes[h])
       \/ e.trace.errors # <<>>
       \/ \E r \in ToSet(rows): r.max >= SLOW \/ \E c \in ToSet(Components): r.part[c] >= SLOW
       \/ \E i \in Slowest(rows): Loaded(node_for_host(e.nodes, rows[i].host))
       \/ \E event \in ToSet(e.trace.kfs): event.us >= SLOW \/ event.mark
       \/ \E event \in ToSet(e.trace.rados): event.us >= SLOW

(* The dashboard, which shows warnings and errors alone, is empty exactly  *)
(* when nothing is wrong: none of the rules hides the symptom of another,  *)
(* and none raises an alarm on calm evidence.                              *)
AlarmsAreTrue ==
    (\E i \in DOMAIN diagnose(evidence): diagnose(evidence)[i].level \in {"Warn", "Bad"}) <=> Alarming(evidence)

(* What is named is the worst: the operations named have not been waiting  *)
(* for less time than one that is not, the OSD and the client row named    *)
(* hold the greatest latency, and "no obvious slow OSD" is said only with  *)
(* no slow row.                                                            *)
WorstIsNamed ==
    LET texts == Texts(diagnose(evidence))
        active == ToSet(Active(evidence.trace.rows))
        Said(kind) == {t \in texts: t[1] = kind}
        named == {[host |-> t[2], osd |-> t[3], age |-> t[4]]: t \in Said("in flight")}
    IN /\ \A o \in InFlight(evidence.nodes) \ named: Cardinality(named) = 4 /\ \A n \in named: n.age >= o.age
       /\ \A t \in Said("last"): \A r \in active: r.max <= t[5]
       /\ \A t \in Said("kfstrace"): \A e \in ToSet(evidence.trace.kfs): e.us <= t[4]
       /\ \A t \in Said("radostrace"): \A e \in ToSet(evidence.trace.rados): e.us <= t[4]
       /\ Said("no obvious slow OSD") # {} => \A r \in active: r.max < SLOW

(* What the panel says of the present is true.                             *)
VerdictsTrue == AlarmsAreTrue /\ WorstIsNamed

(* No echo: whatever the clock does, two entries of one text are further   *)
(* apart than the time within which they count as one.                     *)
NoEcho ==
    \A i, j \in DOMAIN insight_history:
        i < j /\ insight_history[i].insight.text = insight_history[j].insight.text
            => insight_history[j].at - insight_history[i].at > Dedup

(* What was captured stays on the panel for as long as the README says,    *)
(* less the time within which a repetition counts as the entry before it,  *)
(* unless the history is full or the clock has been set back.              *)
CapturedStays ==
    \A t \in DOMAIN captured:
        ~clock_set /\ second - captured[t] <= Keep - Dedup =>
            \/ t \in Texts(operator_insights)
            \/ Len(insight_history) = HistoryLimit

(* "This preserves short recovery, scrub, peer-wait, and in-flight slow-op *)
(* evidence after the live symptom disappears": a warning or error that    *)
(* leaves the present part of the panel is in its past.                    *)
EvidenceStays ==
    [][\A i \in DOMAIN diagnose(evidence):
          diagnose(evidence)[i].level \in {"Warn", "Bad"}
              => diagnose(evidence)[i].text \in Texts(operator_insights')]_insightsVars
=============================================================================
