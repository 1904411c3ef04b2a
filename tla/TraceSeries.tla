---------------------------- MODULE TraceSeries ----------------------------
(***************************************************************************)
(* What becomes of the lines of osdtrace: how trace.rs reads one, the      *)
(* buffer of events and the ring of buckets per OSD that drain_worker_     *)
(* messages of app.rs keeps, and the rows of the trace panel that          *)
(* trace_graph_rows computes for the window.  Time is that of the wall     *)
(* clock, in buckets: it may step back.                                    *)
(***************************************************************************)
EXTENDS Integers, Sequences, FiniteSets, SequencesExt, FiniteSetsExt, Lists

CONSTANTS
    Lines,       \* lines: [kind, osd, pg, latency, peer, peer_latency]
    OsdOrder,    \* the OSD names in the order of osd_sort_key
    PgOrder,     \* the PG names in the order of pg_sort_key
    SnapshotOsds, \* the OSDs of the cluster snapshot
    Dash,        \* "-"
    BUCKET_SECS, \* TRACE_BUCKET_SECS
    Ttls,        \* what trace_ttl_secs may be set to
    Windows,     \* what trace_window_secs may be set to
    Limit, Drop, \* a buffer over the limit is cut by Drop
    MaxTime,     \* bound: the time
    MaxEvents    \* bound: the events that are recorded

ASSUME SeriesAssumption ==
    /\ BUCKET_SECS \in Nat \ {0}
    /\ Ttls \subseteq Nat /\ \E t \in Ttls: \A v \in Ttls: v <= t
    /\ Windows \subseteq Nat /\ \E w \in Windows: \A v \in Windows: v <= w
    /\ Limit \in Nat /\ Drop \in 1 .. Limit
    /\ MaxTime \in Nat /\ MaxEvents \in Nat
    /\ SnapshotOsds \subseteq ToSet(OsdOrder)
    /\ Dash \notin ToSet(OsdOrder) \cup ToSet(PgOrder)
    /\ OsdOrder \in Seq(ToSet(OsdOrder)) /\ PgOrder \in Seq(ToSet(PgOrder))
    /\ Lines \subseteq [kind: {"op", "error", "header"},
                        osd: ToSet(OsdOrder) \cup {Dash}, pg: ToSet(PgOrder) \cup {Dash}, latency: Nat,
                        peer: ToSet(OsdOrder) \cup {Dash}, peer_latency: Nat]

VARIABLES
    trace_series, \* OSD -> VecDeque<TraceBucket>
    trace_events, \* the buffer that the flow panel reads
    clock,        \* the current bucket
    trace_window, \* trace_window_secs
    trace_ttl,   \* trace_ttl_secs
    seen_events,  \* history: all events since the start or the last clear
    set_back,     \* history: whether the time has stepped back since then
    least_kept    \* history: the shortest retention since then

seriesVars == <<trace_series, trace_events, clock, trace_window, trace_ttl, seen_events, set_back,
                least_kept>>

OSDs == ToSet(OsdOrder)
Larger(a, b) == IF a > b THEN a ELSE b
Place(order, x) == SelectInSeq(order, LAMBDA y: y = x)

-----------------------------------------------------------------------------
(* parse_trace_event: a line without an operation is no event; the number  *)
(* of an OSD becomes its name (normalize_osd_name) when it is recorded.    *)
IsEvent(line) == line.kind \in {"op", "error"}

parse_trace_event(line) ==
    IF line.kind = "error"
    THEN [line EXCEPT !.osd = Dash, !.pg = Dash, !.latency = 0, !.peer = Dash, !.peer_latency = 0]
    ELSE line

-----------------------------------------------------------------------------
(* The buckets.                                                            *)

trace_bucket_count(secs) == (Larger(secs, 1) + BUCKET_SECS - 1) \div BUCKET_SECS

NoStats == [ops |-> 0, sum |-> 0, max |-> 0]
NewBucket(id) ==
    [bucket |-> id, all |-> NoStats, peer_max |-> 0, slow_peer |-> "", pgs |-> <<>>]

Counted(stats, latency) ==
    [ops |-> stats.ops + 1, sum |-> stats.sum + latency, max |-> Larger(stats.max, latency)]

(* The maximum of the last bucket.                                         *)
Merged_fault(a, b) == [ops |-> a.ops + b.ops, sum |-> a.sum + b.sum, max |-> b.max]

Merged(a, b) == [ops |-> a.ops + b.ops, sum |-> a.sum + b.sum, max |-> Larger(a.max, b.max)]

StatsOf(pgs, pg) == IF pg \in DOMAIN pgs THEN pgs[pg] ELSE NoStats

(* A peer that is slower than the slowest takes over.                      *)
Updated(b, event) ==
    [b EXCEPT !.all = Counted(@, event.latency),
              !.peer_max = Larger(@, event.peer_latency),
              !.slow_peer = IF event.peer_latency > b.peer_max THEN event.peer ELSE @,
              !.pgs = IF event.pg = Dash THEN @
                      ELSE [pg \in DOMAIN @ \cup {event.pg} |->
                               IF pg = event.pg THEN Counted(StatsOf(@, pg), event.latency) ELSE @[pg]]]

needs_new_bucket(ring, id) == ring = <<>> \/ Last(ring).bucket # id

Trimmed(ring, count) ==
    IF Len(ring) > count THEN SubSeq(ring, Len(ring) - count + 1, Len(ring)) ELSE ring

Ring(series, osd) == IF osd \in DOMAIN series THEN series[osd] ELSE <<>>

(* record_trace_event_at.                                                  *)
Recorded(series, event, id, retention) ==
    IF event.osd = Dash \/ event.kind = "error" THEN series
    ELSE LET ring == Ring(series, event.osd)
             grown == Trimmed(IF needs_new_bucket(ring, id) THEN Append(ring, NewBucket(id)) ELSE ring,
                              trace_bucket_count(retention))
         IN [osd \in DOMAIN series \cup {event.osd} |->
                IF osd # event.osd THEN series[osd]
                ELSE [grown EXCEPT ![Len(grown)] = Updated(@, event)]]

-----------------------------------------------------------------------------
(* trace_graph_rows_at.                                                    *)

first_bucket == clock - trace_bucket_count(trace_window) + 1
InWindow(id) == first_bucket <= id /\ id <= clock

(* The two busiest PGs.                                                    *)
hot_pg_label(pgs) ==
    LET Before(a, b) ==
            \/ pgs[a].ops > pgs[b].ops
            \/ pgs[a].ops = pgs[b].ops /\ pgs[a].max > pgs[b].max
            \/ pgs[a].ops = pgs[b].ops /\ pgs[a].max = pgs[b].max /\ Place(PgOrder, a) < Place(PgOrder, b)
        busiest == Sorted(DOMAIN pgs, Before)
    IN [i \in 1 .. (IF Len(busiest) < 2 THEN Len(busiest) ELSE 2) |-> <<busiest[i], pgs[busiest[i]].ops>>]

(* Each bucket of the window adds to the row.                              *)
MergedBucket(stats, b) == Merged(stats, b.all)

MergedPgs(pgs, b) == [pg \in DOMAIN pgs \cup DOMAIN b.pgs |-> Merged(StatsOf(pgs, pg), StatsOf(b.pgs, pg))]

SlowerPeer(peer, b) == IF b.peer_max > peer.max THEN [max |-> b.peer_max, osd |-> b.slow_peer] ELSE peer

(* A later bucket of the same id replaces the earlier one.                 *)
Pointed(points, b) == [points EXCEPT ![b.bucket] = b.all.max]

trace_points(ring) == FoldLeft(Pointed, [id \in first_bucket .. clock |-> 0], ring)

RowOf(osd) ==
    LET ring == Where(Ring(trace_series, osd), LAMBDA b: InWindow(b.bucket))
        pgs == FoldLeft(MergedPgs, <<>>, ring)
        peer == FoldLeft(SlowerPeer, [max |-> 0, osd |-> ""], ring)
    IN [osd |-> osd, stats |-> FoldLeft(MergedBucket, NoStats, ring), peer_max |-> peer.max, slow_peer |-> peer.osd,
        pg_count |-> Cardinality(DOMAIN pgs), pgs |-> pgs, hot_pg |-> hot_pg_label(pgs), points |-> trace_points(ring)]

Precede(a, b) ==
    \/ a.stats.ops > b.stats.ops
    \/ a.stats.ops = b.stats.ops /\ a.stats.max > b.stats.max
    \/ a.stats.ops = b.stats.ops /\ a.stats.max = b.stats.max /\ Place(OsdOrder, a.osd) < Place(OsdOrder, b.osd)

(* One row for each OSD of the snapshot, the series and the events.        *)
trace_graph_rows ==
    LET osds == SnapshotOsds \cup ((DOMAIN trace_series \cup {e.osd : e \in ToSet(trace_events)}) \ {Dash})
    IN Sorted({RowOf(osd): osd \in osds}, Precede)

-----------------------------------------------------------------------------
Retention == Larger(trace_ttl, trace_window)
LongestKept == Larger(Max(Ttls), Max(Windows))

Capped(events) == IF Len(events) > Limit THEN SubSeq(events, Drop + 1, Len(events)) ELSE events

(* WorkerMsg::TraceLine.                                                   *)
trace_line ==
    /\ Len(seen_events) < MaxEvents
    /\ \E line \in Lines:
          IF ~IsEvent(line) THEN UNCHANGED <<trace_series, trace_events, seen_events, least_kept>>
          ELSE LET event == parse_trace_event(line) IN
               /\ trace_series' = Recorded(trace_series, event, clock, Retention)
               /\ trace_events' = Capped(Append(trace_events, event))
               /\ seen_events' = Append(seen_events, [event |-> event, at |-> clock])
               /\ least_kept' = IF Retention < least_kept THEN Retention ELSE least_kept
    /\ UNCHANGED <<clock, trace_window, trace_ttl, set_back>>

(* The clock moves on, or is set back.                                     *)
time_passes ==
    /\ clock' \in 0 .. MaxTime
    /\ clock' = clock + 1 \/ clock' = clock - 1
    /\ set_back' = (set_back \/ clock' < clock)
    /\ UNCHANGED <<trace_series, trace_events, trace_window, trace_ttl, seen_events, least_kept>>

(* The config screen sets another window and TTL.                          *)
times_set ==
    /\ trace_window' \in Windows /\ trace_ttl' \in Ttls
    /\ UNCHANGED <<trace_series, trace_events, clock, seen_events, set_back, least_kept>>

(* The x key.                                                              *)
clear_series ==
    /\ trace_series' = <<>> /\ trace_events' = <<>> /\ seen_events' = <<>>
    /\ set_back' = FALSE /\ least_kept' = LongestKept
    /\ UNCHANGED <<clock, trace_window, trace_ttl>>

SeriesInit ==
    /\ trace_series = <<>> /\ trace_events = <<>> /\ seen_events = <<>>
    /\ clock = 0 /\ trace_window \in Windows /\ trace_ttl \in Ttls
    /\ set_back = FALSE /\ least_kept = LongestKept

SeriesNext == trace_line \/ time_passes \/ times_set \/ clear_series

SeriesSpec == SeriesInit /\ [][SeriesNext]_seriesVars

-----------------------------------------------------------------------------
(* The events of the window, as they came.                                 *)
Expected(osd) ==
    Where(seen_events, LAMBDA e: e.event.osd = osd /\ e.event.kind # "error" /\ InWindow(e.at))

CountedEvent(stats, e) == Counted(stats, e.event.latency)
StatsOver(events) == FoldLeft(CountedEvent, NoStats, events)

(* Types: no ring is longer than its retention, and a clock that is set    *)
(* back does not make it grow.                                             *)
SeriesTypeOK ==
    /\ DOMAIN trace_series \subseteq OSDs
    /\ \A osd \in DOMAIN trace_series:
          Len(trace_series[osd]) \in 1 .. trace_bucket_count(LongestKept)
    /\ trace_window \in Windows /\ trace_ttl \in Ttls /\ clock \in 0 .. MaxTime

(* The panel shows what happened in the window: while the clock has not    *)
(* stepped back and the retention has covered the window, the operations,  *)
(* the latencies, those of each PG and the points of an OSD are those of   *)
(* its lines, and the slowest peer is one that a line names.               *)
WindowExact ==
    ~set_back /\ trace_bucket_count(least_kept) >= trace_bucket_count(trace_window) =>
        \A osd \in OSDs:
            LET row == RowOf(osd)
                events == Expected(osd)
            IN /\ row.stats = StatsOver(events)
               /\ \A pg \in ToSet(PgOrder):
                     StatsOf(row.pgs, pg) = StatsOver(Where(events, LAMBDA e: e.event.pg = pg))
               /\ \A id \in first_bucket .. clock:
                     row.points[id] = StatsOver(Where(events, LAMBDA e: e.at = id)).max
               /\ row.peer_max > 0 => \E e \in ToSet(events):
                     e.event.peer = row.slow_peer /\ e.event.peer_latency = row.peer_max

(* Whatever the clock does, no operation is counted twice or in another    *)
(* window: a row never shows more operations, or a longer latency, than    *)
(* the lines of the window.                                                *)
NothingInvented ==
    \A osd \in OSDs:
        LET row == RowOf(osd)
            stats == StatsOver(Expected(osd))
        IN row.stats.ops <= stats.ops /\ row.stats.max <= stats.max

(* The rows of the panel: each OSD that is in the cluster or was traced    *)
(* has one, and the busiest come first.                                    *)
RowsComplete ==
    LET rows == trace_graph_rows IN
    /\ DOMAIN trace_series \cup SnapshotOsds \subseteq {rows[i].osd : i \in DOMAIN rows}
    /\ \A i, j \in DOMAIN rows: i < j => rows[i].osd # rows[j].osd /\ rows[i].stats.ops >= rows[j].stats.ops

(* The buffer is the end of what came, without a gap, and never shorter    *)
(* than the limit less one cut.                                            *)
BufferIsLatest ==
    LET seen == [i \in DOMAIN seen_events |-> seen_events[i].event] IN
    /\ Len(trace_events) <= Limit
    /\ trace_events = SubSeq(seen, Len(seen) - Len(trace_events) + 1, Len(seen))
    /\ Len(trace_events) >= (IF Len(seen) <= Limit THEN Len(seen) ELSE Limit - Drop + 1)

(* What the trace panel shows of a run is what came.                       *)
SeriesIsTrue == WindowExact /\ NothingInvented /\ RowsComplete /\ BufferIsLatest
=============================================================================
