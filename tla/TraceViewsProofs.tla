-------------------------- MODULE TraceViewsProofs --------------------------
(***************************************************************************)
(* Proofs about the views of the trace lines: the trace panel of           *)
(* TraceSeries and the flow tree of Flow, for any lines, OSDs, PGs, limits *)
(* and windows.                                                            *)
(***************************************************************************)
EXTENDS Flow, TraceSeries, ListTheorems

Counting == INSTANCE FoldTheorems WITH Step <- CountedEvent
Merging == INSTANCE FoldTheorems WITH Step <- MergedBucket
ByPg == INSTANCE FoldTheorems WITH Step <- MergedPgs
SlowPeers == INSTANCE FoldTheorems WITH Step <- SlowerPeer
Pointing == INSTANCE FoldTheorems WITH Step <- Pointed

-----------------------------------------------------------------------------
(* What a list of buckets amounts to, for one PG or, as the part Dash, for *)
(* all of an OSD.                                                          *)

PGs == ToSet(PgOrder)
Parts == PGs \cup {Dash}
Peers == OSDs \cup {Dash, ""}
Line == [kind: {"op", "error", "header"}, osd: OSDs \cup {Dash}, pg: Parts, latency: Nat,
         peer: OSDs \cup {Dash}, peer_latency: Nat]
Event == [event: Line, at: Nat]
Stats == [ops: Nat, sum: Nat, max: Nat]
PgStats == UNION {[D -> Stats]: D \in SUBSET PGs}
Bucket == [bucket: Nat, all: Stats, peer_max: Nat, slow_peer: Peers, pgs: PgStats]

Part(b, k) == IF k = Dash THEN b.all ELSE StatsOf(b.pgs, k)
Total(s, k) == IF k = Dash THEN Merging!Folded(NoStats, s) ELSE StatsOf(ByPg!Folded(<<>>, s), k)
CountsIn(event, k) == k = Dash \/ event.pg = k

LEMMA StatsTypes ==
    /\ NoStats \in Stats
    /\ \A a, b \in Stats: Merged(a, b) \in Stats
    /\ \A a \in Stats, n \in Nat: Counted(a, n) \in Stats
  BY DEF NoStats, Stats, Merged, Counted, Larger

LEMMA StatsSame ==
    ASSUME NEW a \in Stats, NEW b \in Stats, a.ops = b.ops, a.sum = b.sum, a.max = b.max
    PROVE  a = b
  BY DEF Stats

(* No operations add nothing, and an operation is counted in a sum when it *)
(* is counted in the last part of it.                                      *)
LEMMA MergedNone == ASSUME NEW a \in Stats PROVE Merged(a, NoStats) = a
  <1>1. Merged(a, NoStats) \in Stats
    BY StatsTypes
  <1>2. Merged(a, NoStats).ops = a.ops /\ Merged(a, NoStats).sum = a.sum /\ Merged(a, NoStats).max = a.max
    BY DEF Merged, NoStats, Stats, Larger
  <1>3. QED BY <1>1, <1>2, StatsSame

LEMMA MergedCounted ==
    ASSUME NEW a \in Stats, NEW b \in Stats, NEW n \in Nat
    PROVE  Merged(a, Counted(b, n)) = Counted(Merged(a, b), n)
  <1>1. Merged(a, Counted(b, n)) \in Stats /\ Counted(Merged(a, b), n) \in Stats
    BY StatsTypes
  <1>2. \A x, y \in Nat: x + (y + 1) = (x + y) + 1 /\ x + (y + n) = (x + y) + n
    OBVIOUS
  <1>3. \A x, y \in Nat: Larger(x, Larger(y, n)) = Larger(Larger(x, y), n)
    BY DEF Larger
  <1>4. /\ a.ops \in Nat /\ a.sum \in Nat /\ a.max \in Nat
        /\ b.ops \in Nat /\ b.sum \in Nat /\ b.max \in Nat
    BY DEF Stats
  <1>5. /\ Merged(a, Counted(b, n)).ops = Counted(Merged(a, b), n).ops
        /\ Merged(a, Counted(b, n)).sum = Counted(Merged(a, b), n).sum
        /\ Merged(a, Counted(b, n)).max = Counted(Merged(a, b), n).max
    BY <1>2, <1>3, <1>4 DEF Merged, Counted
  <1>6. QED BY <1>1, <1>5, StatsSame

LEMMA PgStatsTypes ==
    /\ <<>> \in PgStats
    /\ \A p \in PgStats: DOMAIN p \subseteq PGs /\ \A k \in DOMAIN p: p[k] \in Stats
    /\ \A p \in PgStats, k \in PGs: StatsOf(p, k) \in Stats
    /\ \A D \in SUBSET PGs: [D -> Stats] \subseteq PgStats
    /\ \A k \in PGs: StatsOf(<<>>, k) = NoStats
  <1>1. \A D \in SUBSET PGs: [D -> Stats] \subseteq PgStats
    BY DEF PgStats
  <1>2. <<>> \in [{} -> Stats] /\ {} \in SUBSET PGs
    OBVIOUS
  <1>3. <<>> \in PgStats
    BY <1>1, <1>2
  <1>4. \A p \in PgStats: DOMAIN p \subseteq PGs /\ \A k \in DOMAIN p: p[k] \in Stats
    BY DEF PgStats
  <1>5. \A p \in PgStats, k \in PGs: StatsOf(p, k) \in Stats
    BY <1>4, StatsTypes DEF StatsOf
  <1>6. \A k \in PGs: StatsOf(<<>>, k) = NoStats
    BY DEF StatsOf
  <1>7. QED BY <1>1, <1>3, <1>4, <1>5, <1>6

LEMMA MergedPgsOf ==
    ASSUME NEW p \in PgStats, NEW b \in Bucket
    PROVE  /\ MergedPgs(p, b) \in PgStats
           /\ \A k \in PGs: StatsOf(MergedPgs(p, b), k) = Merged(StatsOf(p, k), StatsOf(b.pgs, k))
  <1> DEFINE q == b.pgs
             D == DOMAIN p \cup DOMAIN q
             m == [k \in D |-> Merged(StatsOf(p, k), StatsOf(q, k))]
  <1>1. q \in PgStats
    BY DEF Bucket
  <1>2. MergedPgs(p, b) = m
    BY DEF MergedPgs
  <1> HIDE DEF q
  <1>3. D \in SUBSET PGs
    BY <1>1, PgStatsTypes
  <1>4. \A k \in PGs: Merged(StatsOf(p, k), StatsOf(q, k)) \in Stats
    BY <1>1, PgStatsTypes, StatsTypes
  <1>5. m \in [D -> Stats]
    BY <1>3, <1>4
  <1>6. m \in PgStats
    BY <1>3, <1>5, PgStatsTypes
  <1>7. \A k \in PGs: StatsOf(m, k) = Merged(StatsOf(p, k), StatsOf(q, k))
    <2>1. SUFFICES ASSUME NEW k \in PGs PROVE StatsOf(m, k) = Merged(StatsOf(p, k), StatsOf(q, k))
      OBVIOUS
    <2>2. CASE k \in D
      BY <2>2 DEF StatsOf
    <2>3. CASE k \notin D
      <3>1. StatsOf(m, k) = NoStats /\ StatsOf(p, k) = NoStats /\ StatsOf(q, k) = NoStats
        BY <2>3 DEF StatsOf
      <3>2. QED BY <3>1, MergedNone, StatsTypes
    <2>4. QED BY <2>2, <2>3
  <1> HIDE DEF m
  <1>8. QED BY <1>2, <1>6, <1>7 DEF q

LEMMA PartTypes == \A b \in Bucket, k \in Parts: Part(b, k) \in Stats
  <1>1. SUFFICES ASSUME NEW b \in Bucket, NEW k \in Parts PROVE Part(b, k) \in Stats
    OBVIOUS
  <1>2. b.all \in Stats /\ b.pgs \in PgStats
    BY DEF Bucket
  <1>3. QED BY <1>2, PgStatsTypes DEF Part, Parts

LEMMA TotalTypes ==
    ASSUME NEW s \in Seq(Bucket)
    PROVE  /\ Merging!Folded(NoStats, s) \in Stats /\ ByPg!Folded(<<>>, s) \in PgStats
           /\ \A k \in Parts: Total(s, k) \in Stats
  <1>1. \A a \in Stats, b \in Bucket: MergedBucket(a, b) \in Stats
    <2>1. \A b \in Bucket: b.all \in Stats
      BY DEF Bucket
    <2>2. QED BY <2>1, StatsTypes DEF MergedBucket
  <1>2. Merging!Folded(NoStats, s) \in Stats
    BY <1>1, StatsTypes, Merging!FoldTyped
  <1>3. ByPg!Folded(<<>>, s) \in PgStats
    BY MergedPgsOf, PgStatsTypes, ByPg!FoldTyped
  <1>4. \A k \in Parts: Total(s, k) \in Stats
    BY <1>2, <1>3, PgStatsTypes DEF Total, Parts
  <1>5. QED BY <1>2, <1>3, <1>4

LEMMA TotalNone == \A k \in Parts: Total(<<>>, k) = NoStats
  <1>1. Merging!Folded(NoStats, <<>>) = NoStats
    BY Merging!FoldNone
  <1>2. ByPg!Folded(<<>>, <<>>) = <<>>
    BY ByPg!FoldNone
  <1>3. QED BY <1>1, <1>2, PgStatsTypes DEF Total, Parts

LEMMA TotalMore ==
    ASSUME NEW s \in Seq(Bucket), NEW b \in Bucket
    PROVE  \A k \in Parts: Total(Append(s, b), k) = Merged(Total(s, k), Part(b, k))
  <1>1. Merging!Folded(NoStats, Append(s, b)) = MergedBucket(Merging!Folded(NoStats, s), b)
    BY Merging!FoldMore
  <1>2. ByPg!Folded(<<>>, Append(s, b)) = MergedPgs(ByPg!Folded(<<>>, s), b)
    BY ByPg!FoldMore
  <1>3. ByPg!Folded(<<>>, s) \in PgStats
    BY TotalTypes
  <1>4. \A k \in PGs: StatsOf(MergedPgs(ByPg!Folded(<<>>, s), b), k)
                          = Merged(StatsOf(ByPg!Folded(<<>>, s), k), StatsOf(b.pgs, k))
    BY <1>3, MergedPgsOf
  <1>5. QED BY <1>1, <1>2, <1>4 DEF Total, Part, Parts, MergedBucket

(* The buckets at some indexes.                                            *)
TotalAt(all, ixs, k) == Total(Picked(all, ixs), k)

LEMMA TotalAtMore ==
    ASSUME NEW all \in Seq(Bucket), NEW ixs \in SUBSET DOMAIN all, NEW j \in DOMAIN all, \A i \in ixs: i < j
    PROVE  \A k \in Parts: TotalAt(all, ixs \cup {j}, k) = Merged(TotalAt(all, ixs, k), Part(all[j], k))
  <1>1. Picked(all, ixs \cup {j}) = Append(Picked(all, ixs), all[j])
    BY PickedMore
  <1>2. Picked(all, ixs) \in Seq(Bucket) /\ all[j] \in Bucket
    BY PickedSeq
  <1>3. QED BY <1>1, <1>2, TotalMore DEF TotalAt

LEMMA TotalAtTypes ==
    ASSUME NEW all \in Seq(Bucket), NEW ixs \in SUBSET DOMAIN all
    PROVE  \A k \in Parts: TotalAt(all, ixs, k) \in Stats
  BY PickedSeq, TotalTypes DEF TotalAt

-----------------------------------------------------------------------------
(* An event in the last bucket.                                            *)

UpdatedPgs(pgs, event) ==
    IF event.pg = Dash THEN pgs
    ELSE [pg \in DOMAIN pgs \cup {event.pg} |->
             IF pg = event.pg THEN Counted(StatsOf(pgs, pg), event.latency) ELSE pgs[pg]]

LEMMA UpdatedPgsOf ==
    ASSUME NEW p \in PgStats, NEW event \in Line
    PROVE  /\ UpdatedPgs(p, event) \in PgStats
           /\ \A k \in PGs: StatsOf(UpdatedPgs(p, event), k)
                 = IF k = event.pg THEN Counted(StatsOf(p, k), event.latency) ELSE StatsOf(p, k)
  <1> DEFINE pg == event.pg
             n == event.latency
             D == DOMAIN p \cup {pg}
             u == [k \in D |-> IF k = pg THEN Counted(StatsOf(p, k), n) ELSE p[k]]
  <1>1. pg \in Parts /\ n \in Nat /\ Dash \notin PGs
    BY SeriesAssumption DEF Line, PGs
  <1>2. UpdatedPgs(p, event) = IF pg = Dash THEN p ELSE u
    BY DEF UpdatedPgs
  <1> HIDE DEF pg, n
  <1>3. CASE pg = Dash
    BY <1>1, <1>2, <1>3 DEF pg, n
  <1>4. CASE pg # Dash
    <2>1. pg \in PGs
      BY <1>1, <1>4 DEF Parts
    <2>2. D \in SUBSET PGs /\ \A k \in DOMAIN p: p[k] \in Stats
      BY <2>1, PgStatsTypes
    <2>3. Counted(StatsOf(p, pg), n) \in Stats
      BY <1>1, <2>1, PgStatsTypes, StatsTypes
    <2>4. u \in [D -> Stats]
      BY <2>2, <2>3
    <2>5. u \in PgStats
      BY <2>2, <2>4, PgStatsTypes
    <2>6. \A k \in PGs: StatsOf(u, k) = IF k = pg THEN Counted(StatsOf(p, k), n) ELSE StatsOf(p, k)
      BY DEF StatsOf
    <2> HIDE DEF u
    <2>7. QED BY <1>2, <1>4, <2>5, <2>6 DEF pg, n
  <1>5. QED BY <1>3, <1>4

LEMMA UpdatedBucket ==
    ASSUME NEW b \in Bucket, NEW event \in Line
    PROVE  /\ Updated(b, event) \in Bucket
           /\ Updated(b, event).bucket = b.bucket
           /\ \A k \in Parts: Part(Updated(b, event), k)
                 = IF CountsIn(event, k) THEN Counted(Part(b, k), event.latency) ELSE Part(b, k)
           /\ \/ Updated(b, event).peer_max = b.peer_max /\ Updated(b, event).slow_peer = b.slow_peer
              \/ Updated(b, event).peer_max = event.peer_latency /\ Updated(b, event).slow_peer = event.peer
  <1> DEFINE d == Updated(b, event)
             names == {"bucket", "all", "peer_max", "slow_peer", "pgs"}
  <1>1. /\ b.bucket \in Nat /\ b.all \in Stats /\ b.peer_max \in Nat /\ b.slow_peer \in Peers /\ b.pgs \in PgStats
        /\ event.latency \in Nat /\ event.peer_latency \in Nat /\ event.peer \in Peers
    BY DEF Bucket, Line, Peers
  <1>2. /\ d.bucket = b.bucket /\ d.all = Counted(b.all, event.latency)
        /\ d.peer_max = Larger(b.peer_max, event.peer_latency)
        /\ d.slow_peer = IF event.peer_latency > b.peer_max THEN event.peer ELSE b.slow_peer
        /\ d.pgs = UpdatedPgs(b.pgs, event)
        /\ DOMAIN d = names /\ d = [f \in names |-> d[f]]
    BY DEF Updated, Bucket, UpdatedPgs
  <1> HIDE DEF d
  <1>3. d.bucket \in Nat /\ d.all \in Stats /\ d.peer_max \in Nat /\ d.slow_peer \in Peers /\ d.pgs \in PgStats
    BY <1>1, <1>2, StatsTypes, UpdatedPgsOf DEF Larger
  <1>4. d \in Bucket
    BY <1>2, <1>3 DEF Bucket
  <1>5. \A k \in Parts: Part(d, k) = IF CountsIn(event, k) THEN Counted(Part(b, k), event.latency) ELSE Part(b, k)
    <2>1. Dash \notin PGs
      BY SeriesAssumption DEF PGs
    <2>2. \A k \in PGs: StatsOf(d.pgs, k)
             = IF k = event.pg THEN Counted(StatsOf(b.pgs, k), event.latency) ELSE StatsOf(b.pgs, k)
      BY <1>1, <1>2, UpdatedPgsOf
    <2>3. QED BY <1>2, <2>1, <2>2 DEF Part, Parts, CountsIn
  <1>6. \/ d.peer_max = b.peer_max /\ d.slow_peer = b.slow_peer
        \/ d.peer_max = event.peer_latency /\ d.slow_peer = event.peer
    BY <1>1, <1>2 DEF Larger
  <1>7. QED BY <1>2, <1>4, <1>5, <1>6 DEF d

LEMMA NewBucketTypes ==
    ASSUME NEW id \in Nat
    PROVE  /\ NewBucket(id) \in Bucket /\ NewBucket(id).bucket = id /\ NewBucket(id).peer_max = 0
           /\ \A k \in Parts: Part(NewBucket(id), k) = NoStats
  <1>1. NewBucket(id) \in Bucket
    BY StatsTypes, PgStatsTypes DEF NewBucket, Bucket, Peers
  <1>2. \A k \in Parts: Part(NewBucket(id), k) = NoStats
    BY PgStatsTypes DEF NewBucket, Part, Parts
  <1>3. QED BY <1>1, <1>2 DEF NewBucket

(* The buckets with one for the event, and the event counted in it.        *)
Opened(all, id) == IF needs_new_bucket(all, id) THEN Append(all, NewBucket(id)) ELSE all
With(all, id, event) == [Opened(all, id) EXCEPT ![Len(Opened(all, id))] = Updated(@, event)]

LEMMA OpenedBuckets ==
    ASSUME NEW all \in Seq(Bucket), NEW id \in Nat
    PROVE  /\ Opened(all, id) \in Seq(Bucket)
           /\ Len(Opened(all, id)) \in Nat \ {0}
           /\ \/ Len(Opened(all, id)) = Len(all) /\ Opened(all, id) = all
              \/ /\ Len(Opened(all, id)) = Len(all) + 1
                 /\ Opened(all, id)[Len(all) + 1] = NewBucket(id)
           /\ \A i \in 1 .. Len(all): Opened(all, id)[i] = all[i]
           /\ Opened(all, id)[Len(Opened(all, id))].bucket = id
  <1> DEFINE o == Opened(all, id)
             new == NewBucket(id)
  <1>1. new \in Bucket /\ new.bucket = id /\ Len(all) \in Nat
    BY NewBucketTypes
  <1>2. CASE needs_new_bucket(all, id)
    <2>1. o = Append(all, new)
      BY <1>2 DEF Opened
    <2> HIDE DEF new
    <2>2. /\ o \in Seq(Bucket) /\ Len(o) = Len(all) + 1 /\ o[Len(all) + 1] = new
          /\ \A i \in 1 .. Len(all): o[i] = all[i]
      BY <1>1, <2>1
    <2>3. QED BY <1>1, <2>2 DEF new
  <1>3. CASE ~needs_new_bucket(all, id)
    <2>1. o = all /\ all # <<>> /\ Last(all).bucket = id
      BY <1>3 DEF Opened, needs_new_bucket
    <2>2. Len(all) # 0
      BY <2>1
    <2>3. all[Len(all)].bucket = id
      BY <2>1 DEF Last
    <2>4. QED BY <1>1, <2>1, <2>2, <2>3
  <1>4. QED BY <1>2, <1>3

LEMMA WithBuckets ==
    ASSUME NEW all \in Seq(Bucket), NEW id \in Nat, NEW event \in Line
    PROVE  LET last == Len(Opened(all, id)) IN
           /\ With(all, id, event) \in Seq(Bucket) /\ Len(With(all, id, event)) = last
           /\ With(all, id, event)[last] = Updated(Opened(all, id)[last], event)
           /\ With(all, id, event)[last].bucket = id
           /\ \A i \in 1 .. last - 1: With(all, id, event)[i] = Opened(all, id)[i]
           /\ \A i \in 1 .. last: With(all, id, event)[i].bucket = Opened(all, id)[i].bucket
  <1> DEFINE o == Opened(all, id)
             w == With(all, id, event)
             last == Len(o)
             u == Updated(o[last], event)
  <1>1. o \in Seq(Bucket) /\ last \in Nat \ {0} /\ last \in DOMAIN o /\ o[last].bucket = id
    BY OpenedBuckets
  <1>2. o[last] \in Bucket
    BY <1>1
  <1>3. u \in Bucket /\ u.bucket = id
    BY <1>1, <1>2, UpdatedBucket
  <1>4. w = [o EXCEPT ![last] = u]
    BY DEF With
  <1> HIDE DEF o, u, w
  <1>5. w \in Seq(Bucket) /\ Len(w) = last /\ w[last] = u /\ \A i \in 1 .. last - 1: w[i] = o[i]
    BY <1>1, <1>3, <1>4
  <1>6. \A i \in 1 .. last: i = last \/ i \in 1 .. last - 1
    BY <1>1
  <1>7. \A i \in 1 .. last: w[i].bucket = o[i].bucket
    BY <1>1, <1>3, <1>5, <1>6
  <1>8. QED BY <1>1, <1>3, <1>5, <1>7 DEF o, w, u

InBuckets(all, W) == {i \in DOMAIN all: all[i].bucket \in W}

(* The event is counted in every sum that its bucket is part of.           *)
LEMMA WithTotals ==
    ASSUME NEW all \in Seq(Bucket), NEW id \in Nat, NEW event \in Line, NEW W
    PROVE  LET w == With(all, id, event) IN
           \A k \in Parts: TotalAt(w, InBuckets(w, W), k)
              = IF id \in W /\ CountsIn(event, k) THEN Counted(TotalAt(all, InBuckets(all, W), k), event.latency)
                ELSE TotalAt(all, InBuckets(all, W), k)
  <1> DEFINE o == Opened(all, id)
             w == With(all, id, event)
             last == Len(o)
             front == {i \in 1 .. last - 1: o[i].bucket \in W}
             n == event.latency
  <1>1. /\ o \in Seq(Bucket) /\ last \in Nat \ {0} /\ Len(all) \in Nat
        /\ \/ last = Len(all) /\ o = all
           \/ last = Len(all) + 1 /\ o[last] = NewBucket(id)
        /\ \A i \in 1 .. Len(all): o[i] = all[i]
        /\ o[last].bucket = id
    <2>1. Len(all) \in Nat
      OBVIOUS
    <2>2. \/ last = Len(all) /\ o = all
          \/ last = Len(all) + 1 /\ o[last] = NewBucket(id)
      <3>1. \/ Len(o) = Len(all) /\ o = all
            \/ Len(o) = Len(all) + 1 /\ o[Len(all) + 1] = NewBucket(id)
        BY OpenedBuckets
      <3> HIDE DEF o
      <3>2. QED BY <3>1
    <2>3. QED BY <2>1, <2>2, OpenedBuckets
  <1>2. /\ w \in Seq(Bucket) /\ Len(w) = last
        /\ w[last] = Updated(o[last], event) /\ w[last].bucket = id
        /\ \A i \in 1 .. last - 1: w[i] = o[i]
    BY WithBuckets
  <1>3. n \in Nat
    BY DEF Line
  <1> HIDE DEF o, w
  <1>4. DOMAIN w = 1 .. last /\ DOMAIN o = 1 .. last /\ DOMAIN all = 1 .. Len(all)
    BY <1>1, <1>2
  <1>5. \A i \in 1 .. last: i = last \/ i \in 1 .. last - 1
    BY <1>1
  <1>6. \A i \in 1 .. last - 1: i \in 1 .. Len(all) /\ i \in 1 .. last /\ i < last
    BY <1>1
  <1>7. last \in DOMAIN w /\ last \in DOMAIN o /\ last \notin 1 .. last - 1
    <2>1. \A x \in Nat \ {0}: x \in 1 .. x /\ x \notin 1 .. x - 1
      OBVIOUS
    <2>2. last \in Nat \ {0}
      BY <1>1
    <2> HIDE DEF last
    <2>3. QED BY <1>4, <2>1, <2>2
  <1>8. InBuckets(w, W) = IF id \in W THEN front \cup {last} ELSE front
    BY <1>2, <1>4, <1>5, <1>6, <1>7 DEF InBuckets
  <1>9. InBuckets(all, W) = IF id \in W /\ last = Len(all) THEN front \cup {last} ELSE front
    <2>1. CASE last = Len(all)
      BY <1>1, <1>4, <1>5, <1>6, <1>7, <2>1 DEF InBuckets
    <2>2. CASE last = Len(all) + 1
      <3>1. 1 .. Len(all) = 1 .. last - 1
        BY <1>1, <2>2
      <3>2. last # Len(all)
        BY <1>1, <2>2
      <3>3. QED BY <1>1, <1>4, <3>1, <3>2 DEF InBuckets
    <2>3. QED BY <1>1, <2>1, <2>2
  <1>10. front \in SUBSET DOMAIN w /\ front \in SUBSET DOMAIN o /\ front \in SUBSET DOMAIN all
         /\ \A i \in front: i < last
    BY <1>4, <1>6
  <1>11. \A i \in front: w[i] = o[i] /\ all[i] = o[i]
    BY <1>1, <1>2, <1>6
  <1> HIDE DEF front, last
  <1>12. Picked(w, front) = Picked(o, front) /\ Picked(all, front) = Picked(o, front)
    BY <1>1, <1>10, <1>11, PickedSame
  <1>13. ASSUME NEW k \in Parts
         PROVE  /\ TotalAt(w, front, k) = TotalAt(all, front, k) /\ TotalAt(all, front, k) \in Stats
                /\ TotalAt(w, front \cup {last}, k) = Merged(TotalAt(all, front, k), Part(w[last], k))
                /\ last = Len(all)
                      => TotalAt(all, front \cup {last}, k) = Merged(TotalAt(all, front, k), Part(o[last], k))
                /\ last # Len(all) => Part(o[last], k) = NoStats
                /\ Part(o[last], k) \in Stats
                /\ Part(w[last], k) = IF CountsIn(event, k) THEN Counted(Part(o[last], k), n) ELSE Part(o[last], k)
    <2>1. TotalAt(w, front, k) = TotalAt(all, front, k)
      BY <1>12 DEF TotalAt
    <2>2. TotalAt(all, front, k) \in Stats
      BY <1>10, TotalAtTypes
    <2>3. TotalAt(w, front \cup {last}, k) = Merged(TotalAt(w, front, k), Part(w[last], k))
      BY <1>2, <1>7, <1>10, TotalAtMore
    <2>4. TotalAt(o, front \cup {last}, k) = Merged(TotalAt(o, front, k), Part(o[last], k))
      BY <1>1, <1>7, <1>10, TotalAtMore
    <2>5. TotalAt(o, front, k) = TotalAt(all, front, k)
      BY <1>12 DEF TotalAt
    <2>6. last = Len(all) => o = all
      BY <1>1 DEF last
    <2>7. last # Len(all) => Part(o[last], k) = NoStats
      BY <1>1, NewBucketTypes
    <2>8. o[last] \in Bucket
      BY <1>1, <1>7
    <2>9. Part(o[last], k) \in Stats
      BY <2>8, PartTypes
    <2>10. Part(w[last], k) = IF CountsIn(event, k) THEN Counted(Part(o[last], k), n) ELSE Part(o[last], k)
      BY <1>2, <2>8, UpdatedBucket
    <2>11. QED BY <2>1, <2>2, <2>3, <2>4, <2>5, <2>6, <2>7, <2>9, <2>10
  <1> DEFINE mid(k) == TotalAt(all, front, k)
  <1>14. ASSUME NEW k \in Parts
         PROVE  TotalAt(w, InBuckets(w, W), k)
                  = IF id \in W /\ CountsIn(event, k) THEN Counted(TotalAt(all, InBuckets(all, W), k), n)
                    ELSE TotalAt(all, InBuckets(all, W), k)
    <2>1. CASE id \notin W
      <3>1. InBuckets(w, W) = front /\ InBuckets(all, W) = front
        BY <1>8, <1>9, <2>1
      <3>2. QED BY <1>13, <2>1, <3>1
    <2>2. CASE id \in W
      <3>1. InBuckets(w, W) = front \cup {last}
        BY <1>8, <2>2
      <3>2. TotalAt(all, InBuckets(all, W), k) = Merged(TotalAt(all, front, k), Part(o[last], k))
        <4>1. CASE last = Len(all)
          BY <1>9, <1>13, <2>2, <4>1
        <4>2. CASE last # Len(all)
          <5>1. Merged(TotalAt(all, front, k), NoStats) = TotalAt(all, front, k)
            BY <1>13, MergedNone
          <5>2. QED BY <1>9, <1>13, <4>2, <5>1
        <4>3. QED BY <4>1, <4>2
      <3>3. Merged(TotalAt(all, front, k), Counted(Part(o[last], k), n))
              = Counted(Merged(TotalAt(all, front, k), Part(o[last], k)), n)
        BY <1>3, <1>13, MergedCounted
      <3>4. QED BY <1>13, <2>2, <3>1, <3>2, <3>3
    <2>3. QED BY <2>1, <2>2
  <1> HIDE DEF n
  <1>15. QED BY <1>14 DEF w, n

-----------------------------------------------------------------------------
(* The events of an OSD, a PG or all, and of some buckets.                 *)

Wanted(seen, osd, k, W) ==
    {i \in DOMAIN seen: /\ seen[i].event.osd = osd /\ seen[i].event.kind # "error"
                        /\ seen[i].at \in W /\ CountsIn(seen[i].event, k)}
CountAt(seen, ixs) == StatsOver(Picked(seen, ixs))

LEMMA StatsOverFolds == \A s: StatsOver(s) = Counting!Folded(NoStats, s)
  BY DEF StatsOver, Counting!Folded, FoldLeft, MapThenFoldSet, Counting!MapThenFoldSet, Max, Counting!Greatest

LEMMA StatsOverNone == StatsOver(<<>>) = NoStats
  BY Counting!FoldNone, StatsOverFolds

LEMMA CountAtTypes ==
    ASSUME NEW seen \in Seq(Event), NEW ixs \in SUBSET DOMAIN seen
    PROVE  CountAt(seen, ixs) \in Stats
  <1>1. \A a \in Stats, e \in Event: CountedEvent(a, e) \in Stats
    <2>1. \A e \in Event: e.event.latency \in Nat
      BY DEF Event, Line
    <2>2. QED BY <2>1, StatsTypes DEF CountedEvent
  <1>2. Picked(seen, ixs) \in Seq(Event)
    BY PickedSeq
  <1>3. Counting!Folded(NoStats, Picked(seen, ixs)) \in Stats
    BY <1>1, <1>2, StatsTypes, Counting!FoldTyped
  <1>4. QED BY <1>3, StatsOverFolds DEF CountAt

LEMMA CountAtMore ==
    ASSUME NEW seen \in Seq(Event), NEW e \in Event, NEW ixs \in SUBSET DOMAIN seen
    PROVE  /\ CountAt(Append(seen, e), ixs) = CountAt(seen, ixs)
           /\ CountAt(Append(seen, e), ixs \cup {Len(seen) + 1}) = Counted(CountAt(seen, ixs), e.event.latency)
  <1> DEFINE more == Append(seen, e)
             n == Len(seen)
  <1>1. /\ n \in Nat /\ more \in Seq(Event) /\ Len(more) = n + 1 /\ more[n + 1] = e
        /\ \A i \in 1 .. n: more[i] = seen[i]
    OBVIOUS
  <1>2. DOMAIN seen = 1 .. n /\ DOMAIN more = 1 .. n + 1
    OBVIOUS
  <1> HIDE DEF more, n
  <1>3. \A i \in ixs: i \in 1 .. n /\ i < n + 1 /\ i \in 1 .. n + 1
    BY <1>1, <1>2
  <1>4. ixs \in SUBSET DOMAIN more /\ n + 1 \in DOMAIN more
    BY <1>1, <1>2, <1>3
  <1>5. Picked(more, ixs) = Picked(seen, ixs)
    BY <1>1, <1>3, PickedSame
  <1>6. Picked(more, ixs \cup {n + 1}) = Append(Picked(more, ixs), e)
    BY <1>1, <1>3, <1>4, PickedMore
  <1>7. Picked(seen, ixs) \in Seq(Event)
    BY PickedSeq
  <1>8. Counting!Folded(NoStats, Append(Picked(seen, ixs), e)) = CountedEvent(Counting!Folded(NoStats, Picked(seen, ixs)), e)
    BY <1>7, Counting!FoldMore
  <1>9. QED BY <1>5, <1>6, <1>8, StatsOverFolds DEF CountAt, CountedEvent, more, n

LEMMA WantedMore ==
    ASSUME NEW seen \in Seq(Event), NEW e \in Event, NEW osd, NEW k, NEW W
    PROVE  Wanted(Append(seen, e), osd, k, W)
             = IF e.event.osd = osd /\ e.event.kind # "error" /\ e.at \in W /\ CountsIn(e.event, k)
               THEN Wanted(seen, osd, k, W) \cup {Len(seen) + 1} ELSE Wanted(seen, osd, k, W)
  <1> DEFINE more == Append(seen, e)
             n == Len(seen)
  <1>1. /\ n \in Nat /\ more[n + 1] = e
        /\ \A i \in 1 .. n: more[i] = seen[i]
    OBVIOUS
  <1>2. DOMAIN seen = 1 .. n /\ DOMAIN more = 1 .. n + 1
    OBVIOUS
  <1> HIDE DEF more, n
  <1>3. 1 .. n + 1 = 1 .. n \cup {n + 1} /\ n + 1 \notin 1 .. n
    BY <1>1
  <1>4. QED BY <1>1, <1>2, <1>3 DEF Wanted, more, n

-----------------------------------------------------------------------------
(* The ring of an OSD is the end of all of its buckets.                    *)

LEMMA CountIsNat == \A n \in Nat: trace_bucket_count(n) \in Nat \ {0}
  <1>1. SUFFICES ASSUME NEW n \in Nat PROVE trace_bucket_count(n) \in Nat \ {0}
    OBVIOUS
  <1>2. BUCKET_SECS \in Nat \ {0} /\ Larger(n, 1) \in Nat /\ Larger(n, 1) >= 1
    BY SeriesAssumption DEF Larger
  <1>3. \A x, d \in Nat: x >= 1 /\ d >= 1 => (x + d - 1) \div d \in Nat \ {0}
    OBVIOUS
  <1>4. QED BY <1>2, <1>3 DEF trace_bucket_count

LEMMA CountRises == \A a, b \in Nat: a <= b => trace_bucket_count(a) <= trace_bucket_count(b)
  <1>1. SUFFICES ASSUME NEW a \in Nat, NEW b \in Nat, a <= b
                 PROVE  trace_bucket_count(a) <= trace_bucket_count(b)
    OBVIOUS
  <1>2. /\ BUCKET_SECS \in Nat \ {0} /\ Larger(a, 1) \in Nat \ {0} /\ Larger(b, 1) \in Nat \ {0}
        /\ Larger(a, 1) <= Larger(b, 1)
    BY <1>1, SeriesAssumption DEF Larger
  <1>3. \A x, y, d \in Nat \ {0}: x <= y => (x + d - 1) \div d <= (y + d - 1) \div d
    OBVIOUS
  <1>4. QED BY <1>2, <1>3 DEF trace_bucket_count

(* Where the ring starts once the event is in it: buckets are dropped when *)
(* there are more than the count.                                          *)
StartOf(all, m, count) == IF Len(all) - m + 1 > count THEN Len(all) - count + 1 ELSE m

Grown(ring, id, event, count) ==
    LET grown == Trimmed(Opened(ring, id), count) IN [grown EXCEPT ![Len(grown)] = Updated(@, event)]

LEMMA RingOf ==
    ASSUME NEW all \in Seq(Bucket), NEW m \in 1 .. Len(all) + 1, all # <<>> => m <= Len(all),
           NEW id \in Nat, NEW event \in Line, NEW count \in Nat \ {0}
    PROVE  LET w == With(all, id, event) IN
           /\ Grown(SubSeq(all, m, Len(all)), id, event, count) = SubSeq(w, StartOf(w, m, count), Len(w))
           /\ StartOf(w, m, count) \in m .. Len(w)
           /\ Len(w) - StartOf(w, m, count) + 1 <= count
  <1> DEFINE ring == SubSeq(all, m, Len(all))
             o == Opened(all, id)
             w == With(all, id, event)
             last == Len(o)
             open == Opened(ring, id)
             grown == Trimmed(open, count)
             l == IF last - m + 1 > count THEN last - count + 1 ELSE m
             u == Updated(o[last], event)
  <1>1. Len(all) \in Nat /\ m \in Nat \ {0} /\ (Len(all) = 0 <=> all = <<>>)
    OBVIOUS
  <1>2. /\ ring \in Seq(Bucket) /\ Len(ring) = Len(all) - m + 1
        /\ \A k \in 1 .. Len(all) - m + 1: ring[k] = all[k + (m - 1)]
    BY EndOf
  <1>3. /\ o \in Seq(Bucket) /\ last \in Nat \ {0} /\ last \in DOMAIN o
        /\ last = Len(all) \/ last = Len(all) + 1
    BY <1>1, OpenedBuckets
  <1>4. w \in Seq(Bucket) /\ Len(w) = last /\ w = [o EXCEPT ![last] = u] /\ u \in Bucket
    <2>1. o[last] \in Bucket
      BY <1>3
    <2>2. QED BY <2>1, UpdatedBucket, WithBuckets DEF With
  <1>5. needs_new_bucket(ring, id) <=> needs_new_bucket(all, id)
    <2>1. CASE all = <<>>
      <3>1. m = 1 /\ Len(ring) = 0
        BY <1>1, <1>2, <2>1
      <3>2. ring = <<>>
        BY <1>2, <3>1
      <3>3. QED BY <2>1, <3>2 DEF needs_new_bucket
    <2>2. CASE all # <<>>
      <3>1. m <= Len(all) /\ Len(ring) \in 1 .. Len(all) - m + 1 /\ Len(ring) + (m - 1) = Len(all)
        BY <1>1, <1>2, <2>2
      <3>2. ring[Len(ring)] = all[Len(all)]
        BY <1>2, <3>1
      <3>3. ring # <<>>
        <4>1. Len(ring) # 0
          BY <1>1, <3>1
        <4> HIDE DEF ring
        <4>2. QED BY <4>1
      <3>4. QED BY <2>2, <3>2, <3>3 DEF needs_new_bucket, Last
    <2>3. QED BY <2>1, <2>2
  <1>6. open = SubSeq(o, m, last)
    <2>1. CASE needs_new_bucket(all, id)
      <3>1. o = Append(all, NewBucket(id)) /\ open = Append(ring, NewBucket(id))
        BY <1>5, <2>1 DEF Opened
      <3>2. NewBucket(id) \in Bucket
        BY NewBucketTypes
      <3>3. QED BY <3>1, <3>2, EndAppend
    <2>2. CASE ~needs_new_bucket(all, id)
      BY <1>5, <2>2 DEF Opened
    <2>3. QED BY <2>1, <2>2
  <1> HIDE DEF ring, o, w, open, u
  <1>7. m \in 1 .. last
    <2>1. all = <<>> => m = 1
      BY <1>1
    <2>2. QED BY <1>1, <1>3, <2>1
  <1>8. open \in Seq(Bucket) /\ Len(open) = last - m + 1
    <2>1. m \in 1 .. last + 1
      BY <1>3, <1>7
    <2>2. QED BY <1>3, <1>6, <2>1, EndOf
  <1>9. l \in m .. last /\ l \in 1 .. last /\ last - l + 1 <= count
    BY <1>3, <1>7
  <1>10. grown = SubSeq(o, l, last)
    <2>1. CASE Len(open) > count
      <3> DEFINE j == Len(open) - count + 1
      <3>1. j \in 1 .. last - m + 2 /\ m + j - 1 = l
        BY <1>3, <1>7, <1>8, <2>1
      <3>2. grown = SubSeq(open, j, Len(open))
        BY <2>1 DEF Trimmed
      <3>3. m \in 1 .. last + 1
        BY <1>3, <1>7
      <3> HIDE DEF j, l
      <3>4. QED BY <1>3, <1>6, <3>1, <3>2, <3>3, EndOfEnd
    <2>2. CASE ~(Len(open) > count)
      <3>1. l = m
        BY <1>8, <2>2
      <3>2. QED BY <1>6, <2>2, <3>1 DEF Trimmed
    <2>3. QED BY <2>1, <2>2
  <1> HIDE DEF grown, l
  <1>11. Len(grown) = last - l + 1 /\ grown[Len(grown)] = o[last] /\ Len(grown) \in DOMAIN grown
    <2>1. l \in 1 .. last + 1
      BY <1>3, <1>9
    <2>2. /\ grown \in Seq(Bucket) /\ Len(grown) = last - l + 1
          /\ \A k \in 1 .. last - l + 1: grown[k] = o[k + (l - 1)]
      BY <1>3, <1>10, <2>1, EndOf
    <2>3. Len(grown) \in 1 .. last - l + 1 /\ Len(grown) + (l - 1) = last
      BY <1>3, <1>9, <2>2
    <2>4. QED BY <2>2, <2>3
  <1>12. [grown EXCEPT ![Len(grown)] = u] = SubSeq(w, l, last)
    <2>1. LastSet(SubSeq(o, l, Len(o)), u) = SubSeq(LastSet(o, u), l, Len(o))
      BY <1>3, <1>4, <1>9, EndLastSet
    <2>2. QED BY <1>4, <1>10, <2>1 DEF LastSet
  <1>13. [grown EXCEPT ![Len(grown)] = Updated(@, event)] = [grown EXCEPT ![Len(grown)] = u]
    BY <1>11 DEF u
  <1>14. StartOf(w, m, count) = l
    BY <1>4 DEF StartOf, l
  <1>15. QED BY <1>4, <1>9, <1>12, <1>13, <1>14 DEF grown, open, ring, w, Grown

-----------------------------------------------------------------------------
(* The inductive invariant.  The ring of an OSD has forgotten buckets; the *)
(* proof remembers them: all of them, since the start or the last clear,   *)
(* and where the ring starts.  With them the sums are exact whatever the   *)
(* clock did; a clock that was never set back keeps them in order.         *)

Exact(osd, all) ==
    \A W \in SUBSET Nat, k \in Parts:
        TotalAt(all, InBuckets(all, W), k) = CountAt(seen_events, Wanted(seen_events, osd, k, W))

NamesPeer(e, osd, b) ==
    /\ e.event.osd = osd /\ e.event.kind # "error" /\ e.at = b.bucket
    /\ e.event.peer = b.slow_peer /\ e.event.peer_latency = b.peer_max

Named(osd, b) == b.peer_max > 0 => \E i \in DOMAIN seen_events: NamesPeer(seen_events[i], osd, b)

Rising(all) == \A i, j \in DOMAIN all: i <= j => all[i].bucket + (j - i) <= all[j].bucket

InOrder(all, m, id, kept) ==
    /\ Rising(all)
    /\ \A i \in DOMAIN all: all[i].bucket <= id
    /\ m > 1 => all[m - 1].bucket <= id - kept

Story(osd, all, m) ==
    /\ all \in Seq(Bucket) /\ m \in 1 .. Len(all) + 1
    /\ IF osd \in DOMAIN trace_series
       THEN /\ m <= Len(all) /\ Len(all) - m + 1 <= trace_bucket_count(LongestKept)
            /\ trace_series[osd] = SubSeq(all, m, Len(all))
       ELSE all = <<>>
    /\ Exact(osd, all)
    /\ \A i \in DOMAIN all: Named(osd, all[i])
    /\ ~set_back => InOrder(all, m, clock, trace_bucket_count(least_kept))

SeriesVarsOK ==
    /\ DOMAIN trace_series \subseteq OSDs
    /\ clock \in 0 .. MaxTime /\ trace_window \in Windows /\ trace_ttl \in Ttls
    /\ seen_events \in Seq(Event) /\ set_back \in BOOLEAN
    /\ least_kept \in Nat

SeriesInv == SeriesVarsOK /\ \A osd \in OSDs: \E all, m: Story(osd, all, m)

(* The largest of a set of numbers that has one.                           *)
LEMMA MaxOf ==
    ASSUME NEW S \in SUBSET Nat, \E x \in S: \A y \in S: y <= x
    PROVE  Max(S) \in Nat /\ Max(S) \in S /\ \A y \in S: y <= Max(S)
  <1>1. PICK x \in S: \A y \in S: x >= y
    OBVIOUS
  <1>2. Max(S) \in S /\ \A y \in S: Max(S) >= y
    BY <1>1 DEF Max
  <1>3. QED BY <1>2

LEMMA KeptRange ==
    /\ LongestKept \in Nat /\ Windows \subseteq Nat
    /\ trace_window \in Windows /\ trace_ttl \in Ttls => Retention \in Nat /\ Retention <= LongestKept
  <1> DEFINE wide == Max(Windows)
             long == Max(Ttls)
  <1>1. Windows \in SUBSET Nat /\ \E w \in Windows: \A v \in Windows: v <= w
    BY SeriesAssumption
  <1>2. Ttls \in SUBSET Nat /\ \E t \in Ttls: \A v \in Ttls: v <= t
    BY SeriesAssumption
  <1>3. wide \in Nat /\ \A v \in Windows: v \in Nat /\ v <= wide
    BY <1>1, MaxOf
  <1>4. long \in Nat /\ \A t \in Ttls: t \in Nat /\ t <= long
    BY <1>2, MaxOf
  <1>5. LongestKept = Larger(long, wide)
    BY DEF LongestKept
  <1> HIDE DEF wide, long
  <1>6. \A t, v \in Nat: t <= long /\ v <= wide =>
            Larger(t, v) \in Nat /\ Larger(t, v) <= Larger(long, wide)
    BY <1>3, <1>4 DEF Larger
  <1>7. LongestKept \in Nat
    BY <1>3, <1>4, <1>5 DEF Larger
  <1>8. QED BY <1>1, <1>3, <1>4, <1>5, <1>6, <1>7 DEF Retention

LEMMA EventTypes ==
    ASSUME NEW line \in Lines, IsEvent(line)
    PROVE  LET event == parse_trace_event(line) IN
           /\ event \in Line
           /\ event.osd = Dash \/ (event.osd \in OSDs /\ event.kind = "op")
           /\ (event.osd = Dash \/ event.kind = "error") <=> event.osd \notin OSDs
           /\ Dash \notin OSDs
  <1>1. line \in Line /\ Dash \notin OSDs
    BY SeriesAssumption DEF Line, Parts, PGs, OSDs
  <1> DEFINE blank == [line EXCEPT !.osd = Dash, !.pg = Dash, !.latency = 0, !.peer = Dash, !.peer_latency = 0]
  <1>2. CASE line.kind = "error"
    <2>1. blank \in Line /\ blank.osd = Dash
      BY <1>1 DEF Line, Parts
    <2>2. parse_trace_event(line) = blank
      BY <1>2 DEF parse_trace_event
    <2> HIDE DEF blank
    <2>3. parse_trace_event(line) \in Line /\ parse_trace_event(line).osd = Dash
      BY <2>1, <2>2
    <2>4. QED BY <1>1, <2>3
  <1>3. CASE line.kind # "error"
    <2>1. parse_trace_event(line) = line /\ line.kind = "op"
      BY <1>3 DEF parse_trace_event, IsEvent
    <2>2. line.osd \in OSDs \cup {Dash}
      BY <1>1 DEF Line
    <2>3. QED BY <1>1, <2>1, <2>2
  <1>4. QED BY <1>2, <1>3

(* No buckets amount to no events.                                         *)
LEMMA NoneExact ==
    ASSUME NEW osd, NEW W, NEW k \in Parts
    PROVE  TotalAt(<<>>, InBuckets(<<>>, W), k) = CountAt(<<>>, Wanted(<<>>, osd, k, W))
  <1>1. InBuckets(<<>>, W) = {} /\ Wanted(<<>>, osd, k, W) = {}
    BY DEF InBuckets, Wanted
  <1>2. QED BY <1>1, PickedNone, TotalNone, StatsOverNone DEF TotalAt, CountAt

LEMMA InitSeries == SeriesInit => SeriesInv
  <1>1. SUFFICES ASSUME SeriesInit PROVE SeriesInv
    OBVIOUS
  <1>2. SeriesVarsOK
    <2>1. <<>> \in Seq(Event) /\ DOMAIN <<>> = {}
      OBVIOUS
    <2>2. LongestKept \in Nat /\ MaxTime \in Nat /\ 0 \in 0 .. MaxTime
      BY KeptRange, SeriesAssumption
    <2>3. /\ trace_series = <<>> /\ seen_events = <<>> /\ clock = 0 /\ trace_window \in Windows /\ trace_ttl \in Ttls
          /\ set_back = FALSE /\ least_kept = LongestKept
      BY <1>1 DEF SeriesInit
    <2>4. QED BY <2>1, <2>2, <2>3 DEF SeriesVarsOK
  <1>3. ASSUME NEW osd \in OSDs PROVE Story(osd, <<>>, 1)
    <2>1. <<>> \in Seq(Bucket) /\ Len(<<>>) = 0 /\ DOMAIN <<>> = {}
      OBVIOUS
    <2>2. trace_series = <<>> /\ seen_events = <<>>
      BY <1>1 DEF SeriesInit
    <2>3. Exact(osd, <<>>)
      BY <2>2, NoneExact DEF Exact
    <2>4. \A id, kept: InOrder(<<>>, 1, id, kept)
      BY <2>1 DEF InOrder, Rising
    <2>5. QED BY <2>1, <2>2, <2>3, <2>4 DEF Story
  <1>4. QED BY <1>2, <1>3 DEF SeriesInv

(* An event of the OSD goes to its last bucket.                            *)
LEMMA EventExact ==
    ASSUME NEW osd, NEW all \in Seq(Bucket), NEW id \in Nat, NEW event \in Line, NEW w,
           seen_events \in Seq(Event), Exact(osd, all), w = With(all, id, event),
           event.osd = osd, event.kind # "error",
           seen_events' = Append(seen_events, [event |-> event, at |-> id])
    PROVE  Exact(osd, w)'
  <1> DEFINE e == [event |-> event, at |-> id]
  <1>1. e \in Event /\ e.event = event /\ e.at = id
    BY DEF Event
  <1> HIDE DEF e
  <1>2. SUFFICES ASSUME NEW W \in SUBSET Nat, NEW k \in Parts
                 PROVE  TotalAt(w, InBuckets(w, W), k)
                          = CountAt(Append(seen_events, e), Wanted(Append(seen_events, e), osd, k, W))
    BY DEF Exact, e
  <1> DEFINE old == Wanted(seen_events, osd, k, W)
  <1>3. old \in SUBSET DOMAIN seen_events
    BY DEF Wanted
  <1>4. TotalAt(all, InBuckets(all, W), k) = CountAt(seen_events, old)
    BY DEF Exact
  <1>5. TotalAt(w, InBuckets(w, W), k)
          = IF id \in W /\ CountsIn(event, k) THEN Counted(TotalAt(all, InBuckets(all, W), k), event.latency)
            ELSE TotalAt(all, InBuckets(all, W), k)
    BY WithTotals
  <1>6. Wanted(Append(seen_events, e), osd, k, W)
          = IF id \in W /\ CountsIn(event, k) THEN old \cup {Len(seen_events) + 1} ELSE old
    BY <1>1, WantedMore
  <1> HIDE DEF old
  <1>7. /\ CountAt(Append(seen_events, e), old) = CountAt(seen_events, old)
        /\ CountAt(Append(seen_events, e), old \cup {Len(seen_events) + 1})
             = Counted(CountAt(seen_events, old), event.latency)
    BY <1>1, <1>3, CountAtMore
  <1>8. QED BY <1>4, <1>5, <1>6, <1>7

(* One of another OSD changes nothing in its sums.                         *)
LEMMA OtherExact ==
    ASSUME NEW osd, NEW all, NEW id \in Nat, NEW event \in Line, seen_events \in Seq(Event), Exact(osd, all),
           event.osd # osd \/ event.kind = "error",
           seen_events' = Append(seen_events, [event |-> event, at |-> id])
    PROVE  Exact(osd, all)'
  <1> DEFINE e == [event |-> event, at |-> id]
  <1>1. e \in Event /\ e.event = event
    BY DEF Event
  <1> HIDE DEF e
  <1>2. SUFFICES ASSUME NEW W \in SUBSET Nat, NEW k \in Parts
                 PROVE  TotalAt(all, InBuckets(all, W), k)
                          = CountAt(Append(seen_events, e), Wanted(Append(seen_events, e), osd, k, W))
    BY DEF Exact, e
  <1> DEFINE old == Wanted(seen_events, osd, k, W)
  <1>3. old \in SUBSET DOMAIN seen_events
    BY DEF Wanted
  <1>4. TotalAt(all, InBuckets(all, W), k) = CountAt(seen_events, old)
    BY DEF Exact
  <1>5. Wanted(Append(seen_events, e), osd, k, W) = old
    BY <1>1, WantedMore
  <1> HIDE DEF old
  <1>6. CountAt(Append(seen_events, e), old) = CountAt(seen_events, old)
    BY <1>1, <1>3, CountAtMore
  <1>7. QED BY <1>4, <1>5, <1>6

(* A line that names the slowest peer of a bucket stays among the events.  *)
LEMMA NamedStays ==
    ASSUME NEW osd, NEW b, NEW e \in Event, seen_events \in Seq(Event), Named(osd, b),
           seen_events' = Append(seen_events, e)
    PROVE  Named(osd, b)'
  <1>1. \A i \in DOMAIN seen_events: i \in DOMAIN Append(seen_events, e) /\ Append(seen_events, e)[i] = seen_events[i]
    OBVIOUS
  <1>2. QED BY <1>1 DEF Named, NamesPeer

LEMMA EventNamed ==
    ASSUME NEW osd, NEW all \in Seq(Bucket), NEW id \in Nat, NEW event \in Line, NEW w,
           seen_events \in Seq(Event), \A i \in DOMAIN all: Named(osd, all[i]), w = With(all, id, event),
           event.osd = osd, event.kind # "error",
           seen_events' = Append(seen_events, [event |-> event, at |-> id])
    PROVE  \A i \in DOMAIN w: Named(osd, w[i])'
  <1> DEFINE e == [event |-> event, at |-> id]
             o == Opened(all, id)
             last == Len(o)
             n == Len(seen_events) + 1
  <1>1. e \in Event /\ e.event = event /\ e.at = id
    BY DEF Event
  <1>2. seen_events' = Append(seen_events, e)
    OBVIOUS
  <1> HIDE DEF e
  <1>3. n \in DOMAIN Append(seen_events, e) /\ Append(seen_events, e)[n] = e
    OBVIOUS
  <1>4. /\ o \in Seq(Bucket) /\ last \in Nat \ {0} /\ Len(all) \in Nat
        /\ last = Len(all) \/ (last = Len(all) + 1 /\ o[Len(all) + 1] = NewBucket(id))
        /\ \A i \in 1 .. Len(all): o[i] = all[i]
        /\ o[last].bucket = id
    <2>1. Len(all) \in Nat
      OBVIOUS
    <2>2. QED BY <2>1, OpenedBuckets
  <1>5. /\ w \in Seq(Bucket) /\ Len(w) = last /\ w[last] = Updated(o[last], event)
        /\ \A i \in 1 .. last - 1: w[i] = o[i]
    BY WithBuckets
  <1> HIDE DEF o
  <1>6. \A i \in 1 .. last: Named(osd, o[i])
    <2>1. \A i \in 1 .. Len(all): Named(osd, o[i])
      BY <1>4
    <2>2. NewBucket(id).peer_max = 0
      BY NewBucketTypes
    <2>3. Named(osd, NewBucket(id))
      BY <2>2 DEF Named
    <2>4. QED BY <1>4, <2>1, <2>3
  <1>7. \A i \in 1 .. last: Named(osd, o[i])'
    BY <1>1, <1>2, <1>6, NamedStays
  <1>8. Named(osd, w[last])'
    <2>1. o[last] \in Bucket
      BY <1>4
    <2> DEFINE u == Updated(o[last], event)
    <2>2. /\ u.bucket = id
          /\ \/ u.peer_max = o[last].peer_max /\ u.slow_peer = o[last].slow_peer
             \/ u.peer_max = event.peer_latency /\ u.slow_peer = event.peer
      BY <1>4, <2>1, UpdatedBucket
    <2> HIDE DEF u
    <2>3. CASE u.peer_max = o[last].peer_max /\ u.slow_peer = o[last].slow_peer
      <3>1. Named(osd, o[last])'
        BY <1>4, <1>7
      <3>2. Named(osd, u)'
        BY <1>4, <2>2, <2>3, <3>1 DEF Named, NamesPeer
      <3>3. QED BY <1>5, <3>2 DEF u
    <2>4. CASE u.peer_max = event.peer_latency /\ u.slow_peer = event.peer
      <3>1. Named(osd, u)'
        BY <1>1, <1>2, <1>3, <2>2, <2>4 DEF Named, NamesPeer
      <3>2. QED BY <1>5, <3>1 DEF u
    <2>5. QED BY <2>2, <2>3, <2>4
  <1>9. \A i \in DOMAIN w: i = last \/ i \in 1 .. last - 1
    BY <1>4, <1>5
  <1>10. \A i \in 1 .. last - 1: i \in 1 .. last
    BY <1>4
  <1>11. QED BY <1>5, <1>7, <1>8, <1>9, <1>10

(* The ring of a clock that only moved on stays in order, and what it      *)
(* drops is over.                                                          *)
LEMMA EventInOrder ==
    ASSUME NEW all \in Seq(Bucket), NEW m \in 1 .. Len(all) + 1, all # <<>> => m <= Len(all),
           NEW id \in Nat, NEW event \in Line, NEW w, w = With(all, id, event),
           NEW count \in Nat \ {0}, NEW kept \in Nat, NEW l, kept <= count, l = StartOf(w, m, count),
           InOrder(all, m, id, kept)
    PROVE  InOrder(w, l, id, kept)
  <1>0. /\ Rising(all) /\ \A i \in DOMAIN all: all[i].bucket <= id
        /\ m > 1 => all[m - 1].bucket <= id - kept
    BY DEF InOrder
  <1> DEFINE o == Opened(all, id)
             last == Len(o)
             n == Len(all)
  <1>1. /\ n \in Nat /\ (n = 0 <=> all = <<>>) /\ DOMAIN all = 1 .. n
        /\ \A i \in 1 .. n: all[i].bucket \in Nat
    <2>1. n \in Nat /\ (n = 0 <=> all = <<>>) /\ DOMAIN all = 1 .. n /\ \A i \in 1 .. n: all[i] \in Bucket
      OBVIOUS
    <2>2. QED BY <2>1 DEF Bucket
  <1>2. last \in Nat \ {0} /\ \A i \in 1 .. n: o[i].bucket = all[i].bucket
    <2>1. last \in Nat \ {0} /\ \A i \in 1 .. n: o[i] = all[i]
      BY OpenedBuckets
    <2> HIDE DEF last, o, n
    <2>2. QED BY <2>1
  <1>3. o[last].bucket = id
    BY OpenedBuckets
  <1>4. last = n \/ (last = n + 1 /\ (n > 0 => all[n].bucket # id))
    <2>1. CASE needs_new_bucket(all, id)
      <3>1. last = n + 1
        BY <2>1, NewBucketTypes DEF Opened
      <3>2. n > 0 => all[n].bucket # id
        BY <1>1, <2>1 DEF needs_new_bucket, Last
      <3>3. QED BY <3>1, <3>2
    <2>2. CASE ~needs_new_bucket(all, id)
      BY <2>2 DEF Opened
    <2>3. QED BY <2>1, <2>2
  <1>5. w \in Seq(Bucket) /\ Len(w) = last /\ \A i \in 1 .. last: w[i].bucket = o[i].bucket
    BY WithBuckets
  <1> DEFINE at == [i \in 1 .. last |-> w[i].bucket]
  <1>6. DOMAIN w = 1 .. last
    BY <1>2, <1>5
  <1> HIDE DEF o, last, n
  <1>7. /\ \A i \in 1 .. last: w[i].bucket \in Nat /\ w[i].bucket <= id
        /\ \A i \in 1 .. n: i \in 1 .. last /\ w[i].bucket = all[i].bucket
        /\ w[last].bucket = id
    <2>1. \A i \in 1 .. n: i \in 1 .. last
      BY <1>1, <1>2, <1>4
    <2>2. last \in 1 .. last /\ \A i \in 1 .. last: i \in 1 .. n \/ i = last
      BY <1>1, <1>2, <1>4
    <2>3. \A i \in 1 .. n: all[i].bucket <= id
      BY <1>0, <1>1
    <2>4. \A i \in 1 .. n: w[i].bucket = all[i].bucket
      BY <1>2, <1>5, <2>1
    <2>5. w[last].bucket = id
      BY <1>3, <1>5, <2>2
    <2>6. ASSUME NEW i \in 1 .. last PROVE w[i].bucket \in Nat /\ w[i].bucket <= id
      <3>1. CASE i \in 1 .. n
        BY <1>1, <2>3, <2>4, <3>1
      <3>2. CASE i = last
        BY <2>5, <3>2
      <3>3. QED BY <2>2, <3>1, <3>2
    <2>7. QED BY <2>1, <2>4, <2>5, <2>6
  <1>8. Rising(w)
    <2>1. SUFFICES ASSUME NEW i \in 1 .. last, NEW j \in 1 .. last, i <= j
                   PROVE  w[i].bucket + (j - i) <= w[j].bucket
      BY <1>6 DEF Rising
    <2>2. CASE j \in 1 .. n
      <3>1. i \in 1 .. n
        BY <1>1, <2>1, <2>2
      <3>2. all[i].bucket + (j - i) <= all[j].bucket
        BY <1>0, <1>1, <2>1, <2>2, <3>1 DEF Rising
      <3>3. QED BY <1>7, <2>2, <3>1, <3>2
    <2>3. CASE i = j
      BY <1>7, <2>3
    <2>4. CASE j \notin 1 .. n /\ i # j
      <3>1. last = n + 1 /\ j = last /\ i \in 1 .. n /\ n \in 1 .. n /\ n > 0 /\ i <= n
        BY <1>1, <1>2, <1>4, <2>1, <2>4
      <3>2. all[i].bucket + (n - i) <= all[n].bucket
        BY <1>0, <1>1, <3>1 DEF Rising
      <3>3. all[n].bucket <= id /\ all[n].bucket # id
        BY <1>0, <1>1, <1>4, <3>1
      <3>4. all[i].bucket \in Nat /\ all[n].bucket \in Nat /\ w[i].bucket = all[i].bucket /\ w[j].bucket = id
        BY <1>1, <1>7, <3>1
      <3>5. \A x, y \in Nat: x + (n - i) <= y /\ y <= id /\ y # id => x + (n + 1 - i) <= id
        BY <1>1
      <3>6. all[i].bucket + (n + 1 - i) <= id
        BY <3>2, <3>3, <3>4, <3>5
      <3>7. j - i = n + 1 - i
        BY <3>1
      <3>8. QED BY <3>4, <3>6, <3>7
    <2>5. QED BY <2>2, <2>3, <2>4
  <1>9. ASSUME l > 1 PROVE w[l - 1].bucket <= id - kept
    <2>1. l = IF last - m + 1 > count THEN last - count + 1 ELSE m
      BY <1>5 DEF StartOf
    <2>2. CASE last - m + 1 > count
      <3>1. l - 1 = last - count /\ l - 1 \in 1 .. last /\ last \in 1 .. last /\ l - 1 <= last /\ last - (l - 1) = count
        BY <1>2, <1>9, <2>1, <2>2
      <3>2. w[l - 1].bucket + (last - (l - 1)) <= w[last].bucket
        BY <1>6, <1>8, <3>1 DEF Rising
      <3>3. w[l - 1].bucket \in Nat /\ w[last].bucket = id
        BY <1>7, <3>1
      <3> DEFINE x == w[l - 1].bucket
      <3>4. x \in Nat /\ x + count <= id
        BY <3>1, <3>2, <3>3
      <3> HIDE DEF x
      <3>5. x <= id - kept
        BY <3>4
      <3>6. QED BY <3>5 DEF x
    <2>3. CASE ~(last - m + 1 > count)
      <3>1. l = m
        BY <2>1, <2>3
      <3>2. m - 1 \in 1 .. n
        BY <1>1, <1>9, <3>1 DEF n
      <3>3. QED BY <1>0, <1>7, <1>9, <3>1, <3>2
    <2>4. QED BY <2>2, <2>3
  <1>10. QED BY <1>6, <1>7, <1>8, <1>9 DEF InOrder

LEMMA KeptLess ==
    ASSUME NEW all \in Seq(Bucket), NEW m \in 1 .. Len(all) + 1, NEW id \in Nat, NEW a \in Nat, NEW b \in Nat,
           b <= a, InOrder(all, m, id, trace_bucket_count(a))
    PROVE  InOrder(all, m, id, trace_bucket_count(b))
  <1> DEFINE kept == trace_bucket_count(a)
             kept2 == trace_bucket_count(b)
             x == all[m - 1].bucket
  <1>1. kept2 \in Nat /\ kept \in Nat /\ kept2 <= kept
    BY CountIsNat, CountRises
  <1>2. m > 1 => x \in Nat /\ x <= id - kept
    <2>1. m > 1 => all[m - 1] \in Bucket
      OBVIOUS
    <2>2. QED BY <2>1 DEF InOrder, Bucket
  <1> HIDE DEF kept, kept2, x
  <1>3. m > 1 => x <= id - kept2
    BY <1>1, <1>2
  <1>4. QED BY <1>3 DEF InOrder, kept2, x

LEMMA StoryOfEvent ==
    ASSUME NEW osd \in OSDs, NEW all, NEW m, NEW event \in Line, SeriesVarsOK, Story(osd, all, m),
           event.osd = osd, event.kind # "error",
           trace_series' = Recorded(trace_series, event, clock, Retention),
           seen_events' = Append(seen_events, [event |-> event, at |-> clock]),
           least_kept' = IF Retention < least_kept THEN Retention ELSE least_kept,
           UNCHANGED <<clock, trace_window, trace_ttl, set_back>>
    PROVE  \E w, l: Story(osd, w, l)'
  <1> DEFINE count == trace_bucket_count(Retention)
             ring == SubSeq(all, m, Len(all))
  <1>1. /\ clock \in Nat /\ seen_events \in Seq(Event) /\ trace_window \in Windows /\ trace_ttl \in Ttls /\ set_back \in BOOLEAN
        /\ least_kept \in Nat /\ Retention \in Nat /\ LongestKept \in Nat /\ Retention <= LongestKept
    BY SeriesAssumption, KeptRange DEF SeriesVarsOK
  <1>2. /\ all \in Seq(Bucket) /\ m \in 1 .. Len(all) + 1 /\ (all # <<>> => m <= Len(all))
        /\ Exact(osd, all) /\ \A i \in DOMAIN all: Named(osd, all[i])
        /\ ~set_back => InOrder(all, m, clock, trace_bucket_count(least_kept))
    BY DEF Story
  <1>2a. all \in Seq(Bucket) /\ m \in 1 .. Len(all) + 1 /\ (all # <<>> => m <= Len(all)) /\ m \in Nat \ {0}
    BY <1>2
  <1>3. count \in Nat \ {0} /\ count <= trace_bucket_count(LongestKept)
    BY <1>1, CountIsNat, CountRises
  <1>4. event.osd # Dash
    BY SeriesAssumption DEF OSDs
  <1>5. Ring(trace_series, osd) = ring
    <2>1. CASE osd \in DOMAIN trace_series
      BY <2>1 DEF Ring, Story
    <2>2. CASE osd \notin DOMAIN trace_series
      <3>1. all = <<>> /\ Len(all) = 0 /\ m = 1
        BY <1>2, <2>2 DEF Story
      <3>2. ring \in Seq(Bucket) /\ Len(ring) = 0
        BY <1>2, <3>1, EndOf
      <3> HIDE DEF ring
      <3>3. ring = <<>>
        BY <3>2
      <3>4. QED BY <2>2, <3>3 DEF Ring
    <2>3. QED BY <2>1, <2>2
  <1>6. osd \in DOMAIN trace_series' /\ trace_series'[osd] = Grown(ring, clock, event, count)
    BY <1>4, <1>5 DEF Recorded, Opened, Grown
  <1>7. PICK w: w = With(all, clock, event)
    OBVIOUS
  <1>8. PICK l: l = StartOf(w, m, count)
    OBVIOUS
  <1> HIDE DEF count, ring
  <1>9. /\ trace_series'[osd] = SubSeq(w, l, Len(w))
        /\ l \in m .. Len(w) /\ Len(w) - l + 1 <= count /\ w \in Seq(Bucket)
    <2>1. /\ Grown(ring, clock, event, count) = SubSeq(w, l, Len(w))
          /\ l \in m .. Len(w) /\ Len(w) - l + 1 <= count
      <3>1. clock \in Nat /\ count \in Nat \ {0}
        BY <1>1, <1>3
      <3>2. /\ Grown(SubSeq(all, m, Len(all)), clock, event, count)
                 = SubSeq(With(all, clock, event), StartOf(With(all, clock, event), m, count),
                          Len(With(all, clock, event)))
            /\ StartOf(With(all, clock, event), m, count) \in m .. Len(With(all, clock, event))
            /\ Len(With(all, clock, event)) - StartOf(With(all, clock, event), m, count) + 1 <= count
        BY <1>2a, <3>1, RingOf
      <3>3. QED BY <1>7, <1>8, <3>2 DEF ring
    <2>2. w \in Seq(Bucket)
      BY <1>1, <1>2, <1>7, WithBuckets
    <2>3. QED BY <1>6, <2>1, <2>2
  <1>10. /\ l \in 1 .. Len(w) + 1 /\ l <= Len(w) /\ Len(w) - l + 1 <= trace_bucket_count(LongestKept)
    <2>1. Len(w) \in Nat
      BY <1>9
    <2>2. m \in Nat \ {0}
      BY <1>2a
    <2>3. trace_bucket_count(LongestKept) \in Nat
      BY <1>1, CountIsNat
    <2>4. QED BY <1>3, <1>9, <2>1, <2>2, <2>3
  <1>11. Exact(osd, w)'
    BY <1>1, <1>2, <1>7, EventExact
  <1>12. \A i \in DOMAIN w: Named(osd, w[i])'
    BY <1>1, <1>2, <1>7, EventNamed
  <1>13. ASSUME ~set_back PROVE InOrder(w, l, clock, trace_bucket_count(least_kept'))
    <2> DEFINE kept == trace_bucket_count(least_kept')
    <2>1. least_kept' \in Nat /\ least_kept' <= Retention /\ least_kept' <= least_kept
      BY <1>1
    <2>2. clock \in Nat /\ kept \in Nat /\ kept <= count
      BY <1>1, <2>1, CountIsNat, CountRises DEF count
    <2>3. InOrder(all, m, clock, kept)
      <3>1. InOrder(all, m, clock, trace_bucket_count(least_kept))
        BY <1>2, <1>13
      <3>2. QED BY <1>1, <1>2a, <2>1, <3>1, KeptLess
    <2> HIDE DEF kept
    <2>4. QED BY <1>3, <1>7, <1>8, <1>2a, <2>2, <2>3, EventInOrder DEF kept
  <1>14. Story(osd, w, l)'
    BY <1>6, <1>9, <1>10, <1>11, <1>12, <1>13 DEF Story
  <1>15. QED BY <1>14

(* A story goes on when the ring and the events of the OSD stay.           *)
LEMMA StoryOfOther ==
    ASSUME NEW osd \in OSDs, NEW all, NEW m, NEW event \in Line, SeriesVarsOK, Story(osd, all, m),
           event.osd # osd,
           trace_series' = Recorded(trace_series, event, clock, Retention),
           seen_events' = Append(seen_events, [event |-> event, at |-> clock]),
           least_kept' = IF Retention < least_kept THEN Retention ELSE least_kept,
           UNCHANGED <<clock, trace_window, trace_ttl, set_back>>
    PROVE  Story(osd, all, m)'
  <1>1. /\ clock \in Nat /\ seen_events \in Seq(Event) /\ trace_window \in Windows /\ trace_ttl \in Ttls
        /\ least_kept \in Nat /\ Retention \in Nat
    BY SeriesAssumption, KeptRange DEF SeriesVarsOK
  <1>2. /\ osd \in DOMAIN trace_series' <=> osd \in DOMAIN trace_series
        /\ osd \in DOMAIN trace_series => trace_series'[osd] = trace_series[osd]
    BY DEF Recorded
  <1>3. Exact(osd, all)'
    BY <1>1, OtherExact DEF Story
  <1>4. \A i \in DOMAIN all: Named(osd, all[i])'
    <2>1. [event |-> event, at |-> clock] \in Event
      BY <1>1 DEF Event
    <2>2. QED BY <1>1, <2>1, NamedStays DEF Story
  <1>5. ASSUME ~set_back PROVE InOrder(all, m, clock, trace_bucket_count(least_kept'))
    <2>1. /\ InOrder(all, m, clock, trace_bucket_count(least_kept))
          /\ all \in Seq(Bucket) /\ m \in 1 .. Len(all) + 1
      BY <1>5 DEF Story
    <2>2. least_kept' \in Nat /\ least_kept' <= least_kept
      BY <1>1
    <2>3. QED BY <1>1, <2>1, <2>2, KeptLess
  <1>6. QED BY <1>2, <1>3, <1>4, <1>5 DEF Story

(* A step that leaves the buckets and the events alone.                    *)
LEMMA KeptByNone ==
    ASSUME SeriesInv, trace_window' \in Windows, trace_ttl' \in Ttls,
           UNCHANGED <<trace_series, clock, seen_events, set_back, least_kept>>
    PROVE  SeriesInv'
  <1>1. SeriesVarsOK'
    BY DEF SeriesInv, SeriesVarsOK
  <1>2. ASSUME NEW osd \in OSDs, NEW all, NEW m, Story(osd, all, m) PROVE Story(osd, all, m)'
    BY <1>2 DEF Story, Exact, Named
  <1>3. QED BY <1>1, <1>2 DEF SeriesInv

LEMMA LineKeeps == SeriesInv /\ trace_line => SeriesInv'
  <1>1. SUFFICES ASSUME SeriesInv, trace_line PROVE SeriesInv'
    OBVIOUS
  <1>2. PICK line \in Lines:
           IF ~IsEvent(line) THEN UNCHANGED <<trace_series, trace_events, seen_events, least_kept>>
           ELSE LET event == parse_trace_event(line) IN
                /\ trace_series' = Recorded(trace_series, event, clock, Retention)
                /\ trace_events' = Capped(Append(trace_events, event))
                /\ seen_events' = Append(seen_events, [event |-> event, at |-> clock])
                /\ least_kept' = IF Retention < least_kept THEN Retention ELSE least_kept
    BY <1>1 DEF trace_line
  <1>3. UNCHANGED <<clock, trace_window, trace_ttl, set_back>> /\ SeriesVarsOK
    BY <1>1 DEF trace_line, SeriesInv
  <1>4. CASE ~IsEvent(line)
    <2>1. trace_window' \in Windows /\ trace_ttl' \in Ttls
      BY <1>3 DEF SeriesVarsOK
    <2>2. UNCHANGED <<trace_series, clock, seen_events, set_back, least_kept>>
      BY <1>2, <1>3, <1>4
    <2>3. QED BY <1>1, <2>1, <2>2, KeptByNone
  <1>5. CASE IsEvent(line)
    <2> DEFINE event == parse_trace_event(line)
    <2>1. /\ event \in Line /\ Dash \notin OSDs
          /\ event.osd = Dash \/ (event.osd \in OSDs /\ event.kind = "op")
      BY <1>5, EventTypes
    <2>2. /\ trace_series' = Recorded(trace_series, event, clock, Retention)
          /\ seen_events' = Append(seen_events, [event |-> event, at |-> clock])
          /\ least_kept' = IF Retention < least_kept THEN Retention ELSE least_kept
      BY <1>2, <1>5
    <2> HIDE DEF event
    <2>3. SeriesVarsOK'
      <3>1. DOMAIN trace_series' \subseteq OSDs
        BY <1>3, <2>1, <2>2 DEF Recorded, SeriesVarsOK
      <3>2. clock \in Nat /\ Retention \in Nat /\ least_kept \in Nat
        BY <1>3, KeptRange, SeriesAssumption DEF SeriesVarsOK
      <3>3. seen_events' \in Seq(Event)
        <4>1. [event |-> event, at |-> clock] \in Event
          BY <2>1, <3>2 DEF Event
        <4>2. seen_events \in Seq(Event)
          BY <1>3 DEF SeriesVarsOK
        <4>3. QED BY <2>2, <4>1, <4>2
      <3>4. least_kept' \in Nat
        BY <2>2, <3>2
      <3>5. QED BY <1>3, <3>1, <3>3, <3>4 DEF SeriesVarsOK
    <2>4. ASSUME NEW osd \in OSDs PROVE \E all, m: Story(osd, all, m)'
      <3>1. PICK all, m: Story(osd, all, m)
        BY <1>1 DEF SeriesInv
      <3>2. CASE event.osd = osd
        <4>1. event.kind # "error"
          BY <2>1, <3>2
        <4>2. QED BY <1>3, <2>1, <2>2, <3>1, <3>2, <4>1, StoryOfEvent
      <3>3. CASE event.osd # osd
        BY <1>3, <2>1, <2>2, <3>1, <3>3, StoryOfOther
      <3>4. QED BY <3>2, <3>3
    <2>5. QED BY <2>3, <2>4 DEF SeriesInv
  <1>6. QED BY <1>4, <1>5

(* The clock: a step forward keeps the order, a step back is remembered.   *)
LEMMA TimeKeeps == SeriesInv /\ time_passes => SeriesInv'
  <1>1. SUFFICES ASSUME SeriesInv, time_passes PROVE SeriesInv'
    OBVIOUS
  <1>2. /\ SeriesVarsOK /\ clock' \in 0 .. MaxTime /\ clock \in 0 .. MaxTime /\ clock \in Nat
        /\ clock' = clock + 1 \/ clock' = clock - 1
        /\ set_back' = (set_back \/ clock' < clock) /\ set_back \in BOOLEAN
        /\ UNCHANGED <<trace_series, trace_window, trace_ttl, seen_events, least_kept>>
    BY <1>1, SeriesAssumption DEF time_passes, SeriesInv, SeriesVarsOK
  <1>3. SeriesVarsOK'
    BY <1>1, <1>2 DEF SeriesVarsOK, time_passes
  <1>4. ASSUME NEW osd \in OSDs PROVE \E all, m: Story(osd, all, m)'
    <2>1. PICK all, m: Story(osd, all, m)
      BY <1>1 DEF SeriesInv
    <2>2. Exact(osd, all)' /\ \A i \in DOMAIN all: Named(osd, all[i])'
      BY <1>2, <2>1 DEF Story, Exact, Named
    <2>3. ASSUME ~set_back' PROVE InOrder(all, m, clock', trace_bucket_count(least_kept))
      <3> DEFINE kept == trace_bucket_count(least_kept)
      <3>1. clock' = clock + 1 /\ ~set_back
        <4>1. ~(clock' < clock)
          BY <1>2, <2>3
        <4>2. clock' = clock + 1
          <5>1. clock' = clock + 1 \/ clock' = clock - 1
            BY <1>2
          <5>2. clock \in Nat
            BY <1>2
          <5>3. QED BY <4>1, <5>1, <5>2
        <4>3. QED BY <1>2, <2>3, <4>2
      <3>2. InOrder(all, m, clock, kept) /\ all \in Seq(Bucket) /\ m \in 1 .. Len(all) + 1
        BY <2>1, <3>1 DEF Story
      <3>3. kept \in Nat
        BY <1>2, CountIsNat DEF SeriesVarsOK
      <3> HIDE DEF kept
      <3>4. \A x \in Nat: (x <= clock => x <= clock') /\ (x <= clock - kept => x <= clock' - kept)
        BY <1>2, <3>1, <3>3
      <3>5. \A i \in DOMAIN all: all[i].bucket \in Nat
        <4>1. \A i \in DOMAIN all: all[i] \in Bucket
          BY <3>2
        <4>2. QED BY <4>1 DEF Bucket
      <3>6. m > 1 => m - 1 \in DOMAIN all
        BY <3>2
      <3>7. QED BY <3>2, <3>4, <3>5, <3>6 DEF InOrder, kept
    <2>4. Story(osd, all, m)'
      BY <1>2, <2>1, <2>2, <2>3 DEF Story
    <2>5. QED BY <2>4
  <1>5. QED BY <1>3, <1>4 DEF SeriesInv

LEMMA ClearKeeps == SeriesInv /\ clear_series => SeriesInv'
  <1>1. SUFFICES ASSUME SeriesInv, clear_series PROVE SeriesInv'
    OBVIOUS
  <1>2. /\ trace_series' = <<>> /\ seen_events' = <<>> /\ set_back' = FALSE /\ least_kept' = LongestKept
        /\ UNCHANGED <<clock, trace_window, trace_ttl>> /\ SeriesVarsOK
    BY <1>1 DEF clear_series, SeriesInv
  <1>3. SeriesVarsOK'
    <2>1. <<>> \in Seq(Event) /\ DOMAIN <<>> = {} /\ LongestKept \in Nat
      BY KeptRange
    <2>2. QED BY <1>2, <2>1 DEF SeriesVarsOK
  <1>4. ASSUME NEW osd \in OSDs PROVE Story(osd, <<>>, 1)'
    <2>1. <<>> \in Seq(Bucket) /\ Len(<<>>) = 0 /\ DOMAIN <<>> = {}
      OBVIOUS
    <2>2. Exact(osd, <<>>)'
      BY <1>2, NoneExact DEF Exact
    <2>3. \A id, kept: InOrder(<<>>, 1, id, kept)
      BY <2>1 DEF InOrder, Rising
    <2>4. QED BY <1>2, <2>1, <2>2, <2>3 DEF Story
  <1>5. QED BY <1>3, <1>4 DEF SeriesInv

LEMMA NextSeries == SeriesInv /\ [SeriesNext]_seriesVars => SeriesInv'
  <1>1. SUFFICES ASSUME SeriesInv, [SeriesNext]_seriesVars PROVE SeriesInv'
    OBVIOUS
  <1>2. CASE trace_line
    BY <1>1, <1>2, LineKeeps
  <1>3. CASE time_passes
    BY <1>1, <1>3, TimeKeeps
  <1>4. CASE times_set
    BY <1>1, <1>4, KeptByNone DEF times_set
  <1>5. CASE clear_series
    BY <1>1, <1>5, ClearKeeps
  <1>6. CASE UNCHANGED seriesVars
    <2>1. trace_window' \in Windows /\ trace_ttl' \in Ttls
      BY <1>1, <1>6 DEF SeriesInv, SeriesVarsOK, seriesVars
    <2>2. QED BY <1>1, <1>6, <2>1, KeptByNone DEF seriesVars
  <1>7. QED BY <1>1, <1>2, <1>3, <1>4, <1>5, <1>6 DEF SeriesNext

-----------------------------------------------------------------------------
(* The rows of the panel.                                                  *)

InView == {id \in Nat: InWindow(id)}
ShownRing(osd) == Where(Ring(trace_series, osd), LAMBDA b: InWindow(b.bucket))
ShownAt(all, m) == {i \in InBuckets(all, InView): i >= m}

LEMMA ShownRingOf ==
    ASSUME NEW osd, NEW all, NEW m, Story(osd, all, m)
    PROVE  /\ ShownAt(all, m) \in SUBSET DOMAIN all
           /\ ShownRing(osd) = Picked(all, ShownAt(all, m))
           /\ ShownRing(osd) \in Seq(Bucket)
  <1> DEFINE ring == SubSeq(all, m, Len(all))
             n == Len(all) - m + 1
             ixs == {i \in DOMAIN ring: InWindow(ring[i].bucket)}
  <1>1. all \in Seq(Bucket) /\ m \in 1 .. Len(all) + 1 /\ Len(all) \in Nat /\ DOMAIN all = 1 .. Len(all)
    BY DEF Story
  <1>2. ring \in Seq(Bucket) /\ Len(ring) = n /\ \A k \in 1 .. n: ring[k] = all[k + (m - 1)]
    BY <1>1, EndOf
  <1>3. Ring(trace_series, osd) = ring
    <2>1. CASE osd \in DOMAIN trace_series
      BY <2>1 DEF Ring, Story
    <2>2. CASE osd \notin DOMAIN trace_series
      <3>1. all = <<>>
        BY <2>2 DEF Story
      <3>2. Len(ring) = 0
        BY <1>1, <1>2, <3>1
      <3> HIDE DEF ring
      <3>3. ring = <<>>
        BY <1>2, <3>2
      <3>4. QED BY <2>2, <3>3 DEF Ring
    <2>3. QED BY <2>1, <2>2
  <1>4. ShownRing(osd) = Picked(ring, ixs)
    BY <1>3 DEF ShownRing, Where
  <1> HIDE DEF ring
  <1>5. DOMAIN ring = 1 .. n
    BY <1>1, <1>2
  <1>6. {i + (m - 1): i \in ixs} = ShownAt(all, m)
    <2>1. ASSUME NEW i \in ixs PROVE i + (m - 1) \in ShownAt(all, m)
      <3>1. i \in 1 .. n
        BY <1>5
      <3>2. i + (m - 1) \in 1 .. Len(all) /\ i + (m - 1) >= m
        BY <1>1, <3>1
      <3>3. InWindow(all[i + (m - 1)].bucket)
        BY <1>2, <3>1
      <3>4. all[i + (m - 1)] \in Bucket
        BY <1>1, <3>2
      <3>5. all[i + (m - 1)].bucket \in InView
        BY <3>3, <3>4 DEF InView, Bucket
      <3>6. QED BY <1>1, <3>2, <3>5 DEF ShownAt, InBuckets
    <2>2. ASSUME NEW j \in ShownAt(all, m) PROVE \E i \in ixs: i + (m - 1) = j
      <3>1. j \in 1 .. Len(all) /\ j >= m /\ InWindow(all[j].bucket)
        BY <1>1 DEF ShownAt, InBuckets, InView
      <3>2. j - (m - 1) \in 1 .. n /\ (j - (m - 1)) + (m - 1) = j
        BY <1>1, <3>1
      <3>3. ring[j - (m - 1)] = all[j]
        BY <1>2, <3>2
      <3>4. j - (m - 1) \in ixs
        BY <1>5, <3>1, <3>2, <3>3
      <3>5. QED BY <3>2, <3>4
    <2>3. QED BY <2>1, <2>2
  <1>7. ixs \in SUBSET (1 .. Len(all) - m + 1)
    BY <1>5
  <1> HIDE DEF ixs
  <1>8. Picked(SubSeq(all, m, Len(all)), ixs) = Picked(all, {i + (m - 1): i \in ixs})
    BY <1>1, <1>7, PickedEnd
  <1>9. ShownRing(osd) = Picked(all, ShownAt(all, m))
    BY <1>4, <1>6, <1>8 DEF ring
  <1>10. ShownAt(all, m) \in SUBSET DOMAIN all
    BY DEF ShownAt, InBuckets
  <1>11. QED BY <1>1, <1>9, <1>10, PickedSeq

NoPeer == [max |-> 0, osd |-> ""]

LEMMA MergingFolds == \A s: FoldLeft(MergedBucket, NoStats, s) = Merging!Folded(NoStats, s)
  BY DEF Merging!Folded, FoldLeft, MapThenFoldSet, Merging!MapThenFoldSet, Max, Merging!Greatest

LEMMA ByPgFolds == \A s: FoldLeft(MergedPgs, <<>>, s) = ByPg!Folded(<<>>, s)
  BY DEF ByPg!Folded, FoldLeft, MapThenFoldSet, ByPg!MapThenFoldSet, Max, ByPg!Greatest

LEMMA SlowestFolds == \A s: FoldLeft(SlowerPeer, NoPeer, s) = SlowPeers!Folded(NoPeer, s)
  BY DEF SlowPeers!Folded, FoldLeft, MapThenFoldSet, SlowPeers!MapThenFoldSet, Max, SlowPeers!Greatest

LEMMA PointingFolds == \A base, s: FoldLeft(Pointed, base, s) = Pointing!Folded(base, s)
  BY DEF Pointing!Folded, FoldLeft, MapThenFoldSet, Pointing!MapThenFoldSet, Max, Pointing!Greatest

LEMMA RowHas ==
    ASSUME NEW osd
    PROVE  /\ RowOf(osd).osd = osd
           /\ RowOf(osd).stats = Total(ShownRing(osd), Dash)
           /\ \A k \in PGs: StatsOf(RowOf(osd).pgs, k) = Total(ShownRing(osd), k)
           /\ RowOf(osd).points = trace_points(ShownRing(osd))
           /\ RowOf(osd).peer_max = SlowPeers!Folded(NoPeer, ShownRing(osd)).max
           /\ RowOf(osd).slow_peer = SlowPeers!Folded(NoPeer, ShownRing(osd)).osd
  <1>1. /\ RowOf(osd).osd = osd
        /\ RowOf(osd).stats = FoldLeft(MergedBucket, NoStats, ShownRing(osd))
        /\ RowOf(osd).pgs = FoldLeft(MergedPgs, <<>>, ShownRing(osd))
        /\ RowOf(osd).points = trace_points(ShownRing(osd))
        /\ RowOf(osd).peer_max = FoldLeft(SlowerPeer, NoPeer, ShownRing(osd)).max
        /\ RowOf(osd).slow_peer = FoldLeft(SlowerPeer, NoPeer, ShownRing(osd)).osd
    BY DEF RowOf, ShownRing, NoPeer
  <1>2. Dash \notin PGs
    BY SeriesAssumption DEF PGs
  <1>3. QED BY <1>1, <1>2, MergingFolds, ByPgFolds, SlowestFolds DEF Total

(* Fewer buckets amount to no more.                                        *)
LEMMA TotalGrows ==
    ASSUME NEW all \in Seq(Bucket), NEW ixs \in SUBSET DOMAIN all, NEW some, NEW k \in Parts
    PROVE  /\ TotalAt(all, ixs \cap some, k).ops <= TotalAt(all, ixs, k).ops
           /\ TotalAt(all, ixs \cap some, k).max <= TotalAt(all, ixs, k).max
  <1> DEFINE Less(a, b) == a.ops <= b.ops /\ a.max <= b.max
             T == {J \in SUBSET ixs: Less(TotalAt(all, J \cap some, k), TotalAt(all, J, k))}
  <1>1. /\ Len(all) \in Nat /\ DOMAIN all = 1 .. Len(all)
        /\ \A J \in SUBSET ixs: J \cap some \in SUBSET DOMAIN all /\ J \in SUBSET DOMAIN all
    OBVIOUS
  <1>2. \A J \in SUBSET ixs: TotalAt(all, J \cap some, k) \in Stats /\ TotalAt(all, J, k) \in Stats
    BY <1>1, TotalAtTypes
  <1>3. {} \in T
    <2>1. {} \cap some = {} /\ {} \in SUBSET ixs
      OBVIOUS
    <2>2. TotalAt(all, {}, k) \in Stats
      BY <1>2, <2>1
    <2>3. TotalAt(all, {}, k).ops \in Nat /\ TotalAt(all, {}, k).max \in Nat
      BY <2>2 DEF Stats
    <2>4. Less(TotalAt(all, {} \cap some, k), TotalAt(all, {}, k))
      BY <2>1, <2>3
    <2>5. QED BY <2>1, <2>4
  <1>4. ASSUME NEW J \in SUBSET ixs, NEW j \in ixs, J \in T, \A i \in J: i < j
        PROVE  J \cup {j} \in T
    <2> DEFINE a == TotalAt(all, J \cap some, k)
               b == TotalAt(all, J, k)
               c == Part(all[j], k)
    <2>1. a \in Stats /\ b \in Stats /\ Less(a, b)
      BY <1>2, <1>4
    <2>2. j \in DOMAIN all /\ all[j] \in Bucket
      OBVIOUS
    <2>3. c \in Stats
      BY <2>2, PartTypes
    <2>4. TotalAt(all, J \cup {j}, k) = Merged(b, c)
      BY <1>1, <1>4, <2>2, TotalAtMore
    <2>5. TotalAt(all, (J \cup {j}) \cap some, k) = IF j \in some THEN Merged(a, c) ELSE a
      <3>1. CASE j \in some
        <4>1. (J \cup {j}) \cap some = (J \cap some) \cup {j}
          BY <3>1
        <4>2. TotalAt(all, (J \cap some) \cup {j}, k) = Merged(a, c)
          BY <1>1, <1>4, <2>2, TotalAtMore
        <4>3. QED BY <3>1, <4>1, <4>2
      <3>2. CASE j \notin some
        <4>1. (J \cup {j}) \cap some = J \cap some
          BY <3>2
        <4>2. QED BY <3>2, <4>1
      <3>3. QED BY <3>1, <3>2
    <2> HIDE DEF a, b, c
    <2>6. Less(Merged(a, c), Merged(b, c)) /\ Less(a, Merged(b, c))
      <3>1. /\ a.ops \in Nat /\ a.max \in Nat /\ b.ops \in Nat /\ b.max \in Nat /\ c.ops \in Nat /\ c.max \in Nat
            /\ a.ops <= b.ops /\ a.max <= b.max
        BY <2>1, <2>3 DEF Stats
      <3>2. /\ Merged(a, c).ops = a.ops + c.ops /\ Merged(a, c).max = Larger(a.max, c.max)
            /\ Merged(b, c).ops = b.ops + c.ops /\ Merged(b, c).max = Larger(b.max, c.max)
        BY DEF Merged
      <3>3. \A x, y, z \in Nat: x <= y => x + z <= y + z /\ x <= y + z
        OBVIOUS
      <3>4. \A x, y, z \in Nat: x <= y => Larger(x, z) <= Larger(y, z) /\ x <= Larger(y, z)
        BY DEF Larger
      <3>5. QED BY <3>1, <3>2, <3>3, <3>4
    <2> HIDE DEF Less
    <2>7. Less(TotalAt(all, (J \cup {j}) \cap some, k), TotalAt(all, J \cup {j}, k))
      BY <2>4, <2>5, <2>6
    <2>8. QED BY <1>4, <2>7
  <1>5. ixs \in T
    <2>1. ixs \in SUBSET (1 .. Len(all))
      BY <1>1
    <2> HIDE DEF T
    <2>2. QED BY <1>1, <1>3, <1>4, <2>1, InductIndexes
  <1>6. QED BY <1>5

(* The events of the window are all the buckets of the window, whether     *)
(* they are still in the ring or not.                                      *)
LEMMA ExpectedOf ==
    ASSUME NEW osd, SeriesVarsOK
    PROVE  /\ Expected(osd) = Picked(seen_events, Wanted(seen_events, osd, Dash, InView))
           /\ Wanted(seen_events, osd, Dash, InView) \in SUBSET DOMAIN seen_events
           /\ Expected(osd) \in Seq(Event)
  <1>1. seen_events \in Seq(Event)
    BY DEF SeriesVarsOK
  <1>2. \A i \in DOMAIN seen_events: seen_events[i].at \in Nat
    <2>1. \A i \in DOMAIN seen_events: seen_events[i] \in Event
      BY <1>1
    <2>2. QED BY <2>1 DEF Event
  <1> DEFINE test == {i \in DOMAIN seen_events:
                        /\ seen_events[i].event.osd = osd /\ seen_events[i].event.kind # "error"
                        /\ InWindow(seen_events[i].at)}
  <1>3. Expected(osd) = Picked(seen_events, test)
    BY DEF Expected, Where
  <1>4. test = Wanted(seen_events, osd, Dash, InView)
    BY <1>2 DEF Wanted, InView, CountsIn
  <1> HIDE DEF test
  <1>5. Wanted(seen_events, osd, Dash, InView) \in SUBSET DOMAIN seen_events
    BY DEF Wanted
  <1>6. QED BY <1>1, <1>3, <1>4, <1>5, PickedSeq

LEMMA ExactInView ==
    ASSUME NEW osd, NEW all, NEW m, Story(osd, all, m), SeriesVarsOK
    PROVE  /\ StatsOver(Expected(osd)) = TotalAt(all, InBuckets(all, InView), Dash)
           /\ all \in Seq(Bucket) /\ InBuckets(all, InView) \in SUBSET DOMAIN all
  <1>1. InView \in SUBSET Nat /\ Dash \in Parts
    BY DEF InView, Parts
  <1>2. TotalAt(all, InBuckets(all, InView), Dash)
           = CountAt(seen_events, Wanted(seen_events, osd, Dash, InView))
    BY <1>1 DEF Story, Exact
  <1>3. StatsOver(Expected(osd)) = CountAt(seen_events, Wanted(seen_events, osd, Dash, InView))
    BY ExpectedOf DEF CountAt
  <1>4. all \in Seq(Bucket) /\ InBuckets(all, InView) \in SUBSET DOMAIN all
    BY DEF Story, InBuckets
  <1>5. QED BY <1>2, <1>3, <1>4

LEMMA InventsNothing == SeriesInv => NothingInvented
  <1>1. SUFFICES ASSUME SeriesInv, NEW osd \in OSDs
                 PROVE  /\ RowOf(osd).stats.ops <= StatsOver(Expected(osd)).ops
                        /\ RowOf(osd).stats.max <= StatsOver(Expected(osd)).max
    BY DEF NothingInvented
  <1>2. SeriesVarsOK
    BY <1>1 DEF SeriesInv
  <1>3. PICK all, m: Story(osd, all, m)
    BY <1>1 DEF SeriesInv
  <1> DEFINE later == {i \in DOMAIN all: i >= m}
  <1>4. RowOf(osd).stats = TotalAt(all, InBuckets(all, InView) \cap later, Dash)
    <2>1. ShownAt(all, m) = InBuckets(all, InView) \cap later
      BY DEF ShownAt, InBuckets
    <2>2. ShownRing(osd) = Picked(all, ShownAt(all, m))
      BY <1>3, ShownRingOf
    <2>3. RowOf(osd).stats = Total(ShownRing(osd), Dash)
      BY RowHas
    <2> HIDE DEF later
    <2>4. QED BY <2>1, <2>2, <2>3 DEF TotalAt
  <1> HIDE DEF later
  <1>5. Dash \in Parts
    BY DEF Parts
  <1>6. /\ TotalAt(all, InBuckets(all, InView) \cap later, Dash).ops <= TotalAt(all, InBuckets(all, InView), Dash).ops
        /\ TotalAt(all, InBuckets(all, InView) \cap later, Dash).max <= TotalAt(all, InBuckets(all, InView), Dash).max
    BY <1>2, <1>3, <1>5, ExactInView, TotalGrows
  <1>7. QED BY <1>2, <1>3, <1>4, <1>6, ExactInView

-----------------------------------------------------------------------------
(* The panel is exact.                                                     *)

LEMMA Singled ==
    ASSUME NEW all \in Seq(Bucket), NEW i \in DOMAIN all
    PROVE  TotalAt(all, {i}, Dash).max = all[i].all.max
  <1>1. {} \cup {i} = {i} /\ {} \in SUBSET DOMAIN all /\ Dash \in Parts
    BY DEF Parts
  <1>2. TotalAt(all, {} \cup {i}, Dash) = Merged(TotalAt(all, {}, Dash), Part(all[i], Dash))
    BY <1>1, TotalAtMore
  <1>3. TotalAt(all, {}, Dash) = NoStats
    BY <1>1, PickedNone, TotalNone DEF TotalAt
  <1>4. all[i] \in Bucket
    OBVIOUS
  <1>5. Part(all[i], Dash) = all[i].all /\ all[i].all.max \in Nat
    BY <1>4 DEF Part, Bucket, Stats
  <1>6. Merged(NoStats, all[i].all).max = all[i].all.max
    BY <1>5 DEF Merged, NoStats, Larger
  <1>7. QED BY <1>1, <1>2, <1>3, <1>5, <1>6

(* The points: those of each bucket, when no two have the same id.         *)
LEMMA PointsOf ==
    ASSUME NEW s \in Seq(Bucket), NEW id \in first_bucket .. clock,
           \A i, j \in DOMAIN s: s[i].bucket = s[j].bucket => i = j
    PROVE  /\ \A i \in DOMAIN s: s[i].bucket = id => trace_points(s)[id] = s[i].all.max
           /\ (\A i \in DOMAIN s: s[i].bucket # id) => trace_points(s)[id] = 0
  <1> DEFINE ids == first_bucket .. clock
             none == [x \in ids |-> 0]
             n == Len(s)
  <1>1. trace_points(s) = Pointing!Folded(none, s)
    BY PointingFolds DEF trace_points
  <1>2. PICK acc: /\ acc[0] = none
                  /\ \A k \in 1 .. n: acc[k] = Pointed(acc[k - 1], s[k])
                  /\ acc[n] = Pointing!Folded(none, s)
    BY Pointing!Fold
  <1> DEFINE Ends(k) == /\ DOMAIN acc[k] = ids
                        /\ \A i \in DOMAIN s: i <= k /\ s[i].bucket = id => acc[k][id] = s[i].all.max
                        /\ (\A i \in DOMAIN s: i <= k => s[i].bucket # id) => acc[k][id] = 0
             T == {k \in Nat: k <= n => Ends(k)}
  <1>3. n \in Nat /\ DOMAIN s = 1 .. n
    OBVIOUS
  <1>4. 0 \in T
    <2>1. \A i \in DOMAIN s: ~(i <= 0)
      BY <1>3
    <2>2. acc[0] = none /\ DOMAIN none = ids /\ none[id] = 0
      BY <1>2
    <2> HIDE DEF none, ids
    <2>3. Ends(0)
      BY <2>1, <2>2
    <2>4. QED BY <2>3
  <1>5. ASSUME NEW k \in Nat, k \in T PROVE k + 1 \in T
    <2>1. SUFFICES ASSUME k + 1 <= n PROVE Ends(k + 1)
      OBVIOUS
    <2>2. /\ k <= n /\ k + 1 \in DOMAIN s /\ (k + 1) - 1 = k
          /\ \A i \in DOMAIN s: i <= k + 1 <=> i <= k \/ i = k + 1
      BY <1>3, <2>1
    <2>3. Ends(k)
      BY <1>5, <2>2
    <2>4. acc[k + 1] = [acc[k] EXCEPT ![s[k + 1].bucket] = s[k + 1].all.max]
      BY <1>2, <1>3, <2>2 DEF Pointed
    <2>5. DOMAIN acc[k + 1] = ids
      BY <2>3, <2>4
    <2>6. acc[k + 1][id] = IF s[k + 1].bucket = id THEN s[k + 1].all.max ELSE acc[k][id]
      BY <2>3, <2>4
    <2> HIDE DEF ids
    <2>7. \A i \in DOMAIN s: i <= k + 1 /\ s[i].bucket = id => acc[k + 1][id] = s[i].all.max
      <3>1. SUFFICES ASSUME NEW i \in DOMAIN s, i <= k + 1, s[i].bucket = id PROVE acc[k + 1][id] = s[i].all.max
        OBVIOUS
      <3>2. CASE i = k + 1
        BY <2>6, <3>1, <3>2
      <3>3. CASE i # k + 1
        <4>1. i <= k /\ s[k + 1].bucket # id
          BY <2>2, <3>1, <3>3
        <4>2. QED BY <2>3, <2>6, <3>1, <4>1
      <3>4. QED BY <3>2, <3>3
    <2>8. (\A i \in DOMAIN s: i <= k + 1 => s[i].bucket # id) => acc[k + 1][id] = 0
      BY <2>2, <2>3, <2>6
    <2>9. QED BY <2>5, <2>7, <2>8
  <1>6. n \in T
    <2> HIDE DEF T, n
    <2>1. QED BY <1>3, <1>4, <1>5, Induct
  <1>7. Ends(n)
    BY <1>3, <1>6
  <1>8. \A i \in DOMAIN s: i <= n
    BY <1>3
  <1>9. acc[n] = trace_points(s)
    BY <1>1, <1>2
  <1> HIDE DEF n
  <1>10. QED BY <1>7, <1>8, <1>9

(* Nothing of the window is dropped.                                       *)
LEMMA AllShown ==
    ASSUME NEW osd, NEW all, NEW m, Story(osd, all, m), SeriesVarsOK, ~set_back,
           trace_bucket_count(least_kept) >= trace_bucket_count(trace_window)
    PROVE  ShownAt(all, m) = InBuckets(all, InView)
  <1> DEFINE kept == trace_bucket_count(least_kept)
             wide == trace_bucket_count(trace_window)
  <1>1. clock \in Nat /\ least_kept \in Nat /\ trace_window \in Nat
    BY KeptRange, SeriesAssumption DEF SeriesVarsOK
  <1>2. kept \in Nat /\ wide \in Nat /\ kept >= wide
    BY <1>1, CountIsNat
  <1>3. all \in Seq(Bucket) /\ m \in 1 .. Len(all) + 1 /\ InOrder(all, m, clock, kept)
    BY DEF Story
  <1> HIDE DEF kept, wide
  <1>4. SUFFICES ASSUME NEW i \in DOMAIN all, i < m, InWindow(all[i].bucket) PROVE FALSE
    <2>1. \A i \in DOMAIN all: i < m \/ i >= m
      BY <1>3
    <2>2. QED BY <1>4, <2>1 DEF ShownAt, InBuckets, InView
  <1>5. m - 1 \in DOMAIN all /\ i <= m - 1 /\ i \in Nat /\ m \in Nat /\ m > 1
    <2>1. DOMAIN all = 1 .. Len(all) /\ Len(all) \in Nat /\ m \in 1 .. Len(all) + 1
      BY <1>3
    <2>2. QED BY <1>4, <2>1
  <1>6. all[i].bucket \in Nat /\ all[m - 1].bucket \in Nat
    <2>1. all[i] \in Bucket /\ all[m - 1] \in Bucket
      BY <1>3, <1>5
    <2>2. QED BY <2>1 DEF Bucket
  <1>7. all[i].bucket + ((m - 1) - i) <= all[m - 1].bucket /\ all[m - 1].bucket <= clock - kept
    BY <1>3, <1>5 DEF InOrder, Rising
  <1>8. first_bucket <= all[i].bucket /\ first_bucket = clock - wide + 1
    BY <1>4 DEF InWindow, first_bucket, wide
  <1> DEFINE x == all[i].bucket
             y == all[m - 1].bucket
  <1>9. x \in Nat /\ y \in Nat /\ x + ((m - 1) - i) <= y /\ y <= clock - kept /\ clock - wide + 1 <= x
    BY <1>6, <1>7, <1>8
  <1> HIDE DEF x, y
  <1>10. QED BY <1>1, <1>2, <1>5, <1>9

(* The events of the window that pass one more test.                       *)
LEMMA ExpectedIn ==
    ASSUME NEW osd, SeriesVarsOK
    PROVE  /\ \A k \in PGs: Where(Expected(osd), LAMBDA e: e.event.pg = k)
                               = Picked(seen_events, Wanted(seen_events, osd, k, InView))
           /\ \A id: Where(Expected(osd), LAMBDA e: e.at = id)
                               = Picked(seen_events, Wanted(seen_events, osd, Dash, InView \cap {id}))
  <1> DEFINE wanted == Wanted(seen_events, osd, Dash, InView)
             p == Picked(seen_events, wanted)
  <1>1. seen_events \in Seq(Event) /\ Dash \notin PGs
    BY SeriesAssumption DEF SeriesVarsOK, PGs
  <1>2. /\ Expected(osd) = p /\ p \in Seq(Event) /\ wanted \in SUBSET DOMAIN seen_events
        /\ \A i \in wanted: seen_events[i] \in Event
    BY <1>1, ExpectedOf
  <1>3. ASSUME NEW passes PROVE Picked(p, {i \in DOMAIN p: p[i] \in passes})
                                   = Picked(seen_events, {i \in wanted: seen_events[i] \in passes})
    <2>1. Picked(p, Passing(p, DOMAIN p, passes)) = Picked(seen_events, Passing(seen_events, wanted, passes))
      BY <1>1, <1>2, PickedIn
    <2>2. QED BY <2>1 DEF Passing
  <1>4. \A i \in DOMAIN p: p[i] \in Event
    BY <1>2
  <1>5. ASSUME NEW k \in PGs
        PROVE  Where(Expected(osd), LAMBDA e: e.event.pg = k)
                  = Picked(seen_events, Wanted(seen_events, osd, k, InView))
    <2> DEFINE passes == {e \in Event: e.event.pg = k}
    <2>1. Where(Expected(osd), LAMBDA e: e.event.pg = k) = Picked(p, {i \in DOMAIN p: p[i].event.pg = k})
      BY <1>2 DEF Where
    <2>2. {i \in wanted: seen_events[i] \in passes} = Wanted(seen_events, osd, k, InView)
      <3>1. {i \in wanted: seen_events[i] \in passes} = {i \in wanted: seen_events[i].event.pg = k}
        BY <1>2
      <3>2. k # Dash
        BY <1>1
      <3>3. QED BY <3>1, <3>2 DEF Wanted, CountsIn
    <2>3. {i \in DOMAIN p: p[i] \in passes} = {i \in DOMAIN p: p[i].event.pg = k}
      BY <1>4
    <2> HIDE DEF passes, p, wanted
    <2>4. QED BY <1>3, <2>1, <2>2, <2>3
  <1>6. ASSUME NEW id
        PROVE  Where(Expected(osd), LAMBDA e: e.at = id)
                  = Picked(seen_events, Wanted(seen_events, osd, Dash, InView \cap {id}))
    <2> DEFINE passes == {e \in Event: e.at = id}
    <2>1. Where(Expected(osd), LAMBDA e: e.at = id) = Picked(p, {i \in DOMAIN p: p[i].at = id})
      BY <1>2 DEF Where
    <2>2. {i \in wanted: seen_events[i] \in passes} = Wanted(seen_events, osd, Dash, InView \cap {id})
      <3>1. {i \in wanted: seen_events[i] \in passes} = {i \in wanted: seen_events[i].at = id}
        BY <1>2
      <3>2. QED BY <3>1 DEF Wanted
    <2>3. {i \in DOMAIN p: p[i] \in passes} = {i \in DOMAIN p: p[i].at = id}
      BY <1>4
    <2> HIDE DEF passes, p, wanted
    <2>4. QED BY <1>3, <2>1, <2>2, <2>3
  <1>7. QED BY <1>5, <1>6

LEMMA PointExact ==
    ASSUME NEW osd, NEW all, NEW m, Story(osd, all, m), SeriesVarsOK, ~set_back,
           ShownAt(all, m) = InBuckets(all, InView), NEW id \in first_bucket .. clock
    PROVE  RowOf(osd).points[id] = StatsOver(Where(Expected(osd), LAMBDA e: e.at = id)).max
  <1> DEFINE J == InBuckets(all, InView)
             s == ShownRing(osd)
             here == InBuckets(all, InView \cap {id})
             events == Where(Expected(osd), LAMBDA e: e.at = id)
  <1>1. /\ all \in Seq(Bucket) /\ Exact(osd, all) /\ Rising(all) /\ DOMAIN all = 1 .. Len(all) /\ Len(all) \in Nat
        /\ \A i \in DOMAIN all: all[i].bucket \in Nat
    <2>1. all \in Seq(Bucket) /\ Exact(osd, all) /\ Rising(all)
      BY DEF Story, InOrder
    <2>2. \A i \in DOMAIN all: all[i] \in Bucket
      BY <2>1
    <2>3. QED BY <2>1, <2>2 DEF Bucket
  <1>2. s = Picked(all, J) /\ s \in Seq(Bucket) /\ J \in SUBSET DOMAIN all
    BY ShownRingOf
  <1>3. \A i, j \in DOMAIN all: all[i].bucket = all[j].bucket => i = j
    <2>1. SUFFICES ASSUME NEW i \in DOMAIN all, NEW j \in DOMAIN all, all[i].bucket = all[j].bucket, i < j PROVE FALSE
      <3>1. \A i, j \in DOMAIN all: i < j \/ i = j \/ j < i
        BY <1>1
      <3>2. QED BY <2>1, <3>1
    <2> DEFINE x == all[i].bucket
    <2>2. x \in Nat /\ x + (j - i) <= x /\ i \in Nat /\ j \in Nat
      BY <1>1, <2>1 DEF Rising
    <2> HIDE DEF x
    <2>3. QED BY <2>1, <2>2
  <1>4. PICK order \in Seq(Nat): /\ Increasing(order) /\ ToSet(order) = J
                                 /\ Picked(all, J) = [k \in DOMAIN order |-> all[order[k]]]
    BY <1>1, <1>2, IndexesInOrder
  <1> HIDE DEF J, s
  <1>5. /\ DOMAIN s = DOMAIN order /\ \A k \in DOMAIN s: order[k] \in J /\ s[k] = all[order[k]]
        /\ \A i \in J: \E k \in DOMAIN s: s[k] = all[i]
    BY <1>2, <1>4 DEF ToSet
  <1>6. \A k, l \in DOMAIN s: s[k].bucket = s[l].bucket => k = l
    <2>1. SUFFICES ASSUME NEW k \in DOMAIN s, NEW l \in DOMAIN s, s[k].bucket = s[l].bucket PROVE k = l
      OBVIOUS
    <2>2. order[k] = order[l] /\ order[k] \in Nat
      <3>1. order[k] \in DOMAIN all /\ order[l] \in DOMAIN all
        BY <1>2, <1>5
      <3>2. all[order[k]].bucket = all[order[l]].bucket
        BY <1>5, <2>1
      <3>3. order[k] = order[l]
        BY <1>3, <3>1, <3>2
      <3>4. k \in DOMAIN order
        BY <1>5
      <3>5. order[k] \in Nat
        BY <3>4
      <3>6. QED BY <3>3, <3>5
    <2>3. k \in Nat /\ l \in Nat /\ (k < l => order[k] < order[l]) /\ (l < k => order[l] < order[k])
      <3>1. DOMAIN order = 1 .. Len(order) /\ k \in DOMAIN order /\ l \in DOMAIN order
        BY <1>5
      <3>2. QED BY <1>4, <3>1 DEF Increasing
    <2>4. QED BY <2>2, <2>3
  <1>7. /\ RowOf(osd).points[id] = trace_points(s)[id]
        /\ \A k \in DOMAIN s: s[k].bucket = id => trace_points(s)[id] = s[k].all.max
        /\ (\A k \in DOMAIN s: s[k].bucket # id) => trace_points(s)[id] = 0
    <2>1. RowOf(osd).points = trace_points(s)
      BY RowHas DEF s
    <2>2. QED BY <1>2, <1>6, <2>1, PointsOf
  <1>8. StatsOver(events) = TotalAt(all, here, Dash)
    <2>1. InView \cap {id} \in SUBSET Nat /\ Dash \in Parts
      BY DEF InView, Parts
    <2>2. TotalAt(all, here, Dash) = CountAt(seen_events, Wanted(seen_events, osd, Dash, InView \cap {id}))
      BY <1>1, <2>1 DEF Exact
    <2>3. events = Picked(seen_events, Wanted(seen_events, osd, Dash, InView \cap {id}))
      BY ExpectedIn
    <2> HIDE DEF events
    <2>4. QED BY <2>2, <2>3 DEF CountAt
  <1> HIDE DEF events
  <1>9. here = {i \in J: all[i].bucket = id}
    BY DEF InBuckets, J
  <1> HIDE DEF here
  <1>10. CASE here = {}
    <2>1. \A k \in DOMAIN s: s[k].bucket # id
      BY <1>5, <1>9, <1>10
    <2>2. TotalAt(all, here, Dash) = NoStats
      BY <1>10, PickedNone, TotalNone DEF TotalAt, Parts
    <2>3. QED BY <1>7, <1>8, <2>1, <2>2 DEF NoStats, events
  <1>11. CASE here # {}
    <2>1. PICK i \in J: i \in here /\ all[i].bucket = id
      BY <1>9, <1>11
    <2>2. here = {i} /\ i \in DOMAIN all
      BY <1>2, <1>3, <1>9, <2>1
    <2>3. TotalAt(all, here, Dash).max = all[i].all.max
      BY <1>1, <2>2, Singled
    <2>4. PICK k \in DOMAIN s: s[k] = all[i]
      BY <1>5
    <2>5. QED BY <1>7, <1>8, <2>1, <2>3, <2>4 DEF events
  <1>12. QED BY <1>10, <1>11

LEMMA PeerExact ==
    ASSUME NEW osd, NEW all, NEW m, Story(osd, all, m), SeriesVarsOK, RowOf(osd).peer_max > 0
    PROVE  \E e \in ToSet(Expected(osd)): e.event.peer = RowOf(osd).slow_peer /\ e.event.peer_latency = RowOf(osd).peer_max
  <1> DEFINE Said(peer, latency) == \E e \in ToSet(Expected(osd)): e.event.peer = peer /\ e.event.peer_latency = latency
             B == {b \in Bucket: b.peer_max > 0 => Said(b.slow_peer, b.peer_max)}
             T == {x \in [max: Nat, osd: Peers]: x.max > 0 => Said(x.osd, x.max)}
             s == ShownRing(osd)
  <1>1. s = Picked(all, ShownAt(all, m)) /\ s \in Seq(Bucket) /\ ShownAt(all, m) \in SUBSET DOMAIN all
    BY ShownRingOf
  <1>2. ToSet(s) = {all[i]: i \in ShownAt(all, m)}
    BY <1>1, PickedSeq DEF Story
  <1>3. ToSet(Expected(osd)) = {seen_events[i]: i \in Wanted(seen_events, osd, Dash, InView)}
    BY ExpectedOf, PickedSeq DEF SeriesVarsOK
  <1>4. ASSUME NEW i \in ShownAt(all, m), all[i].peer_max > 0 PROVE Said(all[i].slow_peer, all[i].peer_max)
    <2>1. i \in DOMAIN all /\ all[i].bucket \in InView
      BY DEF ShownAt, InBuckets
    <2>2. PICK j \in DOMAIN seen_events: NamesPeer(seen_events[j], osd, all[i])
      BY <1>4, <2>1 DEF Story, Named
    <2>3. j \in Wanted(seen_events, osd, Dash, InView)
      BY <2>1, <2>2 DEF NamesPeer, Wanted, CountsIn
    <2>4. seen_events[j] \in ToSet(Expected(osd))
      BY <1>3, <2>3
    <2>5. QED BY <2>2, <2>4 DEF NamesPeer
  <1> HIDE DEF Said, s
  <1>5. s \in Seq(B)
    <2>1. \A k \in DOMAIN s: s[k] \in Bucket /\ s[k] \in ToSet(s)
      BY <1>1 DEF ToSet
    <2>2. \A k \in DOMAIN s: s[k] \in B
      BY <1>2, <1>4, <2>1
    <2> HIDE DEF B
    <2>3. s \in [1 .. Len(s) -> B] /\ Len(s) \in Nat
      BY <1>1, <2>2
    <2>4. QED BY <2>3
  <1>6. NoPeer \in T
    <2>1. NoPeer \in [max: Nat, osd: Peers] /\ NoPeer.max = 0
      BY DEF NoPeer, Peers
    <2>2. QED BY <2>1
  <1>7. \A x \in T, b \in B: SlowerPeer(x, b) \in T
    BY DEF SlowerPeer, Bucket
  <1> HIDE DEF B, T
  <1>8. SlowPeers!Folded(NoPeer, s) \in T
    BY <1>5, <1>6, <1>7, SlowPeers!FoldTyped
  <1>9. Said(RowOf(osd).slow_peer, RowOf(osd).peer_max)
    <2>1. /\ RowOf(osd).peer_max = SlowPeers!Folded(NoPeer, s).max
          /\ RowOf(osd).slow_peer = SlowPeers!Folded(NoPeer, s).osd
      BY RowHas DEF s
    <2>2. SlowPeers!Folded(NoPeer, s).max > 0
      BY <2>1
    <2>3. QED BY <1>8, <2>1, <2>2 DEF T
  <1>10. QED BY <1>9 DEF Said

LEMMA ExactWindow == SeriesInv => WindowExact
  <1>1. SUFFICES ASSUME SeriesInv, ~set_back, NEW osd \in OSDs,
                        trace_bucket_count(least_kept) >= trace_bucket_count(trace_window)
                 PROVE  LET row == RowOf(osd)
                            events == Expected(osd)
                        IN /\ row.stats = StatsOver(events)
                           /\ \A pg \in ToSet(PgOrder):
                                 StatsOf(row.pgs, pg) = StatsOver(Where(events, LAMBDA e: e.event.pg = pg))
                           /\ \A id \in first_bucket .. clock:
                                 row.points[id] = StatsOver(Where(events, LAMBDA e: e.at = id)).max
                           /\ row.peer_max > 0 => \E e \in ToSet(events):
                                 e.event.peer = row.slow_peer /\ e.event.peer_latency = row.peer_max
    BY DEF WindowExact
  <1>2. SeriesVarsOK
    BY <1>1 DEF SeriesInv
  <1>3. PICK all, m: Story(osd, all, m)
    BY <1>1 DEF SeriesInv
  <1>4. ShownAt(all, m) = InBuckets(all, InView)
    BY <1>1, <1>2, <1>3, AllShown
  <1>5. \A k \in Parts: Total(ShownRing(osd), k) = TotalAt(all, InBuckets(all, InView), k)
    BY <1>3, <1>4, ShownRingOf DEF TotalAt
  <1>6. RowOf(osd).stats = StatsOver(Expected(osd))
    <2>1. RowOf(osd).stats = Total(ShownRing(osd), Dash)
      BY RowHas
    <2>2. StatsOver(Expected(osd)) = TotalAt(all, InBuckets(all, InView), Dash)
      BY <1>2, <1>3, ExactInView
    <2>3. QED BY <1>5, <2>1, <2>2 DEF Parts
  <1>7. ASSUME NEW pg \in PGs
        PROVE  StatsOf(RowOf(osd).pgs, pg) = StatsOver(Where(Expected(osd), LAMBDA e: e.event.pg = pg))
    <2>1. StatsOf(RowOf(osd).pgs, pg) = Total(ShownRing(osd), pg)
      BY RowHas
    <2>2. InView \in SUBSET Nat /\ pg \in Parts
      BY DEF InView, Parts
    <2>3. TotalAt(all, InBuckets(all, InView), pg) = CountAt(seen_events, Wanted(seen_events, osd, pg, InView))
      BY <1>3, <2>2 DEF Story, Exact
    <2>4. Where(Expected(osd), LAMBDA e: e.event.pg = pg) = Picked(seen_events, Wanted(seen_events, osd, pg, InView))
      BY <1>2, ExpectedIn
    <2>5. QED BY <1>5, <2>1, <2>2, <2>3, <2>4 DEF CountAt
  <1>8. \A id \in first_bucket .. clock:
           RowOf(osd).points[id] = StatsOver(Where(Expected(osd), LAMBDA e: e.at = id)).max
    BY <1>1, <1>2, <1>3, <1>4, PointExact
  <1>9. RowOf(osd).peer_max > 0 => \E e \in ToSet(Expected(osd)):
           e.event.peer = RowOf(osd).slow_peer /\ e.event.peer_latency = RowOf(osd).peer_max
    BY <1>2, <1>3, PeerExact
  <1>10. QED BY <1>6, <1>7, <1>8, <1>9 DEF PGs

-----------------------------------------------------------------------------
(* The buffer of events: the end of what came, which an event makes longer *)
(* and a cut shorter.                                                      *)

Seen == [i \in DOMAIN seen_events |-> seen_events[i].event]

Latest(events, seen) ==
    /\ events \in Seq(Line) /\ seen \in Seq(Line)
    /\ Len(events) <= Len(seen) /\ Len(events) <= Limit
    /\ events = SubSeq(seen, Len(seen) - Len(events) + 1, Len(seen))
    /\ Len(events) >= (IF Len(seen) <= Limit THEN Len(seen) ELSE Limit - Drop + 1)

BufferInv == Latest(trace_events, Seen)

LEMMA LatestNone == Latest(<<>>, <<>>)
  <1>1. <<>> \in Seq(Line) /\ Len(<<>>) = 0 /\ Limit \in Nat
    BY SeriesAssumption
  <1> DEFINE e == SubSeq(<<>>, 1, 0)
  <1>2. e \in Seq(Line) /\ Len(e) = 0
    BY <1>1, EndOf
  <1> HIDE DEF e
  <1>3. e = <<>>
    BY <1>2
  <1>4. QED BY <1>1, <1>3 DEF Latest, e

LEMMA LatestMore ==
    ASSUME NEW events, NEW seen, NEW line \in Line, Latest(events, seen)
    PROVE  Latest(Capped(Append(events, line)), Append(seen, line))
  <1> DEFINE k == Len(events)
             n == Len(seen)
             m == n - k + 1
             more == Append(events, line)
             all == Append(seen, line)
             cut == SubSeq(more, Drop + 1, Len(more))
  <1>1. events \in Seq(Line) /\ seen \in Seq(Line) /\ k \in Nat /\ n \in Nat /\ Limit \in Nat /\ Drop \in 1 .. Limit
    BY SeriesAssumption DEF Latest
  <1>2. k <= n /\ k <= Limit /\ k >= (IF n <= Limit THEN n ELSE Limit - Drop + 1) /\ events = SubSeq(seen, m, n)
    BY DEF Latest
  <1>3. more \in Seq(Line) /\ Len(more) = k + 1 /\ all \in Seq(Line) /\ Len(all) = n + 1
    BY <1>1
  <1>4. m \in 1 .. n + 1
    BY <1>1, <1>2
  <1>5. more = SubSeq(all, m, n + 1)
    BY <1>1, <1>2, <1>3, <1>4, EndAppend
  <1>6. m = (n + 1) - (k + 1) + 1
    BY <1>1
  <1>7. CASE k + 1 <= Limit
    <2>1. Capped(more) = more
      BY <1>1, <1>3, <1>7 DEF Capped
    <2> HIDE DEF more, all
    <2>2. k + 1 <= n + 1 /\ k + 1 >= (IF n + 1 <= Limit THEN n + 1 ELSE Limit - Drop + 1)
      BY <1>1, <1>2, <1>7
    <2>3. more = SubSeq(all, Len(all) - Len(more) + 1, Len(all))
      BY <1>3, <1>5, <1>6
    <2>4. Latest(more, all)
      BY <1>3, <1>7, <2>2, <2>3 DEF Latest
    <2>5. QED BY <2>1, <2>4 DEF more, all
  <1>8. CASE ~(k + 1 <= Limit)
    <2>1. k = Limit /\ k + 1 > Limit
      <3>1. k <= Limit
        BY <1>2
      <3> HIDE DEF k
      <3>2. QED BY <1>1, <1>8, <3>1
    <2>2. Capped(more) = cut
      BY <1>3, <2>1 DEF Capped
    <2> HIDE DEF more, all
    <2>3. Drop + 1 \in 1 .. Len(more) + 1 /\ Drop + 1 \in 1 .. (n + 1) - m + 2
      BY <1>1, <1>2, <1>3, <2>1
    <2>4. cut \in Seq(Line) /\ Len(cut) = (k + 1) - (Drop + 1) + 1
      BY <1>3, <2>3, EndOf
    <2> DEFINE c == Len(cut)
    <2>5. c = k + 1 - Drop /\ c \in Nat /\ c <= Limit /\ c <= n + 1 /\ c >= Limit - Drop + 1 /\ c <= k
      BY <1>1, <1>2, <2>1, <2>4
    <2>6. m \in 1 .. Len(all) + 1 /\ Drop + 1 \in 1 .. Len(all) - m + 2
      BY <1>1, <1>3, <1>4, <2>3
    <2>7. cut = SubSeq(all, m + (Drop + 1) - 1, n + 1)
      BY <1>3, <1>5, <2>6, EndOfEnd
    <2> HIDE DEF cut
    <2>8. m + (Drop + 1) - 1 = (n + 1) - c + 1
      BY <1>1, <2>5
    <2>9. cut = SubSeq(all, Len(all) - Len(cut) + 1, Len(all))
      BY <1>3, <2>7, <2>8
    <2>10. Len(cut) >= (IF Len(all) <= Limit THEN Len(all) ELSE Limit - Drop + 1)
      BY <1>1, <1>2, <1>3, <2>1, <2>5
    <2>11. Latest(cut, all)
      BY <1>3, <2>4, <2>5, <2>9, <2>10 DEF Latest
    <2>12. QED BY <2>2, <2>11 DEF more, all
  <1>9. QED BY <1>7, <1>8

LEMMA InitBuffer == SeriesInit => BufferInv
  <1>1. SUFFICES ASSUME SeriesInit PROVE BufferInv
    OBVIOUS
  <1>2. trace_events = <<>> /\ seen_events = <<>>
    BY <1>1 DEF SeriesInit
  <1>3. Seen = <<>>
    BY <1>2 DEF Seen
  <1>4. QED BY <1>2, <1>3, LatestNone DEF BufferInv

LEMMA NextBuffer == SeriesInv /\ BufferInv /\ [SeriesNext]_seriesVars => BufferInv'
  <1>1. SUFFICES ASSUME SeriesInv, BufferInv, [SeriesNext]_seriesVars PROVE BufferInv'
    OBVIOUS
  <1>2. CASE UNCHANGED <<trace_events, seen_events>>
    BY <1>1, <1>2 DEF BufferInv, Seen
  <1>3. CASE trace_line
    <2>1. PICK line \in Lines:
             IF ~IsEvent(line) THEN UNCHANGED <<trace_series, trace_events, seen_events, least_kept>>
             ELSE LET event == parse_trace_event(line) IN
                  /\ trace_series' = Recorded(trace_series, event, clock, Retention)
                  /\ trace_events' = Capped(Append(trace_events, event))
                  /\ seen_events' = Append(seen_events, [event |-> event, at |-> clock])
                  /\ least_kept' = IF Retention < least_kept THEN Retention ELSE least_kept
      BY <1>3 DEF trace_line
    <2>2. CASE ~IsEvent(line)
      BY <1>2, <2>1, <2>2
    <2>3. CASE IsEvent(line)
      <3> DEFINE event == parse_trace_event(line)
                 e == [event |-> event, at |-> clock]
      <3>1. event \in Line
        BY <2>3, EventTypes
      <3>2. trace_events' = Capped(Append(trace_events, event)) /\ seen_events' = Append(seen_events, e)
        BY <2>1, <2>3
      <3> HIDE DEF event
      <3>3. e \in Event /\ e.event = event
        BY <1>1, <3>1, SeriesAssumption DEF Event, SeriesInv, SeriesVarsOK
      <3> HIDE DEF e
      <3>4. seen_events \in Seq(Event)
        BY <1>1 DEF SeriesInv, SeriesVarsOK
      <3>5. Seen' = Append(Seen, event)
        <4> DEFINE n == Len(seen_events)
        <4>1. n \in Nat /\ DOMAIN seen_events = 1 .. n
          BY <3>4
        <4>2. Seen \in Seq(Line) /\ Len(Seen) = n /\ Seen = [i \in 1 .. n |-> seen_events[i].event]
          <5>1. Seen = [i \in 1 .. n |-> seen_events[i].event]
            BY <4>1 DEF Seen
          <5>2. \A i \in 1 .. n: seen_events[i].event \in Line
            <6>1. \A i \in 1 .. n: seen_events[i] \in Event
              BY <3>4
            <6>2. QED BY <6>1 DEF Event
          <5>3. QED BY <4>1, <5>1, <5>2
        <4>3. /\ DOMAIN seen_events' = 1 .. n + 1 /\ seen_events'[n + 1] = e
              /\ \A i \in 1 .. n: seen_events'[i] = seen_events[i]
          BY <3>2, <3>3, <3>4
        <4>4. Seen' = [i \in 1 .. n + 1 |-> seen_events'[i].event]
          BY <4>3 DEF Seen
        <4>5. Append(Seen, event) = [i \in 1 .. n + 1 |-> IF i = n + 1 THEN event ELSE Seen[i]]
          BY <4>1, <4>2
        <4>6. ASSUME NEW i \in 1 .. n + 1
              PROVE  seen_events'[i].event = IF i = n + 1 THEN event ELSE Seen[i]
          <5>1. i # n + 1 => i \in 1 .. n
            BY <4>1
          <5>2. QED BY <3>3, <4>2, <4>3, <5>1
        <4>7. QED BY <4>4, <4>5, <4>6
      <3>6. QED BY <1>1, <3>1, <3>2, <3>5, LatestMore DEF BufferInv
    <2>4. QED BY <2>2, <2>3
  <1>4. CASE time_passes
    BY <1>2, <1>4 DEF time_passes
  <1>5. CASE times_set
    BY <1>2, <1>5 DEF times_set
  <1>6. CASE clear_series
    <2>1. trace_events' = <<>> /\ seen_events' = <<>>
      BY <1>6 DEF clear_series
    <2>2. Seen' = <<>>
      BY <2>1 DEF Seen
    <2>3. QED BY <2>1, <2>2, LatestNone DEF BufferInv
  <1>7. CASE UNCHANGED seriesVars
    BY <1>2, <1>7 DEF seriesVars
  <1>8. QED BY <1>1, <1>3, <1>4, <1>5, <1>6, <1>7 DEF SeriesNext

LEMMA BufferFollows == BufferInv => BufferIsLatest
  BY DEF BufferInv, Latest, BufferIsLatest, Seen

-----------------------------------------------------------------------------
(* The list of rows: one for each OSD, in a strict order.                  *)

RowOSDs == SnapshotOsds \cup ((DOMAIN trace_series \cup {e.osd : e \in ToSet(trace_events)}) \ {Dash})
AllRows == {RowOf(osd): osd \in RowOSDs}
Sooner == [x \in AllRows |-> {y \in AllRows: Precede(y, x)}]

RankOK(row) ==
    /\ row.osd \in OSDs /\ row.stats.ops \in Nat /\ row.stats.max \in Nat
    /\ Place(OsdOrder, row.osd) \in Nat

LEMMA PlaceOf ==
    /\ \A osd \in OSDs: Place(OsdOrder, osd) \in Nat
    /\ \A a, b \in OSDs: Place(OsdOrder, a) = Place(OsdOrder, b) => a = b
  <1>1. OsdOrder \in Seq(OSDs) /\ OSDs = ToSet(OsdOrder)
    BY SeriesAssumption DEF OSDs
  <1>2. ASSUME NEW osd \in OSDs
        PROVE  Place(OsdOrder, osd) \in Nat /\ OsdOrder[Place(OsdOrder, osd)] = osd
    BY <1>1, PlaceFound DEF Place, SelectInSeq
  <1>3. \A a, b \in OSDs: Place(OsdOrder, a) = Place(OsdOrder, b) => a = b
    <2>1. SUFFICES ASSUME NEW a \in OSDs, NEW b \in OSDs, Place(OsdOrder, a) = Place(OsdOrder, b)
                   PROVE  a = b
      OBVIOUS
    <2>2. OsdOrder[Place(OsdOrder, a)] = a /\ OsdOrder[Place(OsdOrder, b)] = b
      BY <1>2
    <2>3. QED BY <2>1, <2>2
  <1>4. QED BY <1>2, <1>3

LEMMA RowKeys ==
    ASSUME SeriesInv, BufferInv
    PROVE  /\ SnapshotOsds \cup DOMAIN trace_series \subseteq RowOSDs
           /\ IsFiniteSet(AllRows) /\ \A row \in AllRows: RankOK(row)
           /\ \A osd \in RowOSDs: RowOf(osd).osd = osd
           /\ \A row \in AllRows: row = RowOf(row.osd)
  <1>1. /\ SnapshotOsds \subseteq OSDs /\ DOMAIN trace_series \subseteq OSDs /\ Dash \notin OSDs
        /\ OsdOrder \in Seq(OSDs)
    BY SeriesAssumption DEF SeriesInv, SeriesVarsOK, OSDs
  <1>2. \A e \in ToSet(trace_events): e.osd \in OSDs \cup {Dash}
    <2>1. trace_events \in Seq(Line)
      BY DEF BufferInv, Latest
    <2>2. \A e \in ToSet(trace_events): e \in Line
      BY <2>1 DEF ToSet
    <2>3. QED BY <2>2 DEF Line
  <1>3. RowOSDs \subseteq OSDs /\ SnapshotOsds \cup DOMAIN trace_series \subseteq RowOSDs
    BY <1>1, <1>2 DEF RowOSDs
  <1>4. \A osd \in RowOSDs: RowOf(osd).osd = osd
    BY RowHas
  <1>5. IsFiniteSet(AllRows)
    <2> DEFINE f == [osd \in RowOSDs |-> RowOf(osd)]
    <2>1. IsFiniteSet(OSDs)
      BY <1>1, ToSetFinite DEF OSDs
    <2>2. IsFiniteSet(RowOSDs)
      BY <1>3, <2>1, FS_Subset
    <2>3. DOMAIN f = RowOSDs /\ \A osd \in RowOSDs: f[osd] = RowOf(osd)
      OBVIOUS
    <2> HIDE DEF f
    <2>4. {f[osd]: osd \in DOMAIN f} = AllRows
      BY <2>3 DEF AllRows
    <2>5. QED BY <2>2, <2>3, <2>4, ImageFinite
  <1>6. \A row \in AllRows: row = RowOf(row.osd)
    BY <1>4 DEF AllRows
  <1>7. ASSUME NEW osd \in RowOSDs PROVE RankOK(RowOf(osd))
    <2>1. osd \in OSDs /\ RowOf(osd).osd = osd
      BY <1>3, <1>4
    <2>2. PICK all, m: Story(osd, all, m)
      BY <2>1 DEF SeriesInv
    <2>3. Total(ShownRing(osd), Dash) \in Stats
      BY <2>2, ShownRingOf, TotalTypes DEF Parts
    <2>4. RowOf(osd).stats \in Stats
      BY <2>3, RowHas
    <2>5. QED BY <2>1, <2>4, PlaceOf DEF RankOK, Stats
  <1>8. QED BY <1>3, <1>4, <1>5, <1>6, <1>7 DEF AllRows

(* The order of two rows is that of their numbers.                         *)
Lex(a, b, c, x, y, z) == a > x \/ (a = x /\ b > y) \/ (a = x /\ b = y /\ c < z)

LEMMA PrecedeOrders ==
    /\ \A x: RankOK(x) => ~Precede(x, x)
    /\ \A x, y: RankOK(x) /\ RankOK(y) /\ x.osd # y.osd => Precede(x, y) \/ Precede(y, x)
    /\ \A x, y, z: RankOK(x) /\ RankOK(y) /\ RankOK(z) /\ Precede(x, y) /\ Precede(y, z) => Precede(x, z)
    /\ \A x, y: RankOK(x) /\ RankOK(y) /\ Precede(x, y) => x.stats.ops >= y.stats.ops
  <1>1. \A x, y: Precede(x, y) = Lex(x.stats.ops, x.stats.max, Place(OsdOrder, x.osd),
                                    y.stats.ops, y.stats.max, Place(OsdOrder, y.osd))
    BY DEF Precede, Lex
  <1>2. SUFFICES ASSUME NEW x, NEW y, NEW z, RankOK(x)
                 PROVE  /\ ~Precede(x, x)
                        /\ RankOK(y) /\ x.osd # y.osd => Precede(x, y) \/ Precede(y, x)
                        /\ RankOK(y) /\ RankOK(z) /\ Precede(x, y) /\ Precede(y, z) => Precede(x, z)
                        /\ RankOK(y) /\ Precede(x, y) => x.stats.ops >= y.stats.ops
    OBVIOUS
  <1> DEFINE a == x.stats.ops  b == x.stats.max  c == Place(OsdOrder, x.osd)
             d == y.stats.ops  e == y.stats.max  f == Place(OsdOrder, y.osd)
             g == z.stats.ops  h == z.stats.max  k == Place(OsdOrder, z.osd)
  <1>3. /\ Precede(x, x) = Lex(a, b, c, a, b, c) /\ Precede(x, y) = Lex(a, b, c, d, e, f)
        /\ Precede(y, x) = Lex(d, e, f, a, b, c) /\ Precede(y, z) = Lex(d, e, f, g, h, k)
        /\ Precede(x, z) = Lex(a, b, c, g, h, k)
    BY <1>1
  <1>4. a \in Nat /\ b \in Nat /\ c \in Nat
    BY <1>2 DEF RankOK
  <1>5. RankOK(y) => d \in Nat /\ e \in Nat /\ f \in Nat
    BY DEF RankOK
  <1>6. RankOK(z) => g \in Nat /\ h \in Nat /\ k \in Nat
    BY DEF RankOK
  <1>7. RankOK(y) /\ x.osd # y.osd => c # f
    BY <1>2, PlaceOf DEF RankOK
  <1> HIDE DEF a, b, c, d, e, f, g, h, k
  <1>8. ~Lex(a, b, c, a, b, c)
    BY <1>4 DEF Lex
  <1>9. RankOK(y) /\ x.osd # y.osd => Lex(a, b, c, d, e, f) \/ Lex(d, e, f, a, b, c)
    BY <1>4, <1>5, <1>7 DEF Lex
  <1>10. RankOK(y) /\ RankOK(z) /\ Lex(a, b, c, d, e, f) /\ Lex(d, e, f, g, h, k) => Lex(a, b, c, g, h, k)
    BY <1>4, <1>5, <1>6 DEF Lex
  <1>11. RankOK(y) /\ Lex(a, b, c, d, e, f) => a >= d
    BY <1>4, <1>5 DEF Lex
  <1>12. QED BY <1>3, <1>8, <1>9, <1>10, <1>11 DEF a, d

LEMMA SoonerOrders == SeriesInv /\ BufferInv => Orders(Sooner, AllRows)
  <1>1. SUFFICES ASSUME SeriesInv, BufferInv PROVE Orders(Sooner, AllRows)
    OBVIOUS
  <1>2. \A row \in AllRows: RankOK(row) /\ row = RowOf(row.osd)
    BY <1>1, RowKeys
  <1>3. \A x \in AllRows: ~Precede(x, x)
    BY <1>2, PrecedeOrders
  <1>4. ASSUME NEW x \in AllRows, NEW y \in AllRows, x # y PROVE Precede(x, y) \/ Precede(y, x)
    <2>1. x.osd # y.osd
      BY <1>2, <1>4
    <2>2. QED BY <1>2, <2>1, PrecedeOrders
  <1>5. ASSUME NEW x \in AllRows, NEW y \in AllRows, NEW z \in AllRows, Precede(x, y), Precede(y, z)
        PROVE  Precede(x, z)
    BY <1>2, <1>5, PrecedeOrders
  <1>6. Sooner \in [AllRows -> SUBSET AllRows] /\ \A x, y \in AllRows: x \in Sooner[y] <=> Precede(x, y)
    BY DEF Sooner
  <1>7. \A x, y \in AllRows: x \in Sooner[y] => Sooner[x] \subseteq Sooner[y]
    <2>1. \A x \in AllRows: Sooner[x] \subseteq AllRows
      BY <1>6
    <2>2. QED BY <1>5, <1>6, <2>1
  <1>8. QED BY <1>3, <1>4, <1>6, <1>7 DEF Orders

LEMMA CompleteRows == SeriesInv /\ BufferInv => RowsComplete
  <1>1. SUFFICES ASSUME SeriesInv, BufferInv PROVE RowsComplete
    OBVIOUS
  <1> DEFINE rows == trace_graph_rows
  <1>2. rows = Ranked(AllRows, Sooner)
    BY DEF trace_graph_rows, Sorted, AllRows, RowOSDs, Sooner
  <1> HIDE DEF rows
  <1>3. /\ rows \in Seq(AllRows) /\ Len(rows) = Cardinality(AllRows) /\ ToSet(rows) = AllRows
        /\ \A i, j \in DOMAIN rows: i < j => rows[i] \in Sooner[rows[j]]
    BY <1>1, <1>2, RankedSeq, SoonerOrders, RowKeys
  <1>4. DOMAIN trace_series \cup SnapshotOsds \subseteq {rows[i].osd: i \in DOMAIN rows}
    <2>1. SUFFICES ASSUME NEW osd \in DOMAIN trace_series \cup SnapshotOsds
                   PROVE  \E i \in DOMAIN rows: rows[i].osd = osd
      OBVIOUS
    <2>2. osd \in RowOSDs /\ RowOf(osd).osd = osd
      BY <1>1, RowKeys
    <2>3. RowOf(osd) \in ToSet(rows)
      BY <1>3, <2>2 DEF AllRows
    <2>4. QED BY <2>2, <2>3 DEF ToSet
  <1>5. ASSUME NEW i \in DOMAIN rows, NEW j \in DOMAIN rows, i < j
        PROVE  rows[i].osd # rows[j].osd /\ rows[i].stats.ops >= rows[j].stats.ops
    <2> DEFINE x == rows[i]
               y == rows[j]
    <2>1. x \in AllRows /\ y \in AllRows /\ x \in Sooner[y]
      BY <1>3, <1>5
    <2> HIDE DEF x, y
    <2>2. Precede(x, y) /\ RankOK(x) /\ RankOK(y) /\ x = RowOf(x.osd) /\ y = RowOf(y.osd)
      BY <1>1, <2>1, RowKeys DEF Sooner
    <2>3. x.stats.ops >= y.stats.ops
      BY <2>2, PrecedeOrders
    <2>4. x # y
      BY <2>2, PrecedeOrders
    <2>5. x.osd # y.osd
      BY <2>2, <2>4
    <2>6. QED BY <2>3, <2>5 DEF x, y
  <1>6. QED BY <1>4, <1>5 DEF RowsComplete, rows

(* The types: no ring is longer than the longest retention.                *)
LEMMA RingTypes == SeriesInv => SeriesTypeOK
  <1>1. SUFFICES ASSUME SeriesInv PROVE SeriesTypeOK
    OBVIOUS
  <1>2. SeriesVarsOK
    BY <1>1 DEF SeriesInv
  <1>3. ASSUME NEW osd \in DOMAIN trace_series
        PROVE  Len(trace_series[osd]) \in 1 .. trace_bucket_count(LongestKept)
    <2>1. PICK all, m: Story(osd, all, m)
      BY <1>1, <1>2 DEF SeriesInv, SeriesVarsOK
    <2>2. /\ all \in Seq(Bucket) /\ m \in 1 .. Len(all) + 1 /\ m <= Len(all)
          /\ Len(all) - m + 1 <= trace_bucket_count(LongestKept)
          /\ trace_series[osd] = SubSeq(all, m, Len(all))
      BY <2>1 DEF Story
    <2>3. Len(trace_series[osd]) = Len(all) - m + 1
      BY <2>2, EndOf
    <2>4. trace_bucket_count(LongestKept) \in Nat
      BY KeptRange, CountIsNat
    <2> DEFINE l == Len(trace_series[osd])
               c == trace_bucket_count(LongestKept)
    <2>5. Len(all) \in Nat
      BY <2>2
    <2> HIDE DEF l, c
    <2>6. l \in 1 .. c
      BY <2>2, <2>3, <2>4, <2>5 DEF l, c
    <2>7. QED BY <2>6 DEF l, c
  <1>4. QED BY <1>2, <1>3 DEF SeriesTypeOK, SeriesVarsOK

-----------------------------------------------------------------------------
(* The theorems about the trace panel.                                     *)

(* In every behavior, each ring is the end of a list of buckets that       *)
(* counts every event since the start or the last clear exactly.           *)
THEOREM SeriesInvariant == SeriesSpec => [](SeriesInv /\ BufferInv)
  <1>1. SeriesInit => SeriesInv /\ BufferInv
    BY InitSeries, InitBuffer
  <1>2. SeriesInv /\ BufferInv /\ [SeriesNext]_seriesVars => (SeriesInv /\ BufferInv)'
    BY NextSeries, NextBuffer
  <1>3. QED BY <1>1, <1>2, PTL DEF SeriesSpec

(* No ring of record_trace_event_at grows beyond the longest retention,    *)
(* whatever the clock does.                                                *)
THEOREM SeriesTypes == SeriesSpec => []SeriesTypeOK
  BY SeriesInvariant, RingTypes, PTL

(* The trace panel shows what came: its window is exact while the clock    *)
(* was not set back, it never shows more, its rows are complete and in     *)
(* order, and the buffer is the end of what came.                          *)
THEOREM SeriesTrue == SeriesSpec => []SeriesIsTrue
  <1>1. SeriesInv /\ BufferInv => SeriesIsTrue
    BY ExactWindow, InventsNothing, CompleteRows, BufferFollows DEF SeriesIsTrue
  <1>2. QED BY <1>1, SeriesInvariant, PTL

-----------------------------------------------------------------------------
(* The flow tree.  osdtrace makes OSD and PG rows only, and a radostrace   *)
(* line adds below them or fills in a host that is missing.                *)

ByOsd == INSTANCE FoldTheorems WITH Step <- osd_recorded
Combining == INSTANCE FoldTheorems WITH Step <- combined_recorded

LinesInv == radostrace_events \in Seq(RadosLines) /\ osdtrace_events \in Seq(OsdLines)

Shallow(tree) == \A p \in DOMAIN tree: \E o, g: p = <<o>> \/ p = <<o, g>>

Holds(alone, tree, p) ==
    /\ p \in DOMAIN tree /\ tree[p].stats = alone[p].stats
    /\ Len(p) = 1 /\ alone[p].detail # Empty => tree[p].detail = alone[p].detail

StaysIn(alone, tree) == \A p \in DOMAIN alone: Holds(alone, tree, p)

LEMMA PutShallow ==
    ASSUME NEW tree, NEW path, NEW detail, NEW stats, Shallow(tree), NEW o, NEW g,
           path = <<o>> \/ path = <<o, g>>
    PROVE  Shallow(Put(tree, path, detail, stats))
  BY DEF Put, Shallow

LEMMA OsdRootsShallow == ASSUME NEW lines \in Seq(OsdLines) PROVE Shallow(osd_roots(lines))
  <1>1. osd_roots(lines) = ByOsd!Folded(NoBranch, lines)
    BY DEF osd_roots, ByOsd!Folded, FoldLeft, MapThenFoldSet, ByOsd!MapThenFoldSet, Max, ByOsd!Greatest
  <1>2. PICK acc: /\ acc[0] = NoBranch
                  /\ \A n \in 1 .. Len(lines): acc[n] = osd_recorded(acc[n - 1], lines[n])
                  /\ acc[Len(lines)] = ByOsd!Folded(NoBranch, lines)
    BY ByOsd!Fold
  <1>3. ASSUME NEW tree, NEW e, Shallow(tree) PROVE Shallow(osd_recorded(tree, e))
    BY <1>3, PutShallow DEF osd_recorded, Record
  <1> DEFINE T == {n \in Nat: n <= Len(lines) => Shallow(acc[n])}
  <1>4. 0 \in T
    BY <1>2 DEF Shallow, NoBranch
  <1>5. ASSUME NEW n \in Nat, n \in T PROVE n + 1 \in T
    <2>1. SUFFICES ASSUME n + 1 <= Len(lines) PROVE Shallow(acc[n + 1])
      OBVIOUS
    <2>2. n + 1 \in 1 .. Len(lines) /\ (n + 1) - 1 = n /\ Shallow(acc[n])
      BY <1>5, <2>1
    <2>3. acc[n + 1] = osd_recorded(acc[n], lines[n + 1])
      BY <1>2, <2>2
    <2>4. QED BY <1>3, <2>2, <2>3
  <1>6. Len(lines) \in T
    <2> HIDE DEF T
    <2> QED BY <1>4, <1>5, Induct
  <1>7. QED BY <1>1, <1>2, <1>6

LEMMA CombinedKeeps ==
    ASSUME NEW alone, NEW tree, NEW e, Shallow(alone), StaysIn(alone, tree)
    PROVE  StaysIn(alone, combined_recorded(tree, e))
  <1> DEFINE first == <<e.primary>>
             second == <<e.primary, e.pg>>
             third == <<e.primary, e.pg, e.object>>
             host == Found(tree, first).detail
             named == IF host = Empty THEN HostOf(e.primary) ELSE host
             osd == Enriched(tree, first, named, e.latency)
             pg == Enriched(osd, second, e.acting, e.latency)
             new == Record(pg, third, Empty, e.latency)
  <1>1. SUFFICES ASSUME e.primary # NoPrimary, NEW p \in DOMAIN alone PROVE Holds(alone, new, p)
    BY DEF combined_recorded, StaysIn
  <1>2. Holds(alone, tree, p)
    BY DEF StaysIn
  <1>3. p # third /\ (Len(p) = 1 => p # second)
    <2>1. PICK o, g: p = <<o>> \/ p = <<o, g>>
      BY DEF Shallow
    <2>2. Len(third) = 3 /\ Len(second) = 2 /\ (Len(p) = 1 \/ Len(p) = 2)
      BY <2>1
    <2> HIDE DEF second, third
    <2>3. QED BY <2>2
  <1> HIDE DEF first, second, third
  <1>4. Holds(alone, osd, p)
    <2>1. CASE first \in DOMAIN tree
      <3>1. osd = Put(tree, first, named, tree[first].stats)
        BY <2>1 DEF Enriched
      <3>2. CASE p = first
        <4>1. host = tree[p].detail
          BY <2>1, <3>2 DEF Found
        <4>2. Len(p) = 1 /\ alone[p].detail # Empty => named = alone[p].detail
          BY <1>2, <4>1 DEF Holds
        <4> HIDE DEF named
        <4>3. p \in DOMAIN osd /\ osd[p].stats = tree[p].stats /\ osd[p].detail = named
          BY <3>1, <3>2 DEF Put
        <4>4. QED BY <1>2, <4>2, <4>3 DEF Holds
      <3>3. CASE p # first
        <4> HIDE DEF named
        <4>1. p \in DOMAIN osd /\ osd[p] = tree[p]
          BY <1>2, <3>1, <3>3 DEF Put, Holds
        <4>2. QED BY <1>2, <4>1 DEF Holds
      <3>4. QED BY <3>2, <3>3
    <2>2. CASE first \notin DOMAIN tree
      <3>1. osd = Put(tree, first, named, record(Found(tree, first).stats, e.latency)) /\ p # first
        BY <1>2, <2>2 DEF Enriched, Record, Holds
      <3> HIDE DEF named, osd
      <3>2. p \in DOMAIN osd /\ osd[p] = tree[p]
        BY <1>2, <3>1 DEF Put, Holds
      <3>3. QED BY <1>2, <3>2 DEF Holds
    <2>3. QED BY <2>1, <2>2
  <1> HIDE DEF osd
  <1>5. Holds(alone, pg, p)
    <2>1. CASE second \in DOMAIN osd
      <3>1. pg = Put(osd, second, e.acting, osd[second].stats)
        BY <2>1 DEF Enriched
      <3> HIDE DEF pg
      <3>2. p \in DOMAIN pg /\ pg[p].stats = osd[p].stats /\ (Len(p) = 1 => pg[p] = osd[p])
        BY <1>3, <1>4, <3>1 DEF Put, Holds
      <3>3. QED BY <1>4, <3>2 DEF Holds
    <2>2. CASE second \notin DOMAIN osd
      <3>1. pg = Put(osd, second, e.acting, record(Found(osd, second).stats, e.latency)) /\ p # second
        BY <1>4, <2>2 DEF Enriched, Record, Holds
      <3> HIDE DEF pg
      <3>2. p \in DOMAIN pg /\ pg[p] = osd[p]
        BY <1>4, <3>1 DEF Put, Holds
      <3>3. QED BY <1>4, <3>2 DEF Holds
    <2>3. QED BY <2>1, <2>2
  <1> HIDE DEF pg
  <1>6. new = Put(pg, third, Empty, record(Found(pg, third).stats, e.latency))
    BY DEF Record
  <1> HIDE DEF new
  <1>7. p \in DOMAIN new /\ new[p] = pg[p]
    BY <1>3, <1>5, <1>6 DEF Put, Holds
  <1>8. QED BY <1>5, <1>7 DEF Holds

LEMMA CombinedStays ==
    ASSUME NEW rados \in Seq(RadosLines), NEW osds \in Seq(OsdLines)
    PROVE  StaysIn(osd_roots(osds), combined_roots(rados, osds))
  <1> DEFINE alone == osd_roots(osds)
  <1>1. combined_roots(rados, osds) = Combining!Folded(alone, rados)
    BY DEF combined_roots, Combining!Folded, FoldLeft, MapThenFoldSet, Combining!MapThenFoldSet, Max, Combining!Greatest
  <1>2. Shallow(alone)
    BY OsdRootsShallow
  <1> HIDE DEF alone
  <1>3. PICK acc: /\ acc[0] = alone
                  /\ \A n \in 1 .. Len(rados): acc[n] = combined_recorded(acc[n - 1], rados[n])
                  /\ acc[Len(rados)] = Combining!Folded(alone, rados)
    BY Combining!Fold
  <1> DEFINE T == {n \in Nat: n <= Len(rados) => StaysIn(alone, acc[n])}
  <1>4. 0 \in T
    BY <1>3 DEF StaysIn, Holds
  <1>5. ASSUME NEW n \in Nat, n \in T PROVE n + 1 \in T
    <2>1. SUFFICES ASSUME n + 1 <= Len(rados) PROVE StaysIn(alone, acc[n + 1])
      OBVIOUS
    <2>2. n + 1 \in 1 .. Len(rados) /\ (n + 1) - 1 = n /\ StaysIn(alone, acc[n])
      BY <1>5, <2>1
    <2>3. acc[n + 1] = combined_recorded(acc[n], rados[n + 1])
      BY <1>3, <2>2
    <2>4. QED BY <1>2, <2>2, <2>3, CombinedKeeps
  <1>6. Len(rados) \in T
    <2> HIDE DEF T
    <2> QED BY <1>4, <1>5, Induct
  <1>7. QED BY <1>1, <1>3, <1>6 DEF alone

LEMMA LinesStay == FlowSpec => []LinesInv
  <1>1. FlowInit => LinesInv
    BY DEF FlowInit, LinesInv
  <1>2. LinesInv /\ [FlowNext]_flowVars => LinesInv'
    <2>1. SUFFICES ASSUME LinesInv, [FlowNext]_flowVars PROVE LinesInv'
      OBVIOUS
    <2>2. CASE rados_line
      BY <2>1, <2>2 DEF rados_line, LinesInv
    <2>3. CASE osd_line
      BY <2>1, <2>3 DEF osd_line, LinesInv
    <2>4. CASE window_moves
      <3>1. \A S: \A s \in Seq(S): s # <<>> => Tail(s) \in Seq(S)
        OBVIOUS
      <3>2. \/ radostrace_events # <<>> /\ radostrace_events' = Tail(radostrace_events) /\ UNCHANGED osdtrace_events
            \/ osdtrace_events # <<>> /\ osdtrace_events' = Tail(osdtrace_events) /\ UNCHANGED radostrace_events
        BY <2>4 DEF window_moves
      <3>3. QED BY <2>1, <3>1, <3>2 DEF LinesInv
    <2>5. CASE captured_cleared
      BY <2>1, <2>5 DEF captured_cleared, LinesInv
    <2>6. CASE toggled
      BY <2>1, <2>6 DEF toggled, LinesInv
    <2>7. CASE UNCHANGED flowVars
      BY <2>1, <2>7 DEF flowVars, LinesInv
    <2>8. QED BY <2>1, <2>2, <2>3, <2>4, <2>5, <2>6, <2>7 DEF FlowNext
  <1>3. QED BY <1>1, <1>2, PTL DEF FlowSpec

(* "osdtrace owns OSD and PG totals so replica rows stay visible": however *)
(* many radostrace lines combined_roots merges, every branch of osdtrace   *)
(* stays, with its stats and the host that its lines named.                *)
THEOREM ReplicaRows == FlowSpec => []ReplicasStay
  <1>1. LinesInv => ReplicasStay
    <2>1. SUFFICES ASSUME LinesInv, osdtrace_events # <<>> PROVE StaysIn(osd_roots(osdtrace_events), Tree)
      BY DEF ReplicasStay, StaysIn, Holds
    <2>2. CASE radostrace_events = <<>>
      BY <2>2 DEF Tree, Roots, StaysIn, Holds
    <2>3. CASE radostrace_events # <<>>
      <3>1. Tree = combined_roots(radostrace_events, osdtrace_events)
        BY <2>1, <2>3 DEF Tree, Roots
      <3>2. QED BY <2>1, <3>1, CombinedStays DEF LinesInv
    <2>4. QED BY <2>2, <2>3
  <1>2. QED BY <1>1, LinesStay, PTL

-----------------------------------------------------------------------------
(* What a line adds to the tree of its source: one operation to each of    *)
(* the branches it marks.                                                  *)

IsStats(s) == s \in [ops: Nat, sum_us: Nat, max_us: Nat]

LEMMA StatsAdd ==
    ASSUME NEW x, NEW y, IsStats(x), IsStats(y), NEW l \in Nat
    PROVE  /\ IsStats(record(x, l)) /\ record(x, l).ops = x.ops + 1
           /\ merge(record(x, l), y) = merge(x, record(y, l))
           /\ merge(x, Zero) = x /\ merge(Zero, y) = y
           /\ IsStats(Zero) /\ Zero.ops = 0
  <1>1. /\ x.ops \in Nat /\ x.sum_us \in Nat /\ x.max_us \in Nat
        /\ y.ops \in Nat /\ y.sum_us \in Nat /\ y.max_us \in Nat
        /\ x = [ops |-> x.ops, sum_us |-> x.sum_us, max_us |-> x.max_us]
        /\ y = [ops |-> y.ops, sum_us |-> y.sum_us, max_us |-> y.max_us]
    BY DEF IsStats
  <1>2. IsStats(record(x, l)) /\ record(x, l).ops = x.ops + 1
    BY <1>1 DEF IsStats, record
  <1>3. merge(record(x, l), y) = merge(x, record(y, l))
    BY <1>1 DEF merge, record
  <1>4. merge(x, Zero) = x
    BY <1>1 DEF merge, Zero
  <1>5. merge(Zero, y) = y
    BY <1>1 DEF merge, Zero
  <1>6. IsStats(Zero) /\ Zero.ops = 0
    BY DEF IsStats, Zero
  <1>7. QED BY <1>2, <1>3, <1>4, <1>5, <1>6

StatsAt(tree, p) == Found(tree, p).stats

Records(new, tree, marks, latency) ==
    /\ DOMAIN new = DOMAIN tree \cup marks
    /\ \A p: StatsAt(new, p) = IF p \in marks THEN record(StatsAt(tree, p), latency) ELSE StatsAt(tree, p)

LEMMA RecordMarks ==
    ASSUME NEW tree, NEW path, NEW detail, NEW latency
    PROVE  Records(Record(tree, path, detail, latency), tree, {path}, latency)
  BY DEF Record, Put, Records, StatsAt, Found

LEMMA RecordsMore ==
    ASSUME NEW tree, NEW mid, NEW new, NEW some, NEW marks, NEW latency, some \cap marks = {},
           Records(mid, tree, some, latency), Records(new, mid, marks, latency)
    PROVE  Records(new, tree, some \cup marks, latency)
  <1>1. DOMAIN new = DOMAIN tree \cup (some \cup marks)
    BY DEF Records
  <1>2. ASSUME NEW p
        PROVE  StatsAt(new, p) = IF p \in some \cup marks THEN record(StatsAt(tree, p), latency) ELSE StatsAt(tree, p)
    <2>1. StatsAt(mid, p) = IF p \in some THEN record(StatsAt(tree, p), latency) ELSE StatsAt(tree, p)
      BY Zenon DEF Records
    <2>2. StatsAt(new, p) = IF p \in marks THEN record(StatsAt(mid, p), latency) ELSE StatsAt(mid, p)
      BY Zenon DEF Records
    <2>3. QED BY <2>1, <2>2
  <1>3. QED BY <1>1, <1>2, Zenon DEF Records

OsdMarks(e) == IF e.osd = Empty \/ e.pg = Empty THEN {} ELSE {<<e.osd>>, <<e.osd, e.pg>>}
RadosMarks(e) ==
    IF e.primary = NoPrimary THEN {}
    ELSE {<<e.primary>>, <<e.primary, e.pg>>, <<e.primary, e.pg, e.object>>}

LEMMA OsdRecords == ASSUME NEW tree, NEW e PROVE Records(osd_recorded(tree, e), tree, OsdMarks(e), e.latency)
  <1> DEFINE one == <<e.osd>>
             two == <<e.osd, e.pg>>
             mid == Record(tree, one, e.host, e.latency)
             new == Record(mid, two, Found(tree, two).detail, e.latency)
  <1>1. CASE e.osd = Empty \/ e.pg = Empty
    BY <1>1 DEF Records, osd_recorded, OsdMarks
  <1>2. CASE ~(e.osd = Empty \/ e.pg = Empty)
    <2>1. one # two
      OBVIOUS
    <2>2. Records(mid, tree, {one}, e.latency) /\ Records(new, mid, {two}, e.latency)
      BY RecordMarks
    <2>3. {one} \cap {two} = {}
      BY <2>1
    <2>4. osd_recorded(tree, e) = new /\ OsdMarks(e) = {one} \cup {two}
      BY <1>2 DEF osd_recorded, OsdMarks
    <2> HIDE DEF one, two, mid, new
    <2>5. Records(new, tree, {one} \cup {two}, e.latency)
      BY <2>2, <2>3, RecordsMore
    <2>6. QED BY <2>4, <2>5
  <1>3. QED BY <1>1, <1>2

LEMMA RadosRecords ==
    ASSUME NEW tree, NEW e PROVE Records(rados_recorded(tree, e), tree, RadosMarks(e), e.latency)
  <1> DEFINE one == <<e.primary>>
             two == <<e.primary, e.pg>>
             three == <<e.primary, e.pg, e.object>>
             osd == Record(tree, one, HostOf(e.primary), e.latency)
             pg == Record(osd, two, e.acting, e.latency)
             new == Record(pg, three, Empty, e.latency)
  <1>1. CASE e.primary = NoPrimary
    BY <1>1 DEF Records, rados_recorded, RadosMarks
  <1>2. CASE e.primary # NoPrimary
    <2>1. one # two /\ one # three /\ two # three
      <3>1. Len(one) = 1 /\ Len(two) = 2 /\ Len(three) = 3
        OBVIOUS
      <3> HIDE DEF one, two, three
      <3>2. QED BY <3>1
    <2>2. /\ Records(osd, tree, {one}, e.latency) /\ Records(pg, osd, {two}, e.latency)
          /\ Records(new, pg, {three}, e.latency)
      BY RecordMarks
    <2>3. {one} \cap {two} = {} /\ ({one} \cup {two}) \cap {three} = {}
      BY <2>1
    <2>4. rados_recorded(tree, e) = new /\ RadosMarks(e) = ({one} \cup {two}) \cup {three}
      BY <1>2 DEF rados_recorded, RadosMarks
    <2> HIDE DEF one, two, three, osd, pg, new
    <2>5. Records(pg, tree, {one} \cup {two}, e.latency)
      BY <2>2, <2>3, RecordsMore
    <2>6. Records(new, tree, ({one} \cup {two}) \cup {three}, e.latency)
      BY <2>2, <2>3, <2>5, RecordsMore
    <2>7. QED BY <2>4, <2>6
  <1>3. QED BY <1>1, <1>2

(* The trees between the lines, as far as the marks and latencies of the   *)
(* lines make them.                                                        *)
Tallies(acc, marks, latency, n) ==
    /\ acc[0] = NoBranch
    /\ \A k \in 1 .. n: Records(acc[k], acc[k - 1], marks[k], latency[k])

ByRados == INSTANCE FoldTheorems WITH Step <- rados_recorded

Latencies(lines) == [k \in DOMAIN lines |-> lines[k].latency]

LEMMA OsdTallies ==
    ASSUME NEW lines \in Seq(OsdLines)
    PROVE  \E acc: /\ Tallies(acc, [k \in DOMAIN lines |-> OsdMarks(lines[k])], Latencies(lines), Len(lines))
                   /\ acc[Len(lines)] = osd_roots(lines)
  <1>1. osd_roots(lines) = ByOsd!Folded(NoBranch, lines)
    BY DEF osd_roots, ByOsd!Folded, FoldLeft, MapThenFoldSet, ByOsd!MapThenFoldSet, Max, ByOsd!Greatest
  <1>2. PICK acc: /\ acc[0] = NoBranch
                  /\ \A n \in 1 .. Len(lines): acc[n] = osd_recorded(acc[n - 1], lines[n])
                  /\ acc[Len(lines)] = ByOsd!Folded(NoBranch, lines)
    BY ByOsd!Fold
  <1> DEFINE marks == [k \in DOMAIN lines |-> OsdMarks(lines[k])]
  <1>3. ASSUME NEW k \in 1 .. Len(lines) PROVE Records(acc[k], acc[k - 1], marks[k], Latencies(lines)[k])
    <2>1. k \in DOMAIN lines
      OBVIOUS
    <2>2. marks[k] = OsdMarks(lines[k]) /\ Latencies(lines)[k] = lines[k].latency
      BY <2>1 DEF Latencies
    <2>3. acc[k] = osd_recorded(acc[k - 1], lines[k])
      BY <1>2
    <2>4. QED BY <2>2, <2>3, OsdRecords
  <1>4. Tallies(acc, marks, Latencies(lines), Len(lines))
    BY <1>2, <1>3 DEF Tallies
  <1>5. QED BY <1>1, <1>2, <1>4

LEMMA RadosTallies ==
    ASSUME NEW lines \in Seq(RadosLines)
    PROVE  \E acc: /\ Tallies(acc, [k \in DOMAIN lines |-> RadosMarks(lines[k])], Latencies(lines), Len(lines))
                   /\ acc[Len(lines)] = rados_roots(lines)
  <1>1. rados_roots(lines) = ByRados!Folded(NoBranch, lines)
    BY DEF rados_roots, ByRados!Folded, FoldLeft, MapThenFoldSet, ByRados!MapThenFoldSet, Max, ByRados!Greatest
  <1>2. PICK acc: /\ acc[0] = NoBranch
                  /\ \A n \in 1 .. Len(lines): acc[n] = rados_recorded(acc[n - 1], lines[n])
                  /\ acc[Len(lines)] = ByRados!Folded(NoBranch, lines)
    BY ByRados!Fold
  <1> DEFINE marks == [k \in DOMAIN lines |-> RadosMarks(lines[k])]
  <1>3. ASSUME NEW k \in 1 .. Len(lines) PROVE Records(acc[k], acc[k - 1], marks[k], Latencies(lines)[k])
    <2>1. k \in DOMAIN lines
      OBVIOUS
    <2>2. marks[k] = RadosMarks(lines[k]) /\ Latencies(lines)[k] = lines[k].latency
      BY <2>1 DEF Latencies
    <2>3. acc[k] = rados_recorded(acc[k - 1], lines[k])
      BY <1>2
    <2>4. QED BY <2>2, <2>3, RadosRecords
  <1>4. Tallies(acc, marks, Latencies(lines), Len(lines))
    BY <1>2, <1>3 DEF Tallies
  <1>5. QED BY <1>1, <1>2, <1>4

(* A branch is there when an operation is counted in it.                   *)
Filled(tree) ==
    \A p: IsStats(StatsAt(tree, p)) /\ (p \in DOMAIN tree <=> StatsAt(tree, p).ops # 0)

LEMMA RecordsFilled ==
    ASSUME NEW tree, NEW new, NEW marks, NEW l \in Nat, Filled(tree), Records(new, tree, marks, l)
    PROVE  Filled(new)
  <1>1. SUFFICES ASSUME NEW p PROVE IsStats(StatsAt(new, p)) /\ (p \in DOMAIN new <=> StatsAt(new, p).ops # 0)
    BY DEF Filled
  <1>2. IsStats(StatsAt(tree, p)) /\ (p \in DOMAIN tree <=> StatsAt(tree, p).ops # 0)
    BY Zenon DEF Filled
  <1>3. StatsAt(new, p) = IF p \in marks THEN record(StatsAt(tree, p), l) ELSE StatsAt(tree, p)
    BY Zenon DEF Records
  <1>4. DOMAIN new = DOMAIN tree \cup marks
    BY Zenon DEF Records
  <1>5. CASE p \in marks
    <2>1. IsStats(record(StatsAt(tree, p), l)) /\ record(StatsAt(tree, p), l).ops = StatsAt(tree, p).ops + 1
      BY <1>2, StatsAdd
    <2>2. StatsAt(tree, p).ops \in Nat
      BY <1>2 DEF IsStats
    <2>3. QED BY <1>3, <1>4, <1>5, <2>1, <2>2
  <1>6. CASE p \notin marks
    BY <1>2, <1>3, <1>4, <1>6
  <1>7. QED BY <1>5, <1>6

LEMMA TalliesFilled ==
    ASSUME NEW n \in Nat, NEW acc, NEW marks, NEW latency, Tallies(acc, marks, latency, n),
           \A k \in 1 .. n: latency[k] \in Nat
    PROVE  \A k \in 0 .. n: Filled(acc[k])
  <1> DEFINE T == {k \in Nat: k <= n => Filled(acc[k])}
  <1>1. 0 \in T
    <2>1. Zero.ops = 0 /\ IsStats(Zero)
      BY DEF Zero, IsStats
    <2>2. acc[0] = NoBranch /\ DOMAIN NoBranch = {}
      BY DEF Tallies, NoBranch
    <2>3. \A p: StatsAt(NoBranch, p) = Zero
      BY <2>2 DEF StatsAt, Found
    <2>4. Filled(acc[0])
      BY <2>1, <2>2, <2>3 DEF Filled
    <2>5. QED BY <2>4
  <1>2. ASSUME NEW k \in Nat, k \in T PROVE k + 1 \in T
    <2>1. SUFFICES ASSUME k + 1 <= n PROVE Filled(acc[k + 1])
      OBVIOUS
    <2>2. k + 1 \in 1 .. n /\ (k + 1) - 1 = k /\ Filled(acc[k])
      BY <1>2, <2>1
    <2>3. Records(acc[k + 1], acc[k], marks[k + 1], latency[k + 1]) /\ latency[k + 1] \in Nat
      BY <2>2 DEF Tallies
    <2>4. QED BY <2>2, <2>3, RecordsFilled
  <1> HIDE DEF T
  <1>3. Nat \subseteq T
    BY <1>1, <1>2, Induct
  <1>4. QED BY <1>3 DEF T

(* The same lines in the other order make the same branches and stats.     *)
Alike(tree, other) == DOMAIN tree = DOMAIN other /\ \A p: StatsAt(tree, p) = StatsAt(other, p)

LEMMA Backwards ==
    ASSUME NEW n \in Nat, NEW a, NEW marks, NEW latency, Tallies(a, marks, latency, n),
           \A k \in 1 .. n: latency[k] \in Nat,
           NEW b, NEW smark, NEW ycnetal, Tallies(b, smark, ycnetal, n),
           \A k \in 1 .. n: smark[k] = marks[n - k + 1] /\ ycnetal[k] = latency[n - k + 1]
    PROVE  Alike(a[n], b[n])
  <1>1. \A k \in 1 .. n: ycnetal[k] \in Nat
    <2>1. \A k \in 1 .. n: n - k + 1 \in 1 .. n
      OBVIOUS
    <2>2. QED BY <2>1
  <1>2. (\A k \in 0 .. n: Filled(a[k])) /\ (\A k \in 0 .. n: Filled(b[k]))
    BY <1>1, TalliesFilled
  <1>6. n \in 0 .. n
    OBVIOUS
  <1>7. Filled(a[n]) /\ Filled(b[n])
    BY <1>2, <1>6
  <1>3. ASSUME NEW p PROVE StatsAt(a[n], p) = StatsAt(b[n], p)
    <2> DEFINE T == {k \in Nat: k <= n => merge(StatsAt(a[n - k], p), StatsAt(b[k], p)) = StatsAt(a[n], p)}
    <2>0. StatsAt(NoBranch, p) = Zero
      BY DEF StatsAt, Found, NoBranch
    <2>1. 0 \in T
      <3>1. a[n - 0] = a[n] /\ StatsAt(b[0], p) = Zero
        BY <2>0 DEF Tallies
      <3>2. IsStats(StatsAt(a[n], p))
        BY <1>7, Zenon DEF Filled
      <3>3. merge(StatsAt(a[n], p), Zero) = StatsAt(a[n], p)
        BY <3>2, StatsAdd, 0 \in Nat
      <3>4. QED BY <3>1, <3>3
    <2>2. ASSUME NEW k \in Nat, k \in T PROVE k + 1 \in T
      <3>1. SUFFICES ASSUME k + 1 <= n
                     PROVE  merge(StatsAt(a[n - (k + 1)], p), StatsAt(b[k + 1], p)) = StatsAt(a[n], p)
        OBVIOUS
      <3> DEFINE i == n - k
      <3>2. /\ k + 1 \in 1 .. n /\ (k + 1) - 1 = k /\ i \in 1 .. n /\ n - (k + 1) = i - 1 /\ n - (k + 1) + 1 = i
            /\ k \in 0 .. n /\ i - 1 \in 0 .. n
        BY <3>1
      <3>3. merge(StatsAt(a[i], p), StatsAt(b[k], p)) = StatsAt(a[n], p)
        BY <2>2, <3>2
      <3>4. Records(a[i], a[i - 1], marks[i], latency[i]) /\ latency[i] \in Nat
        BY <3>2 DEF Tallies
      <3>5. smark[k + 1] = marks[i] /\ ycnetal[k + 1] = latency[i]
        BY <3>2
      <3>6. Records(b[k + 1], b[k], marks[i], latency[i])
        BY <3>2, <3>5 DEF Tallies
      <3> DEFINE x == StatsAt(a[i - 1], p)
                 y == StatsAt(b[k], p)
                 l == latency[i]
      <3>7. IsStats(x) /\ IsStats(y) /\ l \in Nat
        BY <1>2, <3>2, <3>4 DEF Filled
      <3>8. /\ StatsAt(a[i], p) = IF p \in marks[i] THEN record(x, l) ELSE x
            /\ StatsAt(b[k + 1], p) = IF p \in marks[i] THEN record(y, l) ELSE y
        BY <3>4, <3>6, Zenon DEF Records
      <3> HIDE DEF x, y, l
      <3>9. merge(record(x, l), y) = merge(x, record(y, l))
        BY <3>7, StatsAdd
      <3>10. merge(x, StatsAt(b[k + 1], p)) = StatsAt(a[n], p)
        BY <3>3, <3>8, <3>9 DEF y
      <3>11. QED BY <3>2, <3>10 DEF x
    <2> HIDE DEF T
    <2>3. n \in T
      BY <2>1, <2>2, Induct
    <2>4. merge(StatsAt(a[0], p), StatsAt(b[n], p)) = StatsAt(a[n], p)
      BY <2>3 DEF T
    <2>5. a[0] = NoBranch
      BY DEF Tallies
    <2>6. IsStats(StatsAt(b[n], p))
      BY <1>7, Zenon DEF Filled
    <2>7. merge(Zero, StatsAt(b[n], p)) = StatsAt(b[n], p)
      BY <2>6, StatsAdd, 0 \in Nat
    <2>8. QED BY <2>0, <2>4, <2>5, <2>7
  <1>4. \A p: p \in DOMAIN a[n] <=> p \in DOMAIN b[n]
    BY <1>3, <1>7 DEF Filled
  <1>5. QED BY <1>3, <1>4 DEF Alike

-----------------------------------------------------------------------------
(* Every tree is one of paths of labels, closed upwards.                   *)

Labels == ToSet(LabelOrder)
IsPath(p) == \E o, g, b \in Labels: p = <<o>> \/ p = <<o, g>> \/ p = <<o, g, b>>
Rooted(p, tree) == Len(p) > 1 => Front(p) \in DOMAIN tree
Sound(tree) ==
    /\ IsFiniteSet(DOMAIN tree)
    /\ \A p \in DOMAIN tree: IsPath(p) /\ Rooted(p, tree) /\ IsStats(tree[p].stats)

LEMMA FrontOne == ASSUME NEW o PROVE Len(<<o>>) = 1 /\ Front(<<o>>) = <<>> /\ Last(<<o>>) = o
  BY DEF Front, Last

LEMMA FrontTwo == ASSUME NEW o, NEW g PROVE Len(<<o, g>>) = 2 /\ Front(<<o, g>>) = <<o>> /\ Last(<<o, g>>) = g
  <1> DEFINE S == {o, g}
             s == <<o, g>>
             f == SubSeq(s, 1, 1)
  <1>1. s \in Seq(S) /\ Len(s) = 2 /\ s[1] = o /\ s[2] = g
    OBVIOUS
  <1>2. Front(s) = f /\ Last(s) = g
    BY <1>1 DEF Front, Last
  <1> HIDE DEF s, S
  <1>3. f \in Seq(S) /\ Len(f) = 1 /\ f[1] = s[1]
    BY <1>1, PartOf
  <1> HIDE DEF f
  <1>4. f = <<o>>
    BY <1>1, <1>3
  <1>5. QED BY <1>1, <1>2, <1>4 DEF s

LEMMA FrontThree ==
    ASSUME NEW o, NEW g, NEW b
    PROVE  Len(<<o, g, b>>) = 3 /\ Front(<<o, g, b>>) = <<o, g>> /\ Last(<<o, g, b>>) = b
  <1> DEFINE S == {o, g, b}
             s == <<o, g, b>>
             f == SubSeq(s, 1, 2)
  <1>1. s \in Seq(S) /\ Len(s) = 3 /\ s[1] = o /\ s[2] = g /\ s[3] = b
    OBVIOUS
  <1>2. Front(s) = f /\ Last(s) = b
    BY <1>1 DEF Front, Last
  <1> HIDE DEF s, S
  <1>6. f \in Seq(S) /\ Len(f) = 2 - 1 + 1 /\ \A k \in 1 .. (2 - 1 + 1): f[k] = s[1 + k - 1]
    <2>1. 1 \in 1 .. Len(s) + 1 /\ 2 \in (1 - 1) .. Len(s)
      BY <1>1
    <2>2. QED BY <1>1, <2>1, PartOf
  <1>3. f \in Seq(S) /\ Len(f) = 2 /\ f[1] = s[1] /\ f[2] = s[2]
    BY <1>6
  <1> HIDE DEF f
  <1>4. f = <<o, g>>
    BY <1>1, <1>3
  <1>5. QED BY <1>1, <1>2, <1>4 DEF s

LEMMA PutSound ==
    ASSUME NEW tree, NEW path, NEW detail, NEW stats, Sound(tree), IsPath(path), Rooted(path, tree), IsStats(stats)
    PROVE  /\ Sound(Put(tree, path, detail, stats))
           /\ path \in DOMAIN Put(tree, path, detail, stats)
  <1> DEFINE new == Put(tree, path, detail, stats)
  <1>1. DOMAIN new = DOMAIN tree \cup {path}
    BY DEF Put
  <1>2. IsFiniteSet(DOMAIN new)
    BY <1>1, FS_AddElement DEF Sound
  <1>3. ASSUME NEW p \in DOMAIN new PROVE IsPath(p) /\ Rooted(p, new) /\ IsStats(new[p].stats)
    <2>1. CASE p = path
      <3>1. new[p].stats = stats
        BY <2>1 DEF Put
      <3> HIDE DEF new
      <3>2. Rooted(p, new)
        BY <1>1, <2>1 DEF Rooted
      <3>3. QED BY <2>1, <3>1, <3>2
    <2>2. CASE p # path
      <3>1. p \in DOMAIN tree /\ new[p] = tree[p]
        BY <1>1, <2>2 DEF Put
      <3> HIDE DEF new
      <3>2. IsPath(p) /\ Rooted(p, tree) /\ IsStats(tree[p].stats)
        BY <3>1 DEF Sound
      <3>3. QED BY <1>1, <3>1, <3>2 DEF Rooted
    <2>3. QED BY <2>1, <2>2
  <1> HIDE DEF new
  <1>4. QED BY <1>1, <1>2, <1>3 DEF Sound, new

LEMMA RecordSound ==
    ASSUME NEW tree, NEW path, NEW detail, NEW l \in Nat, Sound(tree), IsPath(path), Rooted(path, tree)
    PROVE  /\ Sound(Record(tree, path, detail, l)) /\ path \in DOMAIN Record(tree, path, detail, l)
           /\ Sound(Enriched(tree, path, detail, l)) /\ path \in DOMAIN Enriched(tree, path, detail, l)
  <1>1. IsStats(Found(tree, path).stats)
    BY DEF Found, Sound, Zero, IsStats
  <1>2. IsStats(record(Found(tree, path).stats, l))
    BY <1>1, StatsAdd
  <1>3. Sound(Record(tree, path, detail, l)) /\ path \in DOMAIN Record(tree, path, detail, l)
    BY <1>2, PutSound DEF Record
  <1>4. path \in DOMAIN tree => IsStats(tree[path].stats)
    BY DEF Sound
  <1>5. CASE path \in DOMAIN tree
    <2>1. /\ Sound(Put(tree, path, detail, tree[path].stats))
          /\ path \in DOMAIN Put(tree, path, detail, tree[path].stats)
      BY <1>4, <1>5, PutSound
    <2>2. Enriched(tree, path, detail, l) = Put(tree, path, detail, tree[path].stats)
      BY <1>5 DEF Enriched
    <2>3. QED BY <1>3, <2>1, <2>2
  <1>6. CASE path \notin DOMAIN tree
    BY <1>3, <1>6 DEF Enriched
  <1>7. QED BY <1>5, <1>6

LEMMA OsdSound == ASSUME NEW tree, Sound(tree), NEW e \in OsdLines PROVE Sound(osd_recorded(tree, e))
  <1> DEFINE one == <<e.osd>>
             two == <<e.osd, e.pg>>
             mid == Record(tree, one, e.host, e.latency)
             new == Record(mid, two, Found(tree, two).detail, e.latency)
  <1>1. SUFFICES ASSUME ~(e.osd = Empty \/ e.pg = Empty) PROVE Sound(new)
    BY DEF osd_recorded
  <1>2. e.osd \in Labels /\ e.pg \in Labels /\ e.latency \in Nat
    BY <1>1, FlowAssumption DEF Labels
  <1>3. IsPath(one) /\ IsPath(two)
    BY <1>2 DEF IsPath
  <1>4. Len(one) = 1 /\ Front(two) = one
    BY FrontOne, FrontTwo, FrontThree
  <1> HIDE DEF one, two
  <1>5. Rooted(one, tree)
    <2>1. ~(1 > 1)
      OBVIOUS
    <2>2. QED BY <1>4, <2>1, Zenon DEF Rooted
  <1>6. Sound(mid) /\ one \in DOMAIN mid
    BY <1>2, <1>3, <1>5, RecordSound
  <1>7. Rooted(two, mid)
    BY <1>4, <1>6, Zenon DEF Rooted
  <1> HIDE DEF mid
  <1>8. QED BY <1>2, <1>3, <1>6, <1>7, RecordSound

LEMMA RadosSound == ASSUME NEW tree, Sound(tree), NEW e \in RadosLines PROVE Sound(rados_recorded(tree, e))
  <1> DEFINE one == <<e.primary>>
             two == <<e.primary, e.pg>>
             three == <<e.primary, e.pg, e.object>>
             osd == Record(tree, one, HostOf(e.primary), e.latency)
             pg == Record(osd, two, e.acting, e.latency)
             new == Record(pg, three, Empty, e.latency)
  <1>1. SUFFICES ASSUME e.primary # NoPrimary PROVE Sound(new)
    BY DEF rados_recorded
  <1>2. e.primary \in Labels /\ e.pg \in Labels /\ e.object \in Labels /\ e.latency \in Nat
    BY <1>1, FlowAssumption DEF Labels
  <1>3. IsPath(one) /\ IsPath(two) /\ IsPath(three)
    BY <1>2 DEF IsPath
  <1>4. Len(one) = 1 /\ Front(two) = one /\ Front(three) = two
    BY FrontOne, FrontTwo, FrontThree
  <1> HIDE DEF one, two, three
  <1>5. Sound(osd) /\ one \in DOMAIN osd
    <2>1. Rooted(one, tree)
      BY <1>4 DEF Rooted
    <2>2. QED BY <1>2, <1>3, <2>1, RecordSound
  <1> HIDE DEF osd
  <1>6. Sound(pg) /\ two \in DOMAIN pg
    BY <1>2, <1>3, <1>4, <1>5, RecordSound DEF Rooted
  <1> HIDE DEF pg
  <1>7. QED BY <1>2, <1>3, <1>4, <1>6, RecordSound DEF Rooted

LEMMA CombinedSound == ASSUME NEW tree, Sound(tree), NEW e \in RadosLines PROVE Sound(combined_recorded(tree, e))
  <1> DEFINE one == <<e.primary>>
             two == <<e.primary, e.pg>>
             three == <<e.primary, e.pg, e.object>>
             host == Found(tree, one).detail
             named == IF host = Empty THEN HostOf(e.primary) ELSE host
             osd == Enriched(tree, one, named, e.latency)
             pg == Enriched(osd, two, e.acting, e.latency)
             new == Record(pg, three, Empty, e.latency)
  <1>1. SUFFICES ASSUME e.primary # NoPrimary PROVE Sound(new)
    BY DEF combined_recorded
  <1>2. e.primary \in Labels /\ e.pg \in Labels /\ e.object \in Labels /\ e.latency \in Nat
    BY <1>1, FlowAssumption DEF Labels
  <1>3. IsPath(one) /\ IsPath(two) /\ IsPath(three)
    BY <1>2 DEF IsPath
  <1>4. Len(one) = 1 /\ Front(two) = one /\ Front(three) = two
    BY FrontOne, FrontTwo, FrontThree
  <1> HIDE DEF one, two, three, named
  <1>5. Sound(osd) /\ one \in DOMAIN osd
    <2>1. Rooted(one, tree)
      BY <1>4 DEF Rooted
    <2> HIDE DEF host
    <2>2. QED BY <1>2, <1>3, <2>1, RecordSound
  <1> HIDE DEF osd
  <1>6. Sound(pg) /\ two \in DOMAIN pg
    BY <1>2, <1>3, <1>4, <1>5, RecordSound DEF Rooted
  <1> HIDE DEF pg
  <1>7. QED BY <1>2, <1>3, <1>4, <1>6, RecordSound DEF Rooted

LEMMA PassSound ==
    ASSUME NEW n \in Nat, NEW acc, Sound(acc[0]), \A k \in 1 .. n: Sound(acc[k - 1]) => Sound(acc[k])
    PROVE  Sound(acc[n])
  <1> DEFINE T == {k \in Nat: k <= n => Sound(acc[k])}
  <1>1. 0 \in T
    OBVIOUS
  <1>2. ASSUME NEW k \in Nat, k \in T PROVE k + 1 \in T
    <2>1. SUFFICES ASSUME k + 1 <= n PROVE Sound(acc[k + 1])
      OBVIOUS
    <2>2. k + 1 \in 1 .. n /\ (k + 1) - 1 = k /\ Sound(acc[k])
      BY <1>2, <2>1
    <2>3. QED BY <2>2
  <1> HIDE DEF T
  <1>3. Nat \subseteq T
    BY <1>1, <1>2, Induct
  <1>4. QED BY <1>3 DEF T

LEMMA OsdRootsSound == ASSUME NEW lines \in Seq(OsdLines) PROVE Sound(osd_roots(lines))
  <1>1. osd_roots(lines) = ByOsd!Folded(NoBranch, lines)
    BY DEF osd_roots, ByOsd!Folded, FoldLeft, MapThenFoldSet, ByOsd!MapThenFoldSet, Max, ByOsd!Greatest
  <1>2. PICK acc: /\ acc[0] = NoBranch
                  /\ \A n \in 1 .. Len(lines): acc[n] = osd_recorded(acc[n - 1], lines[n])
                  /\ acc[Len(lines)] = ByOsd!Folded(NoBranch, lines)
    BY ByOsd!Fold
  <1>3. Len(lines) \in Nat /\ \A k \in 1 .. Len(lines): lines[k] \in OsdLines
    OBVIOUS
  <1>4. Sound(acc[0])
    BY <1>2, FS_EmptySet DEF Sound, NoBranch
  <1>5. \A k \in 1 .. Len(lines): Sound(acc[k - 1]) => Sound(acc[k])
    BY <1>2, <1>3, OsdSound
  <1>6. QED BY <1>1, <1>2, <1>3, <1>4, <1>5, PassSound

LEMMA RadosRootsSound == ASSUME NEW lines \in Seq(RadosLines) PROVE Sound(rados_roots(lines))
  <1>1. rados_roots(lines) = ByRados!Folded(NoBranch, lines)
    BY DEF rados_roots, ByRados!Folded, FoldLeft, MapThenFoldSet, ByRados!MapThenFoldSet, Max, ByRados!Greatest
  <1>2. PICK acc: /\ acc[0] = NoBranch
                  /\ \A n \in 1 .. Len(lines): acc[n] = rados_recorded(acc[n - 1], lines[n])
                  /\ acc[Len(lines)] = ByRados!Folded(NoBranch, lines)
    BY ByRados!Fold
  <1>3. Len(lines) \in Nat /\ \A k \in 1 .. Len(lines): lines[k] \in RadosLines
    OBVIOUS
  <1>4. Sound(acc[0])
    BY <1>2, FS_EmptySet DEF Sound, NoBranch
  <1>5. \A k \in 1 .. Len(lines): Sound(acc[k - 1]) => Sound(acc[k])
    BY <1>2, <1>3, RadosSound
  <1>6. QED BY <1>1, <1>2, <1>3, <1>4, <1>5, PassSound

LEMMA CombinedRootsSound ==
    ASSUME NEW rados \in Seq(RadosLines), NEW osds \in Seq(OsdLines)
    PROVE  Sound(combined_roots(rados, osds))
  <1> DEFINE alone == osd_roots(osds)
  <1>1. combined_roots(rados, osds) = Combining!Folded(alone, rados)
    BY DEF combined_roots, Combining!Folded, FoldLeft, MapThenFoldSet, Combining!MapThenFoldSet, Max, Combining!Greatest
  <1>2. Sound(alone)
    BY OsdRootsSound
  <1> HIDE DEF alone
  <1>3. PICK acc: /\ acc[0] = alone
                  /\ \A n \in 1 .. Len(rados): acc[n] = combined_recorded(acc[n - 1], rados[n])
                  /\ acc[Len(rados)] = Combining!Folded(alone, rados)
    BY Combining!Fold
  <1>4. Len(rados) \in Nat /\ \A k \in 1 .. Len(rados): rados[k] \in RadosLines
    OBVIOUS
  <1>5. \A k \in 1 .. Len(rados): Sound(acc[k - 1]) => Sound(acc[k])
    BY <1>3, <1>4, CombinedSound
  <1>6. QED BY <1>1, <1>2, <1>3, <1>4, <1>5, PassSound

LEMMA RootsSound ==
    ASSUME NEW rados \in Seq(RadosLines), NEW osds \in Seq(OsdLines)
    PROVE  Sound(Roots(rados, osds))
  BY OsdRootsSound, RadosRootsSound, CombinedRootsSound DEF Roots

-----------------------------------------------------------------------------
(* The children of a branch are ranked without ties, and the first of them *)
(* are shown.                                                              *)

LEMMA ChildOf ==
    ASSUME NEW tree, Sound(tree), NEW path, NEW p \in Children(tree, path)
    PROVE  /\ p \in DOMAIN tree /\ Len(p) = Len(path) + 1 /\ Last(p) \in Labels /\ Front(p) = path
           /\ Len(p) \in 1 .. 3 /\ Len(path) \in 0 .. 2
           /\ path = <<>> => p = <<Last(p)>>
           /\ path # <<>> => path \in DOMAIN tree
           /\ path = <<>> \/ (\E a: path = <<a>>) \/ (\E a, b: path = <<a, b>>)
           /\ \A a: path = <<a>> => p = <<a, Last(p)>>
           /\ \A a, b: path = <<a, b>> => p = <<a, b, Last(p)>>
  <1>1. p \in DOMAIN tree /\ Front(p) = path /\ IsPath(p) /\ Rooted(p, tree)
    BY DEF Children, Sound
  <1>2. PICK o \in Labels, g \in Labels, b \in Labels: p = <<o>> \/ p = <<o, g>> \/ p = <<o, g, b>>
    BY <1>1 DEF IsPath
  <1>3. CASE p = <<o>>
    <2>1. Len(p) = 1 /\ path = <<>> /\ Last(p) = o
      BY <1>1, <1>3, FrontOne
    <2>2. Len(path) = 0
      BY <2>1
    <2>3. QED BY <1>1, <1>3, <2>1, <2>2
  <1>4. CASE p = <<o, g>>
    <2>1. Len(p) = 2 /\ path = <<o>> /\ Last(p) = g
      BY <1>1, <1>4, FrontTwo
    <2>2. Len(path) = 1 /\ path # <<>> /\ (\A a, c: path # <<a, c>>) /\ (\A a: path = <<a>> => a = o)
      BY <2>1
    <2>3. path \in DOMAIN tree
      BY <1>1, <2>1 DEF Rooted
    <2>4. QED BY <1>1, <1>4, <2>1, <2>2, <2>3
  <1>5. CASE p = <<o, g, b>>
    <2>1. Len(p) = 3 /\ path = <<o, g>> /\ Last(p) = b
      BY <1>1, <1>5, FrontThree
    <2>2. Len(path) = 2 /\ path # <<>> /\ (\A a: path # <<a>>) /\ (\A a, c: path = <<a, c>> => a = o /\ c = g)
      BY <2>1
    <2>3. path \in DOMAIN tree
      BY <1>1, <2>1 DEF Rooted
    <2>4. QED BY <1>1, <1>5, <2>1, <2>2, <2>3
  <1>6. QED BY <1>2, <1>3, <1>4, <1>5

LEMMA ChildrenApart ==
    ASSUME NEW tree, Sound(tree), NEW path, NEW p \in Children(tree, path), NEW q \in Children(tree, path),
           Last(p) = Last(q)
    PROVE  p = q
  <1>1. path = <<>> \/ (\E a: path = <<a>>) \/ (\E a, b: path = <<a, b>>)
    BY ChildOf
  <1>2. CASE path = <<>>
    <2>1. p = <<Last(p)>> /\ q = <<Last(q)>>
      BY <1>2, ChildOf
    <2>2. QED BY <2>1
  <1>3. ASSUME NEW a, path = <<a>> PROVE p = q
    <2>1. p = <<a, Last(p)>> /\ q = <<a, Last(q)>>
      BY <1>3, ChildOf
    <2>2. QED BY <2>1
  <1>4. ASSUME NEW a, NEW b, path = <<a, b>> PROVE p = q
    <2>1. p = <<a, b, Last(p)>> /\ q = <<a, b, Last(q)>>
      BY <1>4, ChildOf
    <2>2. QED BY <2>1
  <1>5. QED BY <1>1, <1>2, <1>3, <1>4

Fewer(n, m) == IF n < m THEN n ELSE m
Once(s) == \A i, j \in DOMAIN s: s[i] = s[j] => i = j

LEMMA LabelPlaces ==
    /\ \A x \in Labels: Position(x) \in Int
    /\ \A x, y \in Labels: Position(x) = Position(y) => x = y
  <1>1. LabelOrder \in Seq(Labels)
    BY FlowAssumption DEF Labels
  <1>2. ASSUME NEW x \in Labels PROVE Position(x) \in Nat /\ LabelOrder[Position(x)] = x
    BY <1>1, PlaceFound DEF Position, SelectInSeq, Labels
  <1>3. QED BY <1>2

LEMMA RankedChildren ==
    ASSUME NEW tree, Sound(tree), NEW path, NEW metric, NEW sort \in {"descending", "ascending"}, NEW limit \in Nat
    PROVE  LET r == ranked(tree, path, metric, sort, limit)
               C == Children(tree, path)
           IN /\ IsFiniteSet(C) /\ r \in Seq(C) /\ Len(r) = Fewer(limit, Cardinality(C)) /\ Once(r)
              /\ Cardinality(C) <= limit => ToSet(r) = C
  <1> DEFINE C == Children(tree, path)
             a == [x \in C |-> IF sort = "descending" THEN 0 - key(tree[x].stats, metric) ELSE key(tree[x].stats, metric)]
             b == [x \in C |-> Position(Last(x))]
             c == [x \in C |-> 0]
             below == [x \in C |-> {y \in C: Precedes(tree, y, x, metric, sort)}]
             s == Ranked(C, below)
             k == Fewer(limit, Len(s))
             f == SubSeq(s, 1, k)
  <1>1. IsFiniteSet(C)
    <2>1. C \in SUBSET DOMAIN tree
      BY DEF Children
    <2>2. QED BY <2>1, FS_Subset DEF Sound
  <1>2. \A x \in C: key(tree[x].stats, metric) \in Nat
    <2>1. \A x \in C: IsStats(tree[x].stats)
      BY DEF Children, Sound
    <2>2. QED BY <2>1 DEF IsStats, key
  <1>3. \A x \in C: Last(x) \in Labels
    BY ChildOf
  <1>4. a \in [C -> Int] /\ b \in [C -> Int] /\ c \in [C -> Int]
    BY <1>2, <1>3, LabelPlaces
  <1>5. \A x, y \in C: a[x] = a[y] /\ b[x] = b[y] /\ c[x] = c[y] => x = y
    <2>1. ASSUME NEW x \in C, NEW y \in C, b[x] = b[y] PROVE x = y
      <3>1. Position(Last(x)) = Position(Last(y)) /\ Last(x) \in Labels /\ Last(y) \in Labels
        BY <1>3, <2>1
      <3>2. Last(x) = Last(y)
        BY <3>1, LabelPlaces
      <3>3. QED BY <3>2, ChildrenApart
    <2>2. QED BY <2>1
  <1>6. ASSUME NEW x \in C, NEW y \in C PROVE Precedes(tree, y, x, metric, sort) <=> KeysLess(a, b, c, y, x)
    <2> DEFINE m == key(tree[x].stats, metric)
               n == key(tree[y].stats, metric)
    <2>1. m \in Nat /\ n \in Nat
      BY <1>2
    <2>2. Precedes(tree, y, x, metric, sort)
             <=> \/ sort = "descending" /\ n > m
                 \/ sort = "ascending" /\ n < m
                 \/ n = m /\ Position(Last(y)) < Position(Last(x))
      BY DEF Precedes
    <2>3. /\ a[x] = IF sort = "descending" THEN 0 - m ELSE m
          /\ a[y] = IF sort = "descending" THEN 0 - n ELSE n
          /\ b[x] = Position(Last(x)) /\ b[y] = Position(Last(y)) /\ c[x] = 0 /\ c[y] = 0
      OBVIOUS
    <2> HIDE DEF a, b, c, m, n
    <2>4. CASE sort = "descending"
      BY <2>1, <2>2, <2>3, <2>4 DEF KeysLess
    <2>5. CASE sort = "ascending"
      BY <2>1, <2>2, <2>3, <2>5 DEF KeysLess
    <2>6. QED BY <2>4, <2>5
  <1>7. below = [x \in C |-> {y \in C: KeysLess(a, b, c, y, x)}]
    <2> HIDE DEF a, b, c, C
    <2> QED BY <1>6
  <1>8. ranked(tree, path, metric, sort, limit) = f
    BY DEF ranked, Sorted, Fewer
  <1>9. Orders(below, C)
    <2> HIDE DEF a, b, c, C, below
    <2> QED BY <1>4, <1>5, <1>7, KeysOrder
  <1> HIDE DEF a, b, c, C, below
  <1>10. /\ s \in Seq(C) /\ Len(s) = Cardinality(C) /\ ToSet(s) = C
         /\ \A i, j \in DOMAIN s: i < j => s[i] \in below[s[j]]
    BY <1>1, <1>9, RankedSeq
  <1>11. Cardinality(C) \in Nat
    BY <1>1, FS_CardinalityType
  <1> HIDE DEF s
  <1>12. k \in 0 .. Len(s) /\ k \in Nat /\ Len(s) \in Nat
    BY <1>10, <1>11 DEF Fewer
  <1>13. f \in Seq(C) /\ Len(f) = k - 1 + 1 /\ \A i \in 1 .. (k - 1 + 1): f[i] = s[1 + i - 1]
    <2>1. 1 \in 1 .. Len(s) + 1 /\ k \in (1 - 1) .. Len(s)
      BY <1>12
    <2> HIDE DEF k
    <2>2. QED BY <1>10, <2>1, PartOf
  <1>14. Once(f)
    <2>1. SUFFICES ASSUME NEW i \in DOMAIN f, NEW j \in DOMAIN f, f[i] = f[j], i # j PROVE FALSE
      BY DEF Once
    <2>2. DOMAIN f = 1 .. k
      <3> HIDE DEF f
      <3> QED BY <1>12, <1>13
    <2>3. i \in 1 .. Len(s) /\ j \in 1 .. Len(s) /\ i \in 1 .. k /\ j \in 1 .. k
      BY <1>12, <2>2
    <2>4. f[i] = s[i] /\ f[j] = s[j]
      <3> HIDE DEF f, k
      <3> QED BY <1>12, <1>13, <2>3
    <2>5. DOMAIN s = 1 .. Len(s)
      BY <1>10
    <2>6. s[i] \in C /\ s[j] \in C
      BY <1>10, <2>3
    <2>7. \A x \in C: x \notin below[x]
      BY <1>9 DEF Orders
    <2>8. s[i] = s[j]
      BY <2>1, <2>4
    <2>9. i < j \/ j < i
      BY <2>1, <2>3
    <2>10. QED BY <1>10, <2>3, <2>5, <2>6, <2>7, <2>8, <2>9
  <1>15. Cardinality(C) <= limit => ToSet(f) = C
    <2>1. SUFFICES ASSUME Cardinality(C) <= limit PROVE ToSet(f) = C
      OBVIOUS
    <2>2. k = Len(s)
      BY <1>10, <1>11, <2>1 DEF Fewer
    <2>3. f = s
      BY <1>10, <2>2
    <2>4. QED BY <1>10, <2>3
  <1>16. Len(f) = Fewer(limit, Cardinality(C))
    <2> HIDE DEF f
    <2> QED BY <1>10, <1>12, <1>13
  <1>17. QED BY <1>1, <1>8, <1>13, <1>14, <1>15, <1>16 DEF C

-----------------------------------------------------------------------------
(* The rows are the branches on a walk through what ranking lets through.  *)

RowsOf(tree) == [p \in DOMAIN tree |-> RowAt(tree, p)]

Below(tree, metric, sort, below) ==
    [p \in DOMAIN tree |-> Walk(ranked(tree, p, metric, sort, MAX_CHILDREN), below)]
NoneBelow(tree) == [p \in DOMAIN tree |-> <<>>]
ObjectsBelow(tree, metric, sort) == Below(tree, metric, sort, NoneBelow(tree))
PgsBelow(tree, metric, sort) == Below(tree, metric, sort, ObjectsBelow(tree, metric, sort))
WalkOf(tree, metric, sort) == Walk(ranked(tree, <<>>, metric, sort, MAX_OSDS), PgsBelow(tree, metric, sort))

LEMMA RankedSeqs ==
    ASSUME NEW tree, Sound(tree), NEW metric, NEW sort \in {"descending", "ascending"}, NEW path
    PROVE  /\ ranked(tree, path, metric, sort, MAX_CHILDREN) \in Seq(DOMAIN tree)
           /\ ranked(tree, path, metric, sort, MAX_OSDS) \in Seq(DOMAIN tree)
  <1> DEFINE C == Children(tree, path)
             r == ranked(tree, path, metric, sort, MAX_CHILDREN)
             s == ranked(tree, path, metric, sort, MAX_OSDS)
  <1>1. MAX_CHILDREN \in Nat /\ MAX_OSDS \in Nat
    BY FlowAssumption
  <1>2. r \in Seq(C) /\ s \in Seq(C)
    BY <1>1, RankedChildren
  <1>3. C \subseteq DOMAIN tree
    BY DEF Children
  <1> HIDE DEF C, r, s
  <1>4. r \in Seq(DOMAIN tree) /\ s \in Seq(DOMAIN tree)
    BY <1>2, <1>3
  <1>5. QED BY <1>4 DEF r, s

(* One level of rows.                                                      *)
LEMMA LevelWalk ==
    ASSUME NEW tree, NEW paths \in Seq(DOMAIN tree), NEW below \in [DOMAIN tree -> Seq(DOMAIN tree)],
           NEW rows, rows = [i \in DOMAIN paths |-> <<RowAt(tree, paths[i])>> \o MapBy(RowsOf(tree), below[paths[i]])]
    PROVE  Walk(paths, below) \in Seq(DOMAIN tree) /\ FlattenSeq(rows) = MapBy(RowsOf(tree), Walk(paths, below))
  <1> DEFINE row == RowsOf(tree)
  <1>1. \A i \in DOMAIN paths: row[paths[i]] = RowAt(tree, paths[i])
    BY DEF RowsOf
  <1>2. rows = RowBlocks(row, paths, below)
    BY <1>1 DEF RowBlocks
  <1> DEFINE D == DOMAIN tree
  <1>3. paths \in Seq(D) /\ below \in [D -> Seq(D)]
    OBVIOUS
  <1> HIDE DEF row, D
  <1>4. /\ Walk(paths, below) \in Seq(D)
        /\ FlattenSeq(RowBlocks(row, paths, below)) = MapBy(row, Walk(paths, below))
    <2>1. Walk(paths, below) \in Seq(D) /\ RowsWalked(row, paths, below)
      BY <1>3, RowsWalk
    <2>2. QED BY <2>1 DEF RowsWalked
  <1>5. QED BY <1>2, <1>4 DEF row, D

LEMMA FlattenWalk ==
    ASSUME NEW tree, Sound(tree), NEW metric, NEW sort \in {"descending", "ascending"}
    PROVE  /\ flatten(tree, metric, sort) = MapBy(RowsOf(tree), WalkOf(tree, metric, sort))
           /\ WalkOf(tree, metric, sort) \in Seq(DOMAIN tree)
           /\ ObjectsBelow(tree, metric, sort) \in [DOMAIN tree -> Seq(DOMAIN tree)]
           /\ PgsBelow(tree, metric, sort) \in [DOMAIN tree -> Seq(DOMAIN tree)]
  <1> DEFINE D == DOMAIN tree
             Few(p) == ranked(tree, p, metric, sort, MAX_CHILDREN)
             top == ranked(tree, <<>>, metric, sort, MAX_OSDS)
             ObjectList(p) == [i \in DOMAIN Few(p) |-> <<RowAt(tree, Few(p)[i])>> \o <<>>]
             PgList(p) == [i \in DOMAIN Few(p) |-> <<RowAt(tree, Few(p)[i])>> \o FlattenSeq(ObjectList(Few(p)[i]))]
             osdList == [i \in DOMAIN top |-> <<RowAt(tree, top[i])>> \o FlattenSeq(PgList(top[i]))]
             none == NoneBelow(tree)
             objects == ObjectsBelow(tree, metric, sort)
             pgs == PgsBelow(tree, metric, sort)
             row == RowsOf(tree)
  <1>1. flatten(tree, metric, sort) = FlattenSeq(osdList)
    BY DEF flatten, Rows_of
  <1>2. top \in Seq(D) /\ \A p: Few(p) \in Seq(D)
    BY RankedSeqs
  <1>3. none \in [D -> Seq(D)] /\ \A p \in D: none[p] = <<>>
    BY DEF NoneBelow
  <1>4. \A p \in D: objects[p] = Walk(Few(p), none) /\ pgs[p] = Walk(Few(p), objects)
    BY DEF ObjectsBelow, PgsBelow, Below
  <1>5. /\ objects = [p \in D |-> Walk(Few(p), none)] /\ pgs = [p \in D |-> Walk(Few(p), objects)]
    BY DEF ObjectsBelow, PgsBelow, Below
  <1>6. WalkOf(tree, metric, sort) = Walk(top, pgs)
    BY DEF WalkOf
  <1> HIDE DEF none, objects, pgs, Few, top
  <1>7. ASSUME NEW p \in D PROVE Walk(Few(p), none) \in Seq(D) /\ FlattenSeq(ObjectList(p)) = MapBy(row, Walk(Few(p), none))
    <2>1. ASSUME NEW i \in DOMAIN Few(p) PROVE MapBy(row, none[Few(p)[i]]) = <<>>
      <3>1. Few(p)[i] \in D
        BY <1>2
      <3>2. none[Few(p)[i]] = <<>>
        BY <1>3, <3>1
      <3>3. QED BY <3>2 DEF MapBy
    <2>2. ObjectList(p) = [i \in DOMAIN Few(p) |-> <<RowAt(tree, Few(p)[i])>> \o MapBy(row, none[Few(p)[i]])]
      BY <2>1
    <2> DEFINE few == Few(p)
               list == ObjectList(p)
    <2>3. few \in Seq(D)
      BY <1>2
    <2>4. list = [i \in DOMAIN few |-> <<RowAt(tree, few[i])>> \o MapBy(row, none[few[i]])]
      BY <2>2
    <2> HIDE DEF few, list
    <2>5. Walk(few, none) \in Seq(D) /\ FlattenSeq(list) = MapBy(row, Walk(few, none))
      BY <1>3, <2>3, <2>4, LevelWalk
    <2>6. QED BY <2>5 DEF few, list
  <1>8. objects \in [D -> Seq(D)]
    BY <1>5, <1>7
  <1>9. ASSUME NEW p \in D PROVE Walk(Few(p), objects) \in Seq(D) /\ FlattenSeq(PgList(p)) = MapBy(row, Walk(Few(p), objects))
    <2>1. ASSUME NEW i \in DOMAIN Few(p) PROVE FlattenSeq(ObjectList(Few(p)[i])) = MapBy(row, objects[Few(p)[i]])
      <3>1. Few(p)[i] \in D
        BY <1>2
      <3> HIDE DEF ObjectList
      <3>2. QED BY <1>4, <1>7, <3>1
    <2> HIDE DEF ObjectList
    <2>2. PgList(p) = [i \in DOMAIN Few(p) |-> <<RowAt(tree, Few(p)[i])>> \o MapBy(row, objects[Few(p)[i]])]
      BY <2>1
    <2> DEFINE few == Few(p)
               list == PgList(p)
    <2>3. few \in Seq(D)
      BY <1>2
    <2>4. list = [i \in DOMAIN few |-> <<RowAt(tree, few[i])>> \o MapBy(row, objects[few[i]])]
      BY <2>2
    <2> HIDE DEF few, list
    <2>5. Walk(few, objects) \in Seq(D) /\ FlattenSeq(list) = MapBy(row, Walk(few, objects))
      BY <1>8, <2>3, <2>4, LevelWalk
    <2>6. QED BY <2>5 DEF few, list
  <1>10. pgs \in [D -> Seq(D)]
    <2> HIDE DEF PgList
    <2> QED BY <1>5, <1>9
  <1>11. Walk(top, pgs) \in Seq(D) /\ FlattenSeq(osdList) = MapBy(row, Walk(top, pgs))
    <2>1. ASSUME NEW i \in DOMAIN top PROVE FlattenSeq(PgList(top[i])) = MapBy(row, pgs[top[i]])
      <3>1. top[i] \in D
        BY <1>2
      <3> HIDE DEF PgList
      <3>2. QED BY <1>4, <1>9, <3>1
    <2> HIDE DEF PgList
    <2>2. osdList = [i \in DOMAIN top |-> <<RowAt(tree, top[i])>> \o MapBy(row, pgs[top[i]])]
      BY <2>1
    <2> HIDE DEF osdList
    <2>3. QED BY <1>2, <1>10, <2>2, LevelWalk
  <1> HIDE DEF osdList
  <1>12. QED BY <1>1, <1>6, <1>8, <1>10, <1>11 DEF objects, pgs

-----------------------------------------------------------------------------
(* Of trees with the same branches and stats the rows are the same.        *)

LEMMA AlikeRanked ==
    ASSUME NEW tree, NEW other, Alike(tree, other), NEW metric, NEW sort, NEW path, NEW limit
    PROVE  ranked(tree, path, metric, sort, limit) = ranked(other, path, metric, sort, limit)
  <1> DEFINE C == Children(tree, path)
             below == [x \in C |-> {y \in C: Precedes(tree, y, x, metric, sort)}]
             same == [x \in C |-> {y \in C: Precedes(other, y, x, metric, sort)}]
  <1>1. Children(other, path) = C
    BY DEF Alike, Children
  <1>2. \A x \in C: tree[x].stats = other[x].stats
    <2>1. \A x \in C: x \in DOMAIN tree /\ x \in DOMAIN other /\ StatsAt(tree, x) = StatsAt(other, x)
      BY DEF Alike, Children
    <2>2. QED BY <2>1 DEF StatsAt, Found
  <1>3. \A x, y \in C: Precedes(tree, y, x, metric, sort) <=> Precedes(other, y, x, metric, sort)
    BY <1>2 DEF Precedes
  <1>4. below = same
    <2> HIDE DEF C
    <2> QED BY <1>3
  <1>5. ranked(tree, path, metric, sort, limit)
           = LET entries == Ranked(C, below) IN SubSeq(entries, 1, IF limit < Len(entries) THEN limit ELSE Len(entries))
    BY DEF ranked, Sorted
  <1>6. ranked(other, path, metric, sort, limit)
           = LET entries == Ranked(C, same) IN SubSeq(entries, 1, IF limit < Len(entries) THEN limit ELSE Len(entries))
    BY <1>1 DEF ranked, Sorted
  <1> HIDE DEF below, same, C
  <1>7. QED BY <1>4, <1>5, <1>6

LEMMA AlikeWalks ==
    ASSUME NEW tree, NEW other, Alike(tree, other), NEW metric, NEW sort
    PROVE  WalkOf(tree, metric, sort) = WalkOf(other, metric, sort)
  <1>1. DOMAIN tree = DOMAIN other
    BY DEF Alike
  <1>2. NoneBelow(tree) = NoneBelow(other)
    BY <1>1 DEF NoneBelow
  <1>3. \A below: Below(tree, metric, sort, below) = Below(other, metric, sort, below)
    <2>1. \A p: ranked(tree, p, metric, sort, MAX_CHILDREN) = ranked(other, p, metric, sort, MAX_CHILDREN)
      BY AlikeRanked
    <2>2. QED BY <1>1, <2>1 DEF Below
  <1>4. ObjectsBelow(tree, metric, sort) = ObjectsBelow(other, metric, sort)
    BY <1>2, <1>3 DEF ObjectsBelow
  <1>5. PgsBelow(tree, metric, sort) = PgsBelow(other, metric, sort)
    BY <1>3, <1>4 DEF PgsBelow
  <1>6. ranked(tree, <<>>, metric, sort, MAX_OSDS) = ranked(other, <<>>, metric, sort, MAX_OSDS)
    BY AlikeRanked
  <1>7. QED BY <1>5, <1>6 DEF WalkOf

RanksOf(rows) == [i \in DOMAIN rows |-> [label |-> rows[i].label, stats |-> rows[i].stats]]

LEMMA AlikeRows ==
    ASSUME NEW tree, NEW other, Sound(tree), Sound(other), Alike(tree, other),
           NEW metric, NEW sort \in {"descending", "ascending"}
    PROVE  RanksOf(flatten(tree, metric, sort)) = RanksOf(flatten(other, metric, sort))
  <1> DEFINE W == WalkOf(tree, metric, sort)
             r == flatten(tree, metric, sort)
             s == flatten(other, metric, sort)
  <1>1. W \in Seq(DOMAIN tree) /\ r = MapBy(RowsOf(tree), W)
    BY FlattenWalk
  <1>2. s = MapBy(RowsOf(other), W)
    BY FlattenWalk, AlikeWalks
  <1> HIDE DEF W, r, s
  <1>3. DOMAIN r = DOMAIN W /\ DOMAIN s = DOMAIN W
    BY <1>1, <1>2 DEF MapBy
  <1>4. ASSUME NEW i \in DOMAIN W PROVE r[i].label = s[i].label /\ r[i].stats = s[i].stats
    <2>1. W[i] \in DOMAIN tree /\ W[i] \in DOMAIN other
      BY <1>1 DEF Alike
    <2>2. r[i] = RowAt(tree, W[i]) /\ s[i] = RowAt(other, W[i])
      BY <1>1, <1>2, <2>1 DEF MapBy, RowsOf
    <2>3. StatsAt(tree, W[i]) = StatsAt(other, W[i])
      BY Zenon DEF Alike
    <2>4. tree[W[i]].stats = other[W[i]].stats
      BY <2>1, <2>3 DEF StatsAt, Found
    <2>5. QED BY <2>2, <2>4 DEF RowAt
  <1>5. QED BY <1>3, <1>4 DEF RanksOf, r, s

LEMMA ReverseOf ==
    ASSUME NEW S, NEW s \in Seq(S)
    PROVE  /\ Reverse(s) \in Seq(S) /\ Len(Reverse(s)) = Len(s)
           /\ \A k \in 1 .. Len(s): Reverse(s)[k] = s[Len(s) - k + 1]
  <1>1. Len(s) \in Nat /\ \A k \in 1 .. Len(s): Len(s) - k + 1 \in 1 .. Len(s) /\ s[Len(s) - k + 1] \in S
    OBVIOUS
  <1>2. \A k \in 1 .. Len(s): Reverse(s)[k] = s[Len(s) - k + 1]
    BY <1>1 DEF Reverse
  <1>3. Reverse(s) \in Seq(S) /\ Len(Reverse(s)) = Len(s)
    BY <1>1 DEF Reverse
  <1>4. QED BY <1>2, <1>3

LEMMA OsdBackwards ==
    ASSUME NEW lines \in Seq(OsdLines)
    PROVE  Alike(osd_roots(lines), osd_roots(Reverse(lines)))
  <1> DEFINE n == Len(lines)
             back == Reverse(lines)
             marks == [k \in DOMAIN lines |-> OsdMarks(lines[k])]
             smark == [k \in DOMAIN back |-> OsdMarks(back[k])]
             latency == Latencies(lines)
             ycnetal == Latencies(back)
  <1>1. n \in Nat /\ DOMAIN lines = 1 .. n /\ \A k \in 1 .. n: lines[k] \in OsdLines
    OBVIOUS
  <1>2. back \in Seq(OsdLines) /\ Len(back) = n /\ \A k \in 1 .. n: back[k] = lines[n - k + 1]
    BY ReverseOf
  <1>3. PICK a: Tallies(a, marks, latency, n) /\ a[n] = osd_roots(lines)
    BY OsdTallies
  <1> HIDE DEF back
  <1>4. PICK b: Tallies(b, smark, ycnetal, n) /\ b[n] = osd_roots(back)
    BY <1>2, OsdTallies
  <1>5. DOMAIN back = 1 .. n
    BY <1>1, <1>2
  <1>6. \A k \in 1 .. n: latency[k] \in Nat
    BY <1>1, FlowAssumption DEF Latencies
  <1>7. ASSUME NEW k \in 1 .. n PROVE smark[k] = marks[n - k + 1] /\ ycnetal[k] = latency[n - k + 1]
    <2>1. n - k + 1 \in 1 .. n
      BY <1>1
    <2>2. back[k] = lines[n - k + 1]
      BY <1>2
    <2>3. QED BY <1>1, <1>5, <2>1, <2>2 DEF Latencies
  <1> HIDE DEF n, marks, smark, latency, ycnetal
  <1>8. Alike(a[n], b[n])
    BY <1>1, <1>3, <1>4, <1>6, <1>7, Backwards
  <1>9. QED BY <1>3, <1>4, <1>8 DEF back

LEMMA RadosBackwards ==
    ASSUME NEW lines \in Seq(RadosLines)
    PROVE  Alike(rados_roots(lines), rados_roots(Reverse(lines)))
  <1> DEFINE n == Len(lines)
             back == Reverse(lines)
             marks == [k \in DOMAIN lines |-> RadosMarks(lines[k])]
             smark == [k \in DOMAIN back |-> RadosMarks(back[k])]
             latency == Latencies(lines)
             ycnetal == Latencies(back)
  <1>1. n \in Nat /\ DOMAIN lines = 1 .. n /\ \A k \in 1 .. n: lines[k] \in RadosLines
    OBVIOUS
  <1>2. back \in Seq(RadosLines) /\ Len(back) = n /\ \A k \in 1 .. n: back[k] = lines[n - k + 1]
    BY ReverseOf
  <1>3. PICK a: Tallies(a, marks, latency, n) /\ a[n] = rados_roots(lines)
    BY RadosTallies
  <1> HIDE DEF back
  <1>4. PICK b: Tallies(b, smark, ycnetal, n) /\ b[n] = rados_roots(back)
    BY <1>2, RadosTallies
  <1>5. DOMAIN back = 1 .. n
    BY <1>1, <1>2
  <1>6. \A k \in 1 .. n: latency[k] \in Nat
    BY <1>1, FlowAssumption DEF Latencies
  <1>7. ASSUME NEW k \in 1 .. n PROVE smark[k] = marks[n - k + 1] /\ ycnetal[k] = latency[n - k + 1]
    <2>1. n - k + 1 \in 1 .. n
      BY <1>1
    <2>2. back[k] = lines[n - k + 1]
      BY <1>2
    <2>3. QED BY <1>1, <1>5, <2>1, <2>2 DEF Latencies
  <1> HIDE DEF n, marks, smark, latency, ycnetal
  <1>8. Alike(a[n], b[n])
    BY <1>1, <1>3, <1>4, <1>6, <1>7, Backwards
  <1>9. QED BY <1>3, <1>4, <1>8 DEF back

SortOK == flow_sort \in {"descending", "ascending"}

LEMMA OrderFrees == LinesInv /\ SortOK => OrderFree
  <1> DEFINE rados == radostrace_events
             osds == osdtrace_events
  <1>1. SUFFICES ASSUME LinesInv, SortOK, rados = <<>> \/ osds = <<>>
                 PROVE  RanksOf(FlowTree.rows)
                           = RanksOf(build_flow_tree(Reverse(rados), Reverse(osds), flow_metric, flow_sort).rows)
    BY DEF OrderFree, RanksOf
  <1>2. rados \in Seq(RadosLines) /\ osds \in Seq(OsdLines)
    BY <1>1 DEF LinesInv
  <1>3. Reverse(rados) \in Seq(RadosLines) /\ Reverse(osds) \in Seq(OsdLines)
    BY <1>2, ReverseOf
  <1>4. (rados = <<>> <=> Reverse(rados) = <<>>) /\ (osds = <<>> <=> Reverse(osds) = <<>>)
    <2>1. Len(Reverse(rados)) = Len(rados) /\ Len(Reverse(osds)) = Len(osds)
      BY <1>2, ReverseOf
    <2>2. QED BY <1>2, <1>3, <2>1
  <1> DEFINE tree == Roots(rados, osds)
             other == Roots(Reverse(rados), Reverse(osds))
  <1>5. Alike(tree, other)
    BY <1>1, <1>2, <1>4, OsdBackwards, RadosBackwards DEF Roots
  <1>6. Sound(tree) /\ Sound(other)
    BY <1>2, <1>3, RootsSound
  <1>7. /\ FlowTree.rows = flatten(tree, flow_metric, flow_sort)
        /\ build_flow_tree(Reverse(rados), Reverse(osds), flow_metric, flow_sort).rows
              = flatten(other, flow_metric, flow_sort)
    BY DEF FlowTree, build_flow_tree
  <1> HIDE DEF tree, other
  <1>8. RanksOf(flatten(tree, flow_metric, flow_sort)) = RanksOf(flatten(other, flow_metric, flow_sort))
    BY <1>1, <1>5, <1>6, AlikeRows DEF SortOK
  <1>9. QED BY <1>7, <1>8

-----------------------------------------------------------------------------
(* MapThenSumSet over the operations of branches, in whatever order.       *)

Turn(s) == CHOOSE x \in s: TRUE
OpsOf(tree, iter, s) == IF s = {} THEN 0 ELSE tree[Turn(s)].stats.ops + iter[s \ {Turn(s)}]
Adds(tree, S, iter) == iter = [s \in SUBSET S |-> OpsOf(tree, iter, s)]

LEMMA SumAdds ==
    ASSUME NEW tree, NEW S
    PROVE  SumOps(tree, S) = (CHOOSE iter: Adds(tree, S, iter))[S]
  BY DEF SumOps, MapThenSumSet, MapThenFoldSet, Adds, OpsOf, Turn

LEMMA AddsValue ==
    ASSUME NEW tree, NEW S, NEW iter, Adds(tree, S, iter)
    PROVE  \A s \in SUBSET S: iter[s] = OpsOf(tree, iter, s)
  <1> DEFINE f == [s \in SUBSET S |-> OpsOf(tree, iter, s)]
  <1>1. iter = f
    BY Zenon DEF Adds
  <1>2. \A s \in SUBSET S: f[s] = OpsOf(tree, iter, s)
    BY Zenon
  <1> HIDE DEF f
  <1>3. QED BY <1>1, <1>2, Zenon

LEMMA TurnOf ==
    ASSUME NEW s, IsFiniteSet(s), s # {}
    PROVE  /\ Turn(s) \in s /\ IsFiniteSet(s \ {Turn(s)})
           /\ Cardinality(s) \in Nat \ {0} /\ Cardinality(s \ {Turn(s)}) = Cardinality(s) - 1
  <1>1. Turn(s) \in s
    BY DEF Turn
  <1>2. QED BY <1>1, FS_RemoveElement, FS_CardinalityType, FS_EmptySet

LEMMA AddsExist ==
    ASSUME NEW tree, NEW S, IsFiniteSet(S)
    PROVE  \E iter: Adds(tree, S, iter)
  <1> DEFINE Upto(k) == {s \in SUBSET S: Cardinality(s) <= k}
             Good(iter, k) == \A s \in Upto(k): iter[s] = OpsOf(tree, iter, s)
             T == {k \in Nat: \E iter: DOMAIN iter = SUBSET S /\ Good(iter, k) /\ iter = [s \in SUBSET S |-> iter[s]]}
  <1>1. \A s \in SUBSET S: IsFiniteSet(s) /\ Cardinality(s) \in Nat /\ (Cardinality(s) = 0 <=> s = {})
    BY FS_Subset, FS_CardinalityType, FS_EmptySet
  <1>2. 0 \in T
    <2> DEFINE iter == [s \in SUBSET S |-> 0]
    <2>1. \A s \in Upto(0): s = {} /\ iter[s] = 0
      BY <1>1
    <2>2. Good(iter, 0)
      BY <2>1 DEF OpsOf
    <2>3. DOMAIN iter = SUBSET S /\ iter = [s \in SUBSET S |-> iter[s]]
      OBVIOUS
    <2> HIDE DEF iter, Good
    <2>4. QED BY <2>2, <2>3
  <1>3. ASSUME NEW k \in Nat, k \in T PROVE k + 1 \in T
    <2>1. PICK old: DOMAIN old = SUBSET S /\ Good(old, k)
      BY <1>3
    <2> DEFINE new == [s \in SUBSET S |-> OpsOf(tree, old, s)]
    <2>2. ASSUME NEW s \in Upto(k + 1) PROVE new[s] = OpsOf(tree, new, s)
      <3> DEFINE t == s \ {Turn(s)}
      <3>1. CASE s = {}
        BY <3>1 DEF OpsOf
      <3>2. CASE s # {}
        <4>1. t \in SUBSET S /\ Cardinality(t) = Cardinality(s) - 1 /\ Cardinality(s) \in Nat
          BY <1>1, <3>2, TurnOf
        <4>2. t \in Upto(k)
          BY <4>1
        <4>3. old[t] = OpsOf(tree, old, t)
          BY <2>1, <4>2
        <4>4. new[t] = old[t] /\ new[s] = OpsOf(tree, old, s)
          BY <4>1, <4>3
        <4> HIDE DEF new
        <4>5. QED BY <3>2, <4>4 DEF OpsOf
      <3>3. QED BY <3>1, <3>2
    <2>3. DOMAIN new = SUBSET S /\ new = [s \in SUBSET S |-> new[s]]
      OBVIOUS
    <2> HIDE DEF new
    <2>4. Good(new, k + 1)
      BY <2>2
    <2> HIDE DEF Good
    <2>5. QED BY <2>3, <2>4
  <1>4. Cardinality(S) \in T
    <2> HIDE DEF T
    <2> QED BY <1>1, <1>2, <1>3, Induct
  <1>5. PICK iter: Good(iter, Cardinality(S)) /\ iter = [s \in SUBSET S |-> iter[s]]
    BY <1>4
  <1>6. \A s \in SUBSET S: s \in Upto(Cardinality(S))
    BY FS_Subset
  <1>7. \A s \in SUBSET S: iter[s] = OpsOf(tree, iter, s)
    BY <1>5, <1>6
  <1>8. iter = [s \in SUBSET S |-> OpsOf(tree, iter, s)]
    BY <1>5, <1>7, Zenon
  <1>9. QED BY <1>8 DEF Adds

(* Two such functions agree where both are defined.                        *)
LEMMA AddsAgree ==
    ASSUME NEW tree, NEW S, NEW R, NEW i, NEW j, Adds(tree, S, i), Adds(tree, R, j),
           NEW s \in SUBSET S, s \in SUBSET R, IsFiniteSet(s)
    PROVE  i[s] = j[s]
  <1> DEFINE Same(k) == \A t \in SUBSET s: IsFiniteSet(t) /\ Cardinality(t) = k => i[t] = j[t]
             T == {k \in Nat: Same(k)}
  <1>1. (\A t \in SUBSET S: i[t] = OpsOf(tree, i, t)) /\ (\A t \in SUBSET R: j[t] = OpsOf(tree, j, t))
    BY AddsValue
  <1>2. ASSUME NEW t \in SUBSET s, IsFiniteSet(t), t # {}, Same(Cardinality(t) - 1) PROVE i[t] = j[t]
    <2> DEFINE u == t \ {Turn(t)}
    <2>1. u \in SUBSET s /\ IsFiniteSet(u) /\ Cardinality(u) = Cardinality(t) - 1
      BY <1>2, TurnOf
    <2>2. i[u] = j[u]
      BY <1>2, <2>1
    <2>3. t \in SUBSET S /\ t \in SUBSET R
      OBVIOUS
    <2>4. i[t] = OpsOf(tree, i, t) /\ j[t] = OpsOf(tree, j, t)
      BY <1>1, <2>3
    <2>5. QED BY <1>2, <2>2, <2>4 DEF OpsOf
  <1>3. i[{}] = j[{}]
    <2>1. {} \in SUBSET S /\ {} \in SUBSET R
      OBVIOUS
    <2>2. QED BY <1>1, <2>1 DEF OpsOf
  <1>4. \A t \in SUBSET s: IsFiniteSet(t) => Cardinality(t) \in Nat /\ (Cardinality(t) = 0 <=> t = {})
    BY FS_CardinalityType, FS_EmptySet
  <1>5. 0 \in T
    BY <1>3, <1>4
  <1>6. ASSUME NEW k \in Nat, k \in T PROVE k + 1 \in T
    <2>1. ASSUME NEW t \in SUBSET s, IsFiniteSet(t), Cardinality(t) = k + 1 PROVE i[t] = j[t]
      <3>1. t # {} /\ Cardinality(t) - 1 = k
        BY <1>4, <2>1
      <3>2. Same(k)
        BY <1>6
      <3> HIDE DEF Same
      <3>3. QED BY <1>2, <2>1, <3>1, <3>2
    <2>2. QED BY <2>1
  <1> HIDE DEF T
  <1>7. Nat \subseteq T
    BY <1>5, <1>6, Induct
  <1>8. Same(Cardinality(s))
    BY <1>4, <1>7 DEF T
  <1>9. QED BY <1>8

LEMMA SumNone == ASSUME NEW tree PROVE SumOps(tree, {}) = 0
  <1>1. IsFiniteSet({}) /\ {} \in SUBSET {}
    BY FS_EmptySet
  <1>2. \E iter: Adds(tree, {}, iter)
    BY <1>1, AddsExist
  <1> DEFINE iter == CHOOSE iter: Adds(tree, {}, iter)
  <1>3. Adds(tree, {}, iter) /\ SumOps(tree, {}) = iter[{}]
    BY <1>2, SumAdds
  <1> HIDE DEF iter
  <1>4. iter[{}] = OpsOf(tree, iter, {})
    BY <1>1, <1>3, AddsValue
  <1>5. QED BY <1>3, <1>4 DEF OpsOf

LEMMA SumTurn ==
    ASSUME NEW tree, NEW S, IsFiniteSet(S), S # {}
    PROVE  SumOps(tree, S) = tree[Turn(S)].stats.ops + SumOps(tree, S \ {Turn(S)})
  <1> DEFINE R == S \ {Turn(S)}
             i == CHOOSE iter: Adds(tree, S, iter)
             j == CHOOSE iter: Adds(tree, R, iter)
  <1>1. IsFiniteSet(R) /\ R \in SUBSET S /\ R \in SUBSET R /\ S \in SUBSET S
    BY TurnOf
  <1>2. Adds(tree, S, i) /\ Adds(tree, R, j)
    <2>1. (\E iter: Adds(tree, S, iter)) /\ (\E iter: Adds(tree, R, iter))
      BY <1>1, AddsExist
    <2>2. QED BY <2>1
  <1>3. SumOps(tree, S) = i[S] /\ SumOps(tree, R) = j[R]
    BY SumAdds
  <1> HIDE DEF i, j
  <1>4. i[S] = OpsOf(tree, i, S)
    BY <1>1, <1>2, AddsValue
  <1>5. i[R] = j[R]
    <2> HIDE DEF R
    <2> QED BY <1>1, <1>2, AddsAgree
  <1>6. QED BY <1>3, <1>4, <1>5 DEF OpsOf

CountsOps(tree, S) == \A p \in S: tree[p].stats.ops \in Nat

LEMMA SumNat ==
    ASSUME NEW tree, NEW S, IsFiniteSet(S), CountsOps(tree, S)
    PROVE  SumOps(tree, S) \in Nat
  <1> DEFINE T == {k \in Nat: \A s \in SUBSET S: IsFiniteSet(s) /\ Cardinality(s) = k => SumOps(tree, s) \in Nat}
  <1>1. 0 \in T
    <2>1. \A s \in SUBSET S: IsFiniteSet(s) /\ Cardinality(s) = 0 => s = {}
      BY FS_EmptySet
    <2>2. QED BY <2>1, SumNone
  <1>2. ASSUME NEW k \in Nat, k \in T PROVE k + 1 \in T
    <2>1. SUFFICES ASSUME NEW s \in SUBSET S, IsFiniteSet(s), Cardinality(s) = k + 1 PROVE SumOps(tree, s) \in Nat
      OBVIOUS
    <2>2. s # {}
      BY <2>1, FS_EmptySet
    <2> DEFINE t == s \ {Turn(s)}
    <2>3. Turn(s) \in S /\ IsFiniteSet(t) /\ Cardinality(t) = k /\ t \in SUBSET S
      BY <2>1, <2>2, TurnOf
    <2>4. SumOps(tree, s) = tree[Turn(s)].stats.ops + SumOps(tree, t)
      BY <2>1, <2>2, SumTurn
    <2>5. SumOps(tree, t) \in Nat
      BY <1>2, <2>3
    <2>6. tree[Turn(s)].stats.ops \in Nat
      BY <2>3 DEF CountsOps
    <2>7. QED BY <2>4, <2>5, <2>6
  <1> HIDE DEF T
  <1>3. Cardinality(S) \in T
    BY <1>1, <1>2, Induct, FS_CardinalityType
  <1>4. QED BY <1>3 DEF T

(* A branch may be counted before the others.                              *)
LEMMA SumFirst ==
    ASSUME NEW tree, NEW S, IsFiniteSet(S), CountsOps(tree, S), NEW c \in S
    PROVE  SumOps(tree, S) = tree[c].stats.ops + SumOps(tree, S \ {c})
  <1> DEFINE First(s, d) == SumOps(tree, s) = tree[d].stats.ops + SumOps(tree, s \ {d})
             T == {k \in Nat: \A s \in SUBSET S: IsFiniteSet(s) /\ Cardinality(s) = k => \A d \in s: First(s, d)}
  <1>1. 0 \in T
    <2>1. \A s \in SUBSET S: IsFiniteSet(s) /\ Cardinality(s) = 0 => s = {}
      BY FS_EmptySet
    <2>2. QED BY <2>1
  <1>2. ASSUME NEW k \in Nat, k \in T PROVE k + 1 \in T
    <2>1. SUFFICES ASSUME NEW s \in SUBSET S, IsFiniteSet(s), Cardinality(s) = k + 1, NEW d \in s PROVE First(s, d)
      OBVIOUS
    <2> DEFINE e == Turn(s)
               t == s \ {e}
    <2>2. e \in s /\ IsFiniteSet(t) /\ Cardinality(t) = k
      BY <2>1, TurnOf
    <2>3. SumOps(tree, s) = tree[e].stats.ops + SumOps(tree, t)
      BY <2>1, SumTurn
    <2>4. CASE d = e
      BY <2>3, <2>4
    <2>5. CASE d # e
      <3> DEFINE u == s \ {d}
                 v == t \ {d}
      <3>1. First(t, d)
        <4>1. t \in SUBSET S /\ d \in t
          BY <2>5
        <4> HIDE DEF First, t
        <4>2. QED BY <1>2, <2>2, <4>1
      <3>2. IsFiniteSet(u) /\ Cardinality(u) = k /\ u \in SUBSET S /\ e \in u /\ u \ {e} = v
        BY <2>1, <2>2, <2>5, FS_RemoveElement
      <3>3. First(u, e)
        <4> HIDE DEF First, u
        <4> QED BY <1>2, <3>2
      <3>4. SumOps(tree, v) \in Nat /\ tree[d].stats.ops \in Nat /\ tree[e].stats.ops \in Nat
        <4>1. IsFiniteSet(v) /\ v \in SUBSET S
          BY <2>2, FS_Subset
        <4>2. CountsOps(tree, v)
          BY <4>1 DEF CountsOps
        <4>3. SumOps(tree, v) \in Nat
          BY <4>1, <4>2, SumNat
        <4>4. QED BY <2>2, <4>3 DEF CountsOps
      <3>5. SumOps(tree, t) = tree[d].stats.ops + SumOps(tree, v)
        BY <3>1
      <3>6. SumOps(tree, u) = tree[e].stats.ops + SumOps(tree, v)
        BY <3>2, <3>3
      <3>7. QED BY <2>3, <3>4, <3>5, <3>6
    <2>6. QED BY <2>4, <2>5
  <1> HIDE DEF T
  <1>3. Cardinality(S) \in T
    BY <1>1, <1>2, Induct, FS_CardinalityType
  <1>4. First(S, c)
    <2> HIDE DEF First
    <2> QED BY <1>3 DEF T
  <1>5. QED BY <1>4

(* Only the operations of the branches count.                              *)
LEMMA SumSame ==
    ASSUME NEW tree, NEW other, NEW S, IsFiniteSet(S), \A p \in S: tree[p].stats.ops = other[p].stats.ops
    PROVE  SumOps(tree, S) = SumOps(other, S)
  <1> DEFINE Same(s) == SumOps(tree, s) = SumOps(other, s)
             T == {k \in Nat: \A s \in SUBSET S: IsFiniteSet(s) /\ Cardinality(s) = k => Same(s)}
  <1>1. 0 \in T
    <2>1. \A s \in SUBSET S: IsFiniteSet(s) /\ Cardinality(s) = 0 => s = {}
      BY FS_EmptySet
    <2>2. Same({})
      BY SumNone
    <2> HIDE DEF Same
    <2>3. QED BY <2>1, <2>2
  <1>2. ASSUME NEW k \in Nat, k \in T PROVE k + 1 \in T
    <2>1. SUFFICES ASSUME NEW s \in SUBSET S, IsFiniteSet(s), Cardinality(s) = k + 1 PROVE Same(s)
      OBVIOUS
    <2>2. s # {}
      BY <2>1, FS_EmptySet
    <2> DEFINE t == s \ {Turn(s)}
    <2>3. Turn(s) \in S /\ IsFiniteSet(t) /\ Cardinality(t) = k /\ t \in SUBSET S
      BY <2>1, <2>2, TurnOf
    <2>4. SumOps(tree, s) = tree[Turn(s)].stats.ops + SumOps(tree, t)
      BY <2>1, <2>2, SumTurn
    <2>5. SumOps(other, s) = other[Turn(s)].stats.ops + SumOps(other, t)
      BY <2>1, <2>2, SumTurn
    <2>6. Same(t)
      <3> HIDE DEF Same, t
      <3> QED BY <1>2, <2>3
    <2>7. QED BY <2>3, <2>4, <2>5, <2>6
  <1> HIDE DEF T
  <1>3. Cardinality(S) \in T
    BY <1>1, <1>2, Induct, FS_CardinalityType
  <1>4. Same(S)
    <2> HIDE DEF Same
    <2> QED BY <1>3 DEF T
  <1>5. QED BY <1>4

-----------------------------------------------------------------------------
(* A line counts once in a branch that it marks and once in one of those   *)
(* below, down to the last level.                                          *)

MarkedBelow(marks, p) == {c \in marks: c # <<>> /\ Front(c) = p}
OneBelow(marks, p) == \E c: MarkedBelow(marks, p) = {c}
IsChain(marks, depth) ==
    marks # {} =>
        /\ OneBelow(marks, <<>>)
        /\ \A p: p \notin marks /\ p # <<>> => MarkedBelow(marks, p) = {}
        /\ \A p \in marks: p # <<>> /\ Len(p) \in 1 .. depth /\ (Len(p) < depth => OneBelow(marks, p))

SumBelow(tree, p) == SumOps(tree, Children(tree, p))
Levels(tree, depth, count) ==
    /\ SumBelow(tree, <<>>) = count
    /\ \A p \in DOMAIN tree: Len(p) \in 1 .. depth
    /\ \A p: p # <<>> /\ (p \in DOMAIN tree => Len(p) < depth) => StatsAt(tree, p).ops = SumBelow(tree, p)

LEMMA ChildrenMore ==
    ASSUME NEW tree, NEW new, NEW marks, NEW l, Records(new, tree, marks, l), NEW p
    PROVE  Children(new, p) = Children(tree, p) \cup MarkedBelow(marks, p)
  BY DEF Children, MarkedBelow, Records

LEMMA ChildrenCount ==
    ASSUME NEW tree, Sound(tree), NEW p
    PROVE  /\ IsFiniteSet(Children(tree, p)) /\ CountsOps(tree, Children(tree, p))
           /\ \A c \in Children(tree, p): StatsAt(tree, c) = tree[c].stats
  <1>1. Children(tree, p) \in SUBSET DOMAIN tree
    BY DEF Children
  <1>2. IsFiniteSet(Children(tree, p))
    BY <1>1, FS_Subset DEF Sound
  <1>3. \A c \in DOMAIN tree: IsStats(tree[c].stats)
    BY DEF Sound
  <1>4. QED BY <1>1, <1>2, <1>3 DEF CountsOps, StatsAt, Found, IsStats

LEMMA SumStays ==
    ASSUME NEW tree, NEW new, NEW marks, NEW l, Sound(tree), Sound(new), Records(new, tree, marks, l), NEW p,
           MarkedBelow(marks, p) = {}
    PROVE  SumBelow(new, p) = SumBelow(tree, p)
  <1> DEFINE C == Children(tree, p)
  <1>1. Children(new, p) = C
    BY ChildrenMore
  <1>2. \A c \in C: c \notin marks
    BY DEF MarkedBelow, Children
  <1>3. ASSUME NEW c \in C PROVE new[c].stats.ops = tree[c].stats.ops
    <2>1. StatsAt(new, c) = new[c].stats /\ StatsAt(tree, c) = tree[c].stats
      BY <1>1, ChildrenCount
    <2>2. StatsAt(new, c) = IF c \in marks THEN record(StatsAt(tree, c), l) ELSE StatsAt(tree, c)
      BY Zenon DEF Records
    <2>3. QED BY <1>2, <2>1, <2>2
  <1>4. IsFiniteSet(C)
    BY ChildrenCount
  <1> HIDE DEF C
  <1>5. SumOps(new, C) = SumOps(tree, C)
    BY <1>3, <1>4, SumSame
  <1>6. QED BY <1>1, <1>5 DEF SumBelow, C

LEMMA SumGrows ==
    ASSUME NEW tree, NEW new, NEW marks, NEW l \in Nat, Sound(tree), Sound(new), Records(new, tree, marks, l), NEW p,
           OneBelow(marks, p)
    PROVE  SumBelow(new, p) = SumBelow(tree, p) + 1
  <1>15. PICK c: MarkedBelow(marks, p) = {c}
    BY DEF OneBelow
  <1> DEFINE C == Children(tree, p)
             R == C \ {c}
             D == Children(new, p)
  <1>1. D = C \cup {c} /\ c \in D /\ D \ {c} = R
    BY <1>15, ChildrenMore
  <1>2. c \in marks /\ \A d \in R: d \notin marks
    BY <1>15 DEF MarkedBelow, Children
  <1>3. \A d \in D: StatsAt(new, d) = IF d \in marks THEN record(StatsAt(tree, d), l) ELSE StatsAt(tree, d)
    BY Zenon DEF Records
  <1>4. (\A d \in D: StatsAt(new, d) = new[d].stats) /\ (\A d \in C: StatsAt(tree, d) = tree[d].stats)
    BY ChildrenCount
  <1>5. \A d \in R: new[d].stats.ops = tree[d].stats.ops
    BY <1>1, <1>2, <1>3, <1>4
  <1>6. IsFiniteSet(C) /\ IsFiniteSet(D) /\ IsFiniteSet(R) /\ CountsOps(tree, C) /\ CountsOps(new, D)
    BY ChildrenCount, FS_Subset
  <1>7. IsStats(StatsAt(tree, c)) /\ (c \notin C => StatsAt(tree, c).ops = 0)
    <2>1. CASE c \in DOMAIN tree
      <3>1. c \in C
        BY <1>15, <2>1 DEF Children, MarkedBelow
      <3>2. IsStats(tree[c].stats)
        BY <2>1 DEF Sound
      <3>3. QED BY <1>4, <3>1, <3>2
    <2>2. CASE c \notin DOMAIN tree
      BY <2>2, StatsAdd DEF StatsAt, Found, IsStats, Zero
    <2>3. QED BY <2>1, <2>2
  <1>8. new[c].stats.ops = StatsAt(tree, c).ops + 1
    <2>1. new[c].stats = record(StatsAt(tree, c), l)
      BY <1>1, <1>2, <1>3, <1>4
    <2>2. QED BY <2>1 DEF record
  <1>9. SumOps(new, R) = SumOps(tree, R) /\ SumOps(tree, R) \in Nat
    <2>1. CountsOps(tree, R)
      BY <1>6 DEF CountsOps
    <2> HIDE DEF R
    <2>2. QED BY <1>5, <1>6, <2>1, SumSame, SumNat
  <1>10. SumOps(new, D) = new[c].stats.ops + SumOps(new, R)
    <2> HIDE DEF D, R
    <2>1. SumOps(new, D) = new[c].stats.ops + SumOps(new, D \ {c})
      BY <1>1, <1>6, SumFirst
    <2>2. QED BY <1>1, <2>1
  <1>11. SumOps(tree, C) = StatsAt(tree, c).ops + SumOps(tree, R)
    <2>1. CASE c \in C
      <3> HIDE DEF C
      <3>1. SumOps(tree, C) = tree[c].stats.ops + SumOps(tree, C \ {c})
        BY <1>6, <2>1, SumFirst
      <3>2. QED BY <1>4, <2>1, <3>1
    <2>2. CASE c \notin C
      <3>1. R = C
        BY <2>2
      <3> HIDE DEF C, R
      <3>2. QED BY <1>7, <1>9, <2>2, <3>1
    <2>3. QED BY <2>1, <2>2
  <1>12. StatsAt(tree, c).ops \in Nat
    BY <1>7 DEF IsStats
  <1> HIDE DEF C, D, R
  <1>13. SumOps(new, D) = SumOps(tree, C) + 1
    BY <1>8, <1>9, <1>10, <1>11, <1>12
  <1>14. QED BY <1>13 DEF SumBelow, C, D

LEMMA LevelStep ==
    ASSUME NEW tree, NEW new, NEW marks, NEW l \in Nat, Sound(tree), Sound(new), Records(new, tree, marks, l),
           NEW depth \in Nat, IsChain(marks, depth), NEW n \in Nat, Levels(tree, depth, n)
    PROVE  Levels(new, depth, IF marks = {} THEN n ELSE n + 1)
  <1>1. DOMAIN new = DOMAIN tree \cup marks
    BY Zenon DEF Records
  <1>2. \A p \in DOMAIN new: Len(p) \in 1 .. depth
    BY <1>1 DEF Levels, IsChain
  <1>3. SumBelow(new, <<>>) = IF marks = {} THEN n ELSE n + 1
    <2>1. SumBelow(tree, <<>>) = n
      BY DEF Levels
    <2>2. CASE marks = {}
      <3>1. MarkedBelow(marks, <<>>) = {}
        BY <2>2 DEF MarkedBelow
      <3>2. QED BY <2>1, <2>2, <3>1, SumStays
    <2>3. CASE marks # {}
      <3>1. OneBelow(marks, <<>>)
        BY <2>3 DEF IsChain
      <3>2. QED BY <2>1, <2>3, <3>1, SumGrows
    <2>4. QED BY <2>2, <2>3
  <1>4. ASSUME NEW p, p # <<>>, p \in DOMAIN new => Len(p) < depth PROVE StatsAt(new, p).ops = SumBelow(new, p)
    <2>1. StatsAt(tree, p).ops = SumBelow(tree, p)
      <3>1. p \in DOMAIN tree => Len(p) < depth
        BY <1>1, <1>4
      <3>2. QED BY <1>4, <3>1, Zenon DEF Levels
    <2>2. StatsAt(new, p) = IF p \in marks THEN record(StatsAt(tree, p), l) ELSE StatsAt(tree, p)
      BY Zenon DEF Records
    <2>3. CASE p \in marks
      <3>1. Len(p) < depth
        BY <1>1, <1>4, <2>3
      <3>2. OneBelow(marks, p)
        BY <2>3, <3>1 DEF IsChain
      <3>3. SumBelow(new, p) = SumBelow(tree, p) + 1
        BY <3>2, SumGrows
      <3>4. StatsAt(new, p).ops = StatsAt(tree, p).ops + 1
        BY <2>2, <2>3 DEF record
      <3>5. QED BY <2>1, <3>3, <3>4
    <2>4. CASE p \notin marks
      <3>1. MarkedBelow(marks, p) = {}
        <4>1. CASE marks = {}
          BY <4>1 DEF MarkedBelow
        <4>2. CASE marks # {}
          BY <1>4, <2>4, <4>2, Zenon DEF IsChain
        <4>3. QED BY <4>1, <4>2
      <3>2. SumBelow(new, p) = SumBelow(tree, p)
        BY <3>1, SumStays
      <3>3. QED BY <2>1, <2>2, <2>4, <3>2
    <2>5. QED BY <2>3, <2>4
  <1>5. QED BY <1>2, <1>3, <1>4, Zenon DEF Levels

CountTo(marks, k) == Cardinality({i \in 1 .. k: marks[i] # {}})

LEMMA CountMore ==
    ASSUME NEW marks, NEW k \in Nat
    PROVE  /\ CountTo(marks, 0) = 0 /\ CountTo(marks, k) \in Nat
           /\ CountTo(marks, k + 1) = IF marks[k + 1] = {} THEN CountTo(marks, k) ELSE CountTo(marks, k) + 1
  <1> DEFINE U(n) == {i \in 1 .. n: marks[i] # {}}
  <1>1. IsFiniteSet(U(k)) /\ k + 1 \notin U(k)
    <2>1. U(k) \in SUBSET (1 .. k) /\ IsFiniteSet(1 .. k)
      BY FS_Interval
    <2>2. QED BY <2>1, FS_Subset
  <1>2. U(0) = {} /\ U(k + 1) = IF marks[k + 1] = {} THEN U(k) ELSE U(k) \cup {k + 1}
    <2>1. 1 .. (k + 1) = (1 .. k) \cup {k + 1} /\ 1 .. 0 = {}
      OBVIOUS
    <2>2. QED BY <2>1
  <1> HIDE DEF U
  <1>3. Cardinality(U(k)) \in Nat /\ Cardinality(U(0)) = 0 /\ Cardinality(U(k) \cup {k + 1}) = Cardinality(U(k)) + 1
    BY <1>1, <1>2, FS_CardinalityType, FS_EmptySet, FS_AddElement
  <1>4. Cardinality(U(k + 1)) = IF marks[k + 1] = {} THEN Cardinality(U(k)) ELSE Cardinality(U(k)) + 1
    BY <1>2, <1>3
  <1>5. QED BY <1>3, <1>4 DEF CountTo, U

LEMMA PassLevels ==
    ASSUME NEW n \in Nat, NEW acc, NEW marks, NEW latency, NEW depth \in Nat, Tallies(acc, marks, latency, n),
           \A k \in 1 .. n: latency[k] \in Nat /\ IsChain(marks[k], depth),
           \A k \in 1 .. n: Sound(acc[k - 1]) => Sound(acc[k])
    PROVE  Levels(acc[n], depth, CountTo(marks, n))
  <1> DEFINE T == {k \in Nat: k <= n => Sound(acc[k]) /\ Levels(acc[k], depth, CountTo(marks, k))}
  <1>1. 0 \in T
    <2>1. acc[0] = NoBranch /\ DOMAIN NoBranch = {}
      BY DEF Tallies, NoBranch
    <2>2. Sound(acc[0])
      BY <2>1, FS_EmptySet DEF Sound
    <2>3. \A p: Children(acc[0], p) = {} /\ StatsAt(acc[0], p) = Zero
      BY <2>1 DEF Children, StatsAt, Found
    <2>4. \A p: SumBelow(acc[0], p) = 0
      BY <2>3, SumNone DEF SumBelow
    <2>5. Levels(acc[0], depth, 0)
      BY <2>1, <2>3, <2>4 DEF Levels, Zero
    <2>6. QED BY <2>2, <2>5, CountMore
  <1>2. ASSUME NEW k \in Nat, k \in T PROVE k + 1 \in T
    <2>1. SUFFICES ASSUME k + 1 <= n PROVE Sound(acc[k + 1]) /\ Levels(acc[k + 1], depth, CountTo(marks, k + 1))
      OBVIOUS
    <2> DEFINE i == k + 1
    <2>2. i \in 1 .. n /\ i - 1 = k /\ Sound(acc[k]) /\ Levels(acc[k], depth, CountTo(marks, k))
      BY <1>2, <2>1
    <2>3. CountTo(marks, k) \in Nat /\ CountTo(marks, i) = IF marks[i] = {} THEN CountTo(marks, k) ELSE CountTo(marks, k) + 1
      BY CountMore
    <2> HIDE DEF i
    <2>4. Sound(acc[i]) /\ Records(acc[i], acc[k], marks[i], latency[i]) /\ latency[i] \in Nat /\ IsChain(marks[i], depth)
      BY <2>2 DEF Tallies
    <2>5. Levels(acc[i], depth, IF marks[i] = {} THEN CountTo(marks, k) ELSE CountTo(marks, k) + 1)
      BY <2>2, <2>3, <2>4, LevelStep
    <2>6. QED BY <2>3, <2>4, <2>5 DEF i
  <1> HIDE DEF T
  <1>3. n \in T
    BY <1>1, <1>2, Induct
  <1>4. QED BY <1>3 DEF T

LEMMA OsdChain == ASSUME NEW e PROVE IsChain(OsdMarks(e), 2)
  <1> DEFINE one == <<e.osd>>
             two == <<e.osd, e.pg>>
             M == OsdMarks(e)
  <1>1. SUFFICES ASSUME M # {} PROVE IsChain(M, 2)
    BY DEF IsChain
  <1>2. M = {one, two}
    BY <1>1 DEF OsdMarks
  <1>3. Len(one) = 1 /\ Len(two) = 2 /\ Front(one) = <<>> /\ Front(two) = one /\ one # <<>> /\ two # <<>> /\ one # two
    BY FrontOne, FrontTwo
  <1> HIDE DEF one, two, M
  <1>4. MarkedBelow(M, <<>>) = {one} /\ MarkedBelow(M, one) = {two}
    BY <1>2, <1>3 DEF MarkedBelow
  <1>5. \A p: p \notin M /\ p # <<>> => MarkedBelow(M, p) = {}
    BY <1>2, <1>3 DEF MarkedBelow
  <1>6. \A p \in M: p # <<>> /\ Len(p) \in 1 .. 2 /\ (Len(p) < 2 => p = one)
    BY <1>2, <1>3
  <1>7. QED BY <1>4, <1>5, <1>6 DEF IsChain, OneBelow

LEMMA RadosChain == ASSUME NEW e PROVE IsChain(RadosMarks(e), 3)
  <1> DEFINE one == <<e.primary>>
             two == <<e.primary, e.pg>>
             three == <<e.primary, e.pg, e.object>>
             M == RadosMarks(e)
  <1>1. SUFFICES ASSUME M # {} PROVE IsChain(M, 3)
    BY DEF IsChain
  <1>2. M = {one, two, three}
    BY <1>1 DEF RadosMarks
  <1>3. /\ Len(one) = 1 /\ Len(two) = 2 /\ Len(three) = 3
        /\ Front(one) = <<>> /\ Front(two) = one /\ Front(three) = two
    BY FrontOne, FrontTwo, FrontThree
  <1>4. one # <<>> /\ two # <<>> /\ three # <<>> /\ one # two /\ two # three /\ one # three
    OBVIOUS
  <1> HIDE DEF one, two, three, M
  <1>5. MarkedBelow(M, <<>>) = {one} /\ MarkedBelow(M, one) = {two} /\ MarkedBelow(M, two) = {three}
    BY <1>2, <1>3, <1>4 DEF MarkedBelow
  <1>6. \A p: p \notin M /\ p # <<>> => MarkedBelow(M, p) = {}
    BY <1>2, <1>3, <1>4 DEF MarkedBelow
  <1>7. \A p \in M: p # <<>> /\ Len(p) \in 1 .. 3 /\ (Len(p) < 3 => p = one \/ p = two)
    BY <1>2, <1>3, <1>4
  <1>8. QED BY <1>5, <1>6, <1>7 DEF IsChain, OneBelow

CountedRados(lines) == Where(lines, LAMBDA e: e.primary # NoPrimary)
CountedOsds(lines) == Where(lines, LAMBDA e: e.osd # Empty /\ e.pg # Empty)

LEMMA PickedCount ==
    ASSUME NEW S, NEW seq \in Seq(S), NEW ixs \in SUBSET DOMAIN seq
    PROVE  Len(Picked(seq, ixs)) = Cardinality(ixs)
  <1> DEFINE p == Picked(seq, ixs)
  <1>1. IsFiniteSet(ixs)
    <2>1. Len(seq) \in Nat /\ DOMAIN seq = 1 .. Len(seq)
      OBVIOUS
    <2>2. IsFiniteSet(1 .. Len(seq))
      BY <2>1, FS_Interval
    <2>3. QED BY <2>1, <2>2, FS_Subset
  <1>2. Cardinality(ixs) \in Nat /\ DOMAIN p = 1 .. Cardinality(ixs)
    BY <1>1, FS_CardinalityType DEF Picked, Ranked
  <1>3. p \in Seq(S)
    BY PickedSeq
  <1> HIDE DEF p
  <1>4. Len(p) \in Nat /\ DOMAIN p = 1 .. Len(p)
    BY <1>3
  <1>5. QED BY <1>2, <1>4 DEF p

LEMMA OsdLevels ==
    ASSUME NEW lines \in Seq(OsdLines)
    PROVE  Levels(osd_roots(lines), 2, Len(CountedOsds(lines)))
  <1>1. osd_roots(lines) = ByOsd!Folded(NoBranch, lines)
    BY DEF osd_roots, ByOsd!Folded, FoldLeft, MapThenFoldSet, ByOsd!MapThenFoldSet, Max, ByOsd!Greatest
  <1>2. PICK acc: /\ acc[0] = NoBranch
                  /\ \A n \in 1 .. Len(lines): acc[n] = osd_recorded(acc[n - 1], lines[n])
                  /\ acc[Len(lines)] = ByOsd!Folded(NoBranch, lines)
    BY ByOsd!Fold
  <1> DEFINE n == Len(lines)
             marks == [k \in DOMAIN lines |-> OsdMarks(lines[k])]
             latency == Latencies(lines)
  <1>3. n \in Nat /\ DOMAIN lines = 1 .. n /\ \A k \in 1 .. n: lines[k] \in OsdLines
    OBVIOUS
  <1>4. \A k \in 1 .. n: marks[k] = OsdMarks(lines[k]) /\ latency[k] = lines[k].latency
    BY <1>3 DEF Latencies
  <1>5. \A k \in 1 .. n: latency[k] \in Nat
    BY <1>3, <1>4, FlowAssumption
  <1>6. \A k \in 1 .. n: Sound(acc[k - 1]) => Sound(acc[k])
    BY <1>2, <1>3, OsdSound
  <1> HIDE DEF marks, latency
  <1>7. Tallies(acc, marks, latency, n)
    <2>1. \A k \in 1 .. n: Records(acc[k], acc[k - 1], marks[k], latency[k])
      BY <1>2, <1>4, OsdRecords
    <2>2. QED BY <1>2, <2>1 DEF Tallies
  <1>8. \A k \in 1 .. n: IsChain(marks[k], 2)
    BY <1>4, OsdChain
  <1> HIDE DEF n
  <1>9. Levels(acc[n], 2, CountTo(marks, n))
    BY <1>3, <1>5, <1>6, <1>7, <1>8, PassLevels
  <1>10. CountTo(marks, n) = Len(CountedOsds(lines))
    <2> DEFINE U == {k \in DOMAIN lines: lines[k].osd # Empty /\ lines[k].pg # Empty}
    <2>1. U = {k \in 1 .. n: marks[k] # {}}
      BY <1>3, <1>4 DEF OsdMarks
    <2>2. CountedOsds(lines) = Picked(lines, U)
      BY DEF CountedOsds, Where
    <2>3. U \in SUBSET DOMAIN lines
      OBVIOUS
    <2> HIDE DEF U
    <2>4. Len(Picked(lines, U)) = Cardinality(U)
      BY <2>3, PickedCount
    <2>5. QED BY <2>1, <2>2, <2>4 DEF CountTo
  <1>11. QED BY <1>1, <1>2, <1>9, <1>10 DEF n

LEMMA RadosLevels ==
    ASSUME NEW lines \in Seq(RadosLines)
    PROVE  Levels(rados_roots(lines), 3, Len(CountedRados(lines)))
  <1>1. rados_roots(lines) = ByRados!Folded(NoBranch, lines)
    BY DEF rados_roots, ByRados!Folded, FoldLeft, MapThenFoldSet, ByRados!MapThenFoldSet, Max, ByRados!Greatest
  <1>2. PICK acc: /\ acc[0] = NoBranch
                  /\ \A n \in 1 .. Len(lines): acc[n] = rados_recorded(acc[n - 1], lines[n])
                  /\ acc[Len(lines)] = ByRados!Folded(NoBranch, lines)
    BY ByRados!Fold
  <1> DEFINE n == Len(lines)
             marks == [k \in DOMAIN lines |-> RadosMarks(lines[k])]
             latency == Latencies(lines)
  <1>3. n \in Nat /\ DOMAIN lines = 1 .. n /\ \A k \in 1 .. n: lines[k] \in RadosLines
    OBVIOUS
  <1>4. \A k \in 1 .. n: marks[k] = RadosMarks(lines[k]) /\ latency[k] = lines[k].latency
    BY <1>3 DEF Latencies
  <1>5. \A k \in 1 .. n: latency[k] \in Nat
    BY <1>3, <1>4, FlowAssumption
  <1>6. \A k \in 1 .. n: Sound(acc[k - 1]) => Sound(acc[k])
    BY <1>2, <1>3, RadosSound
  <1> HIDE DEF marks, latency
  <1>7. Tallies(acc, marks, latency, n)
    <2>1. \A k \in 1 .. n: Records(acc[k], acc[k - 1], marks[k], latency[k])
      BY <1>2, <1>4, RadosRecords
    <2>2. QED BY <1>2, <2>1 DEF Tallies
  <1>8. \A k \in 1 .. n: IsChain(marks[k], 3)
    BY <1>4, RadosChain
  <1> HIDE DEF n
  <1>9. Levels(acc[n], 3, CountTo(marks, n))
    BY <1>3, <1>5, <1>6, <1>7, <1>8, PassLevels
  <1>10. CountTo(marks, n) = Len(CountedRados(lines))
    <2> DEFINE U == {k \in DOMAIN lines: lines[k].primary # NoPrimary}
    <2>1. U = {k \in 1 .. n: marks[k] # {}}
      BY <1>3, <1>4 DEF RadosMarks
    <2>2. CountedRados(lines) = Picked(lines, U)
      BY DEF CountedRados, Where
    <2>3. U \in SUBSET DOMAIN lines
      OBVIOUS
    <2> HIDE DEF U
    <2>4. Len(Picked(lines, U)) = Cardinality(U)
      BY <2>3, PickedCount
    <2>5. QED BY <2>1, <2>2, <2>4 DEF CountTo
  <1>11. QED BY <1>1, <1>2, <1>9, <1>10 DEF n

LEMMA RootsLevels ==
    ASSUME NEW rados \in Seq(RadosLines), NEW osds \in Seq(OsdLines), rados = <<>> \/ osds = <<>>
    PROVE  \E depth \in Nat: Levels(Roots(rados, osds), depth, Len(CountedRados(rados)) + Len(CountedOsds(osds)))
  <1>1. Len(CountedRados(<<>>)) = 0 /\ Len(CountedOsds(<<>>)) = 0
    <2>1. CountedRados(<<>>) = Picked(<<>>, {}) /\ CountedOsds(<<>>) = Picked(<<>>, {})
      BY DEF CountedRados, CountedOsds, Where
    <2>2. QED BY <2>1, PickedNone
  <1>2. Len(CountedOsds(osds)) \in Nat /\ Len(CountedRados(rados)) \in Nat
    <2>1. {k \in DOMAIN osds: osds[k].osd # Empty /\ osds[k].pg # Empty} \in SUBSET DOMAIN osds
      OBVIOUS
    <2>2. CountedOsds(osds) \in Seq(OsdLines)
      BY <2>1, PickedSeq DEF CountedOsds, Where
    <2>3. {k \in DOMAIN rados: rados[k].primary # NoPrimary} \in SUBSET DOMAIN rados
      OBVIOUS
    <2>4. CountedRados(rados) \in Seq(RadosLines)
      BY <2>3, PickedSeq DEF CountedRados, Where
    <2>5. QED BY <2>2, <2>4
  <1>3. CASE rados = <<>>
    <2>1. Roots(rados, osds) = osd_roots(osds)
      BY <1>3 DEF Roots
    <2>2. Levels(osd_roots(osds), 2, Len(CountedOsds(osds)))
      BY OsdLevels
    <2>3. Len(CountedRados(rados)) + Len(CountedOsds(osds)) = Len(CountedOsds(osds))
      BY <1>1, <1>2, <1>3
    <2>4. QED BY <2>1, <2>2, <2>3
  <1>4. CASE rados # <<>>
    <2>1. Roots(rados, osds) = rados_roots(rados) /\ osds = <<>>
      BY <1>4 DEF Roots
    <2>2. Levels(rados_roots(rados), 3, Len(CountedRados(rados)))
      BY RadosLevels
    <2>3. Len(CountedRados(rados)) + Len(CountedOsds(osds)) = Len(CountedRados(rados))
      BY <1>1, <1>2, <2>1
    <2>4. QED BY <2>1, <2>2, <2>3
  <1>5. QED BY <1>3, <1>4

-----------------------------------------------------------------------------
(* The walk goes down one level at a time: each branch but an OSD comes    *)
(* after the one above it, with only branches below that one between.      *)

Under(p, q) == Len(p) < Len(q) /\ \A k \in 1 .. Len(p): q[k] = p[k]
Follows(p, q) == Len(q) <= Len(p) + 1 /\ \A k \in 1 .. Len(q) - 1: q[k] = p[k]
Orderly(w, top) ==
    /\ Once(w) /\ \A k \in DOMAIN w: Under(top, w[k])
    /\ Len(w) > 0 => Len(w[1]) = Len(top) + 1
    /\ \A k \in 1 .. Len(w) - 1: Follows(w[k], w[k + 1])
Joined(a, p, b) == a \o (<<p>> \o b)

LEMMA JoinedAt ==
    ASSUME NEW D, NEW a \in Seq(D), NEW p \in D, NEW b \in Seq(D)
    PROVE  LET c == Joined(a, p, b)
           IN /\ c \in Seq(D) /\ Len(c) = Len(a) + Len(b) + 1
              /\ \A k \in 1 .. Len(a) + Len(b) + 1:
                    c[k] = IF k <= Len(a) THEN a[k] ELSE IF k = Len(a) + 1 THEN p ELSE b[k - Len(a) - 1]
              /\ ToSet(c) = ToSet(a) \cup {p} \cup ToSet(b)
  <1> DEFINE o == <<p>>
             m == o \o b
             c == a \o m
  <1>1. o \in Seq(D) /\ Len(o) = 1 /\ o[1] = p /\ ToSet(o) = {p}
    <2>1. o \in Seq(D) /\ Len(o) = 1 /\ o[1] = p /\ DOMAIN o = {1}
      OBVIOUS
    <2>2. QED BY <2>1 DEF ToSet
  <1>2. Len(a) \in Nat /\ Len(b) \in Nat
    OBVIOUS
  <1> HIDE DEF o
  <1>3. m \in Seq(D) /\ Len(m) = 1 + Len(b)
    BY <1>1, ConcatProperties
  <1>13. \A k \in 1 .. Len(o) + Len(b): m[k] = IF k <= Len(o) THEN o[k] ELSE b[k - Len(o)]
    BY <1>1, ConcatProperties
  <1>4. \A k \in 1 .. 1 + Len(b): m[k] = IF k <= 1 THEN o[k] ELSE b[k - 1]
    BY <1>1, <1>13
  <1>5. ToSet(m) = {p} \cup ToSet(b)
    BY <1>1, ToSetConcat
  <1> HIDE DEF m
  <1>6. c \in Seq(D) /\ Len(c) = Len(a) + Len(m)
    BY <1>3, ConcatProperties
  <1>7. \A k \in 1 .. Len(a) + Len(m): c[k] = IF k <= Len(a) THEN a[k] ELSE m[k - Len(a)]
    BY <1>3, ConcatProperties
  <1>8. ToSet(c) = ToSet(a) \cup ToSet(m)
    BY <1>3, ToSetConcat
  <1> HIDE DEF c
  <1>9. ASSUME NEW k \in 1 .. Len(a) + Len(b) + 1
        PROVE  c[k] = IF k <= Len(a) THEN a[k] ELSE IF k = Len(a) + 1 THEN p ELSE b[k - Len(a) - 1]
    <2>1. c[k] = IF k <= Len(a) THEN a[k] ELSE m[k - Len(a)]
      BY <1>2, <1>3, <1>7
    <2>2. CASE k <= Len(a)
      BY <2>1, <2>2
    <2>3. CASE k > Len(a)
      <3>1. k - Len(a) \in 1 .. 1 + Len(b) /\ (k - Len(a) <= 1 <=> k = Len(a) + 1) /\ ~(k <= Len(a))
        BY <1>2, <2>3
      <3>2. m[k - Len(a)] = IF k - Len(a) <= 1 THEN o[k - Len(a)] ELSE b[k - Len(a) - 1]
        BY <1>4, <3>1
      <3>3. k = Len(a) + 1 => k - Len(a) = 1
        BY <1>2
      <3>4. QED BY <1>1, <2>1, <3>1, <3>2, <3>3
    <2>4. QED BY <1>2, <2>2, <2>3
  <1>10. Len(c) = Len(a) + Len(b) + 1
    BY <1>2, <1>3, <1>6
  <1>11. c = Joined(a, p, b)
    BY DEF c, m, o, Joined
  <1>12. QED BY <1>5, <1>6, <1>8, <1>9, <1>10, <1>11

LEMMA SamePath ==
    ASSUME NEW p \in Seq(Labels), NEW q \in Seq(Labels), Len(p) = Len(q), NEW x,
           x = p \/ Under(p, x), x = q \/ Under(q, x)
    PROVE  p = q
  <1>1. ASSUME NEW k \in 1 .. Len(p) PROVE p[k] = q[k]
    BY DEF Under
  <1>2. Len(p) \in Nat /\ p = [k \in 1 .. Len(p) |-> p[k]] /\ q = [k \in 1 .. Len(q) |-> q[k]]
    OBVIOUS
  <1>3. QED BY <1>1, <1>2, Zenon

LEMMA OrderlyMore ==
    ASSUME NEW D \in SUBSET Seq(Labels), NEW top \in Seq(Labels),
           NEW a \in Seq(D), Orderly(a, top), NEW p \in D, Under(top, p), Len(p) = Len(top) + 1,
           NEW b \in Seq(D), Orderly(b, p), \A k \in DOMAIN a: a[k] # p /\ ~Under(p, a[k])
    PROVE  Orderly(Joined(a, p, b), top)
  <1> DEFINE c == Joined(a, p, b)
             m == Len(a)
             n == Len(b)
  <1>1. /\ m \in Nat /\ n \in Nat /\ DOMAIN a = 1 .. m /\ DOMAIN b = 1 .. n
        /\ \A k \in 1 .. m: a[k] \in D
        /\ \A k \in 1 .. n: b[k] \in D
    OBVIOUS
  <1>2. c \in Seq(D) /\ Len(c) = m + n + 1
    BY JoinedAt
  <1>3. \A k \in 1 .. m + n + 1: c[k] = IF k <= m THEN a[k] ELSE IF k = m + 1 THEN p ELSE b[k - m - 1]
    BY JoinedAt
  <1> HIDE DEF c, m, n
  <1>4. DOMAIN c = 1 .. m + n + 1
    BY <1>2
  <1>5. /\ \A k \in 1 .. m: c[k] = a[k] /\ Under(top, a[k])
        /\ c[m + 1] = p
        /\ \A k \in 1 .. n: c[m + 1 + k] = b[k] /\ Under(p, b[k])
    <2>1. \A k \in 1 .. m: c[k] = a[k] /\ Under(top, a[k])
      <3>1. \A k \in 1 .. m: Under(top, a[k])
        BY <1>1 DEF Orderly
      <3>2. \A k \in 1 .. m: k \in 1 .. m + n + 1 /\ k <= m
        BY <1>1
      <3>3. QED BY <1>3, <3>1, <3>2
    <2>2. c[m + 1] = p
      BY <1>1, <1>3
    <2>3. ASSUME NEW k \in 1 .. n PROVE c[m + 1 + k] = b[k] /\ Under(p, b[k])
      <3> DEFINE j == m + 1 + k
      <3>1. j \in 1 .. m + n + 1 /\ ~(j <= m) /\ j # m + 1 /\ j - m - 1 = k
        BY <1>1
      <3> HIDE DEF j
      <3>2. c[j] = b[j - m - 1]
        BY <1>3, <3>1
      <3>3. Under(p, b[k])
        BY <1>1 DEF Orderly
      <3>4. QED BY <3>1, <3>2, <3>3 DEF j
    <2>4. QED BY <2>1, <2>2, <2>3
  <1>6. \A k \in 1 .. m + n + 1: k \in 1 .. m \/ k = m + 1 \/ (\E j \in 1 .. n: k = m + 1 + j)
    <2>1. SUFFICES ASSUME NEW k \in 1 .. m + n + 1, k > m + 1 PROVE \E j \in 1 .. n: k = m + 1 + j
      BY <1>1
    <2>2. k - m - 1 \in 1 .. n /\ k = m + 1 + (k - m - 1)
      BY <1>1, <2>1
    <2>3. QED BY <2>2
  <1>7. Once(c)
    <2>1. SUFFICES ASSUME NEW i \in 1 .. m + n + 1, NEW j \in 1 .. m + n + 1, i < j PROVE c[i] # c[j]
      <3>1. ASSUME NEW i \in 1 .. m + n + 1, NEW j \in 1 .. m + n + 1, c[i] = c[j] PROVE i = j
        <4>1. i < j \/ j < i \/ i = j
          BY <1>1
        <4>2. QED BY <2>1, <3>1, <4>1
      <3>2. QED BY <1>4, <3>1 DEF Once
    <2>2. Once(a) /\ Once(b)
      BY DEF Orderly
    <2>3. CASE j \in 1 .. m
      <3>1. i \in 1 .. m
        BY <1>1, <2>1, <2>3
      <3>4. i # j
        BY <1>1, <2>1
      <3>2. a[i] # a[j]
        BY <1>1, <2>2, <2>3, <3>1, <3>4 DEF Once
      <3>3. QED BY <1>5, <2>3, <3>1, <3>2
    <2>4. CASE j = m + 1
      <3>1. i \in 1 .. m
        BY <1>1, <2>1, <2>4
      <3>2. QED BY <1>1, <1>5, <2>4, <3>1
    <2>5. ASSUME NEW k \in 1 .. n, j = m + 1 + k PROVE c[i] # c[j]
      <3>1. c[j] = b[k] /\ Under(p, b[k])
        BY <1>5, <2>5
      <3>2. CASE i \in 1 .. m
        <4>1. c[i] = a[i] /\ ~Under(p, a[i])
          BY <1>1, <1>5, <3>2
        <4>2. QED BY <3>1, <4>1
      <3>3. CASE i = m + 1
        <4>1. c[i] = p /\ Len(p) \in Nat
          BY <1>5, <3>3
        <4>2. QED BY <3>1, <4>1 DEF Under
      <3>4. ASSUME NEW l \in 1 .. n, i = m + 1 + l PROVE c[i] # c[j]
        <4>1. l # k
          BY <1>1, <2>1, <2>5, <3>4
        <4>2. b[l] # b[k]
          BY <1>1, <2>2, <4>1 DEF Once
        <4>3. c[i] = b[l]
          BY <1>5, <3>4
        <4>4. QED BY <3>1, <4>2, <4>3
      <3>5. QED BY <1>6, <3>2, <3>3, <3>4
    <2>6. QED BY <1>6, <2>3, <2>4, <2>5
  <1>8. Len(top) \in Nat /\ Len(p) \in Nat /\ (\A k \in 1 .. m: Len(a[k]) \in Nat) /\ (\A k \in 1 .. n: Len(b[k]) \in Nat)
    <2>1. \A x \in D: Len(x) \in Nat
      OBVIOUS
    <2>2. QED BY <1>1, <2>1
  <1>9. \A k \in 1 .. n: Under(top, b[k])
    BY <1>5, <1>8 DEF Under
  <1>10. ASSUME NEW k \in DOMAIN c PROVE Under(top, c[k])
    <2>1. CASE k \in 1 .. m
      BY <1>5, <2>1
    <2>2. CASE k = m + 1
      BY <1>1, <1>5, <2>2
    <2>3. ASSUME NEW j \in 1 .. n, k = m + 1 + j PROVE Under(top, c[k])
      BY <1>5, <1>9, <2>3
    <2>4. QED BY <1>4, <1>6, <2>1, <2>2, <2>3
  <1>11. Len(c[1]) = Len(top) + 1
    <2>1. CASE m = 0
      BY <1>1, <1>5, <2>1
    <2>2. CASE m # 0
      <3>1. m > 0 /\ 1 \in 1 .. m
        BY <1>1, <2>2
      <3>2. QED BY <1>5, <3>1 DEF Orderly, m
    <2>3. QED BY <2>1, <2>2
  <1>12. ASSUME NEW k \in 1 .. Len(c) - 1 PROVE Follows(c[k], c[k + 1])
    <2>1. k \in 1 .. m + n
      BY <1>1, <1>2
    <2>2. CASE k < m
      <3>1. k \in 1 .. m - 1 /\ k \in 1 .. m /\ k + 1 \in 1 .. m
        BY <1>1, <2>1, <2>2
      <3>2. Follows(a[k], a[k + 1])
        BY <3>1 DEF Orderly, m
      <3>3. QED BY <1>5, <3>1, <3>2
    <2>3. CASE k = m
      <3>1. k \in 1 .. m /\ c[k + 1] = p /\ c[k] = a[k] /\ Under(top, a[k])
        BY <1>1, <1>5, <2>1, <2>3
      <3>2. Len(p) <= Len(a[k]) + 1
        BY <1>8, <3>1 DEF Under
      <3>3. \A j \in 1 .. Len(p) - 1: p[j] = a[k][j]
        BY <1>8, <3>1 DEF Under
      <3>4. QED BY <3>1, <3>2, <3>3 DEF Follows
    <2>4. CASE k = m + 1
      <3>1. n > 0 /\ 1 \in 1 .. n /\ k + 1 = m + 1 + 1
        BY <1>1, <2>1, <2>4
      <3>2. c[k] = p /\ c[k + 1] = b[1] /\ Under(p, b[1]) /\ Len(b[1]) = Len(p) + 1
        BY <1>5, <2>4, <3>1 DEF Orderly, n
      <3>3. QED BY <1>8, <3>2 DEF Follows, Under
    <2>5. CASE k > m + 1
      <3> DEFINE j == k - m - 1
      <3>1. j \in 1 .. n - 1 /\ j \in 1 .. n /\ j + 1 \in 1 .. n /\ k = m + 1 + j /\ k + 1 = m + 1 + (j + 1)
        BY <1>1, <2>1, <2>5
      <3> HIDE DEF j
      <3>2. Follows(b[j], b[j + 1])
        BY <3>1 DEF Orderly, n
      <3>3. c[k] = b[j] /\ c[k + 1] = b[j + 1]
        BY <1>5, <3>1
      <3>4. QED BY <3>2, <3>3
    <2>6. QED BY <1>1, <2>1, <2>2, <2>3, <2>4, <2>5
  <1>13. QED BY <1>7, <1>10, <1>11, <1>12 DEF Orderly, c

WithBelow(set, below) == set \cup UNION {ToSet(below[p]): p \in set}
Walked(D, paths, below, top) ==
    /\ Orderly(Walk(paths, below), top)
    /\ ToSet(Walk(paths, below)) = WithBelow(ToSet(paths), below)

LEMMA WalkOrderly ==
    ASSUME NEW D \in SUBSET Seq(Labels), NEW top \in Seq(Labels), NEW paths \in Seq(D), Once(paths),
           \A i \in DOMAIN paths: Under(top, paths[i]) /\ Len(paths[i]) = Len(top) + 1,
           NEW below \in [D -> Seq(D)], \A i \in DOMAIN paths: Orderly(below[paths[i]], paths[i])
    PROVE  Walked(D, paths, below, top)
  <1> DEFINE n == Len(paths)
             blocks == Blocks(paths, below)
             First(k) == {paths[j]: j \in 1 .. k}
  <1>1. n \in Nat /\ DOMAIN paths = 1 .. n /\ (\A i \in 1 .. n: paths[i] \in D /\ below[paths[i]] \in Seq(D))
    OBVIOUS
  <1>2. blocks \in Seq(Seq(D)) /\ Len(blocks) = n /\ \A i \in 1 .. n: blocks[i] = <<paths[i]>> \o below[paths[i]]
    BY <1>1, BlockSeqs
  <1> HIDE DEF blocks
  <1>3. PICK acc: /\ acc[0] = <<>>
                  /\ \A k \in 1 .. Len(blocks): acc[k] = acc[k - 1] \o blocks[k]
                  /\ acc[Len(blocks)] = FlattenSeq(blocks)
                  /\ \A k \in 0 .. Len(blocks): acc[k] \in Seq(D)
    BY <1>2, Flatten
  <1> HIDE DEF n
  <1>4. \A k \in 1 .. n: acc[k] = Joined(acc[k - 1], paths[k], below[paths[k]])
    BY <1>2, <1>3 DEF Joined
  <1> DEFINE Good(k) == Orderly(acc[k], top) /\ ToSet(acc[k]) = WithBelow(First(k), below)
             T == {k \in Nat: k <= n => Good(k)}
  <1>5. 0 \in T
    <2>1. First(0) = {} /\ ToSet(<<>>) = {}
      BY DEF ToSet
    <2>2. Orderly(<<>>, top)
      BY DEF Orderly, Once
    <2>3. Good(0)
      BY <1>3, <2>1, <2>2 DEF WithBelow
    <2> HIDE DEF Good
    <2>4. QED BY <2>3
  <1>6. ASSUME NEW k \in Nat, k \in T PROVE k + 1 \in T
    <2>1. SUFFICES ASSUME k + 1 <= n PROVE Good(k + 1)
      OBVIOUS
    <2> DEFINE i == k + 1
               a == acc[k]
               p == paths[i]
               b == below[p]
    <2>2. i \in 1 .. n /\ i - 1 = k /\ k \in 0 .. n /\ Good(k)
      <3> HIDE DEF Good
      <3> QED BY <1>1, <1>6, <2>1
    <2>3. a \in Seq(D) /\ p \in D /\ b \in Seq(D) /\ acc[i] = Joined(a, p, b)
      BY <1>1, <1>2, <1>3, <1>4, <2>2
    <2>4. Under(top, p) /\ Len(p) = Len(top) + 1 /\ Orderly(b, p) /\ Orderly(a, top)
      BY <1>1, <2>2
    <2>5. ASSUME NEW j \in DOMAIN a PROVE a[j] # p /\ ~Under(p, a[j])
      <3>1. a[j] \in WithBelow(First(k), below)
        BY <2>2 DEF ToSet
      <3>2. PICK h \in 1 .. k: a[j] = paths[h] \/ a[j] \in ToSet(below[paths[h]])
        BY <3>1 DEF WithBelow
      <3>3. h \in 1 .. n /\ h # i
        BY <1>1, <2>2
      <3>4. a[j] = paths[h] \/ Under(paths[h], a[j])
        <4>1. CASE a[j] \in ToSet(below[paths[h]])
          <5>1. Orderly(below[paths[h]], paths[h])
            BY <1>1, <3>3
          <5>2. QED BY <4>1, <5>1 DEF Orderly, ToSet
        <4>2. QED BY <3>2, <4>1
      <3>5. paths[h] \in Seq(Labels) /\ p \in Seq(Labels) /\ Len(paths[h]) = Len(p)
        BY <1>1, <2>2, <2>4, <3>3
      <3>6. paths[h] # p
        BY <1>1, <2>2, <3>3 DEF Once
      <3> DEFINE q == paths[h]
                 x == a[j]
      <3>7. q \in Seq(Labels) /\ p \in Seq(Labels) /\ Len(q) = Len(p) /\ (x = q \/ Under(q, x)) /\ q # p
        BY <3>4, <3>5, <3>6
      <3> HIDE DEF p, q, x
      <3>8. ~(x = p \/ Under(p, x))
        BY <3>7, SamePath
      <3>9. QED BY <3>8 DEF x
    <2>6. Orderly(acc[i], top) /\ ToSet(acc[i]) = ToSet(a) \cup {p} \cup ToSet(b)
      <3> HIDE DEF a, p, b, i
      <3>1. Orderly(Joined(a, p, b), top)
        BY <2>3, <2>4, <2>5, OrderlyMore
      <3>2. ToSet(Joined(a, p, b)) = ToSet(a) \cup {p} \cup ToSet(b)
        BY <2>3, JoinedAt
      <3>3. QED BY <2>3, <3>1, <3>2
    <2>7. First(i) = First(k) \cup {p}
      <3>1. 1 .. i = (1 .. k) \cup {i}
        OBVIOUS
      <3>2. QED BY <3>1
    <2>8. WithBelow(First(i), below) = WithBelow(First(k), below) \cup {p} \cup ToSet(b)
      <3> HIDE DEF First, p, i
      <3> QED BY <2>7 DEF WithBelow
    <2>9. QED BY <2>2, <2>6, <2>8
  <1> HIDE DEF T, Good
  <1>7. n \in T
    BY <1>1, <1>5, <1>6, Induct
  <1>8. Good(n) /\ First(n) = ToSet(paths)
    BY <1>1, <1>7 DEF T, ToSet
  <1>9. acc[n] = Walk(paths, below)
    BY <1>2, <1>3 DEF Walk, blocks
  <1> HIDE DEF First
  <1>10. QED BY <1>8, <1>9 DEF Good, Walked

LEMMA TreePaths ==
    ASSUME NEW tree, Sound(tree)
    PROVE  DOMAIN tree \in SUBSET Seq(Labels) /\ \A p \in DOMAIN tree: Len(p) \in 1 .. 3 /\ p \in Seq(Labels)
  <1>1. SUFFICES ASSUME NEW p \in DOMAIN tree PROVE p \in Seq(Labels) /\ Len(p) \in 1 .. 3
    OBVIOUS
  <1>2. PICK o \in Labels, g \in Labels, b \in Labels: p = <<o>> \/ p = <<o, g>> \/ p = <<o, g, b>>
    BY DEF Sound, IsPath
  <1>3. CASE p = <<o>>
    BY <1>3
  <1>4. CASE p = <<o, g>>
    BY <1>4
  <1>5. CASE p = <<o, g, b>>
    BY <1>5
  <1>6. QED BY <1>2, <1>3, <1>4, <1>5

LEMMA ChildUnder ==
    ASSUME NEW tree, Sound(tree), NEW path \in Seq(Labels), NEW p \in Children(tree, path)
    PROVE  Under(path, p) /\ Len(p) = Len(path) + 1
  <1>1. Len(p) = Len(path) + 1 /\ Len(path) \in Nat
    BY ChildOf
  <1>2. \A k \in 1 .. Len(path): p[k] = path[k]
    <2>1. path = <<>> \/ (\E a: path = <<a>>) \/ (\E a, b: path = <<a, b>>)
      BY ChildOf
    <2>2. CASE path = <<>>
      BY <2>2
    <2>3. ASSUME NEW a, path = <<a>> PROVE \A k \in 1 .. Len(path): p[k] = path[k]
      <3>1. p = <<a, Last(p)>>
        BY <2>3, ChildOf
      <3>2. Len(path) = 1 /\ p[1] = a /\ path[1] = a
        BY <2>3, <3>1
      <3>3. QED BY <3>2
    <2>4. ASSUME NEW a, NEW b, path = <<a, b>> PROVE \A k \in 1 .. Len(path): p[k] = path[k]
      <3>1. p = <<a, b, Last(p)>>
        BY <2>4, ChildOf
      <3>2. Len(path) = 2 /\ p[1] = a /\ path[1] = a /\ p[2] = b /\ path[2] = b
        BY <2>4, <3>1
      <3>3. QED BY <3>2
    <2>5. QED BY <2>1, <2>2, <2>3, <2>4
  <1>3. QED BY <1>1, <1>2 DEF Under

LevelShown(tree, path, metric, sort, limit, below) ==
    LET r == ranked(tree, path, metric, sort, limit)
    IN Orderly(Walk(r, below), path) /\ ToSet(Walk(r, below)) = WithBelow(ToSet(r), below)

LEMMA LevelOrderly ==
    ASSUME NEW tree, Sound(tree), NEW path \in Seq(Labels), NEW metric, NEW sort \in {"descending", "ascending"},
           NEW limit \in Nat, NEW below \in [DOMAIN tree -> Seq(DOMAIN tree)],
           \A p \in Children(tree, path): Orderly(below[p], p)
    PROVE  LevelShown(tree, path, metric, sort, limit, below)
  <1> DEFINE D == DOMAIN tree
             C == Children(tree, path)
             r == ranked(tree, path, metric, sort, limit)
  <1>1. r \in Seq(C) /\ Once(r)
    BY RankedChildren
  <1>2. C \subseteq D
    BY DEF Children
  <1>3. \A p \in C: Under(path, p) /\ Len(p) = Len(path) + 1
    BY ChildUnder
  <1>4. D \in SUBSET Seq(Labels)
    BY TreePaths
  <1>5. below \in [D -> Seq(D)]
    OBVIOUS
  <1> HIDE DEF C, D, r
  <1>6. r \in Seq(D) /\ \A i \in DOMAIN r: r[i] \in C
    BY <1>1, <1>2
  <1>7. \A i \in DOMAIN r: Orderly(below[r[i]], r[i]) /\ Under(path, r[i]) /\ Len(r[i]) = Len(path) + 1
    BY <1>3, <1>6 DEF C
  <1>8. Walked(D, r, below, path)
    BY <1>1, <1>4, <1>5, <1>6, <1>7, WalkOrderly
  <1>9. QED BY <1>8 DEF r, Walked, LevelShown

ShownOf(tree, metric, sort) ==
    LET Top(path, limit) == ToSet(ranked(tree, path, metric, sort, limit))
        osds == Top(<<>>, MAX_OSDS)
        pgs == UNION {Top(p, MAX_CHILDREN): p \in osds}
    IN osds \cup pgs \cup UNION {Top(p, MAX_CHILDREN): p \in pgs}

LEMMA WalkShown ==
    ASSUME NEW tree, Sound(tree), NEW metric, NEW sort \in {"descending", "ascending"}
    PROVE  /\ Orderly(WalkOf(tree, metric, sort), <<>>)
           /\ ToSet(WalkOf(tree, metric, sort)) = ShownOf(tree, metric, sort)
  <1> DEFINE D == DOMAIN tree
             Few(p) == ranked(tree, p, metric, sort, MAX_CHILDREN)
             top == ranked(tree, <<>>, metric, sort, MAX_OSDS)
             none == NoneBelow(tree)
             objects == ObjectsBelow(tree, metric, sort)
             pgs == PgsBelow(tree, metric, sort)
  <1>1. MAX_OSDS \in Nat /\ MAX_CHILDREN \in Nat
    BY FlowAssumption
  <1>2. none \in [D -> Seq(D)] /\ \A p \in D: none[p] = <<>>
    BY DEF NoneBelow
  <1>3. objects \in [D -> Seq(D)] /\ pgs \in [D -> Seq(D)]
    BY FlattenWalk
  <1>4. \A p \in D: objects[p] = Walk(Few(p), none) /\ pgs[p] = Walk(Few(p), objects)
    BY DEF ObjectsBelow, PgsBelow, Below
  <1>5. WalkOf(tree, metric, sort) = Walk(top, pgs)
    BY DEF WalkOf
  <1>6. (\A p \in D: p \in Seq(Labels)) /\ <<>> \in Seq(Labels)
    BY TreePaths
  <1>7. \A p: Children(tree, p) \subseteq D
    BY DEF Children
  <1>8. ASSUME NEW p PROVE ToSet(Few(p)) \subseteq D
    <2>1. Few(p) \in Seq(D)
      BY RankedSeqs
    <2>2. QED BY <2>1 DEF ToSet
  <1>9. ToSet(top) \subseteq D
    <2>1. top \in Seq(D)
      BY RankedSeqs
    <2>2. QED BY <2>1 DEF ToSet
  <1> HIDE DEF none, objects, pgs
  <1>10. \A p \in D: Orderly(none[p], p) /\ ToSet(none[p]) = {}
    BY <1>2 DEF Orderly, Once, ToSet
  <1>11. ASSUME NEW p \in D PROVE Orderly(objects[p], p) /\ ToSet(objects[p]) = ToSet(Few(p))
    <2>4. \A q \in Children(tree, p): Orderly(none[q], q)
      BY <1>7, <1>10
    <2>5. LevelShown(tree, p, metric, sort, MAX_CHILDREN, none)
      BY <1>1, <1>2, <1>6, <2>4, LevelOrderly
    <2>1. Orderly(Walk(Few(p), none), p) /\ ToSet(Walk(Few(p), none)) = WithBelow(ToSet(Few(p)), none)
      BY <2>5 DEF LevelShown
    <2>2. WithBelow(ToSet(Few(p)), none) = ToSet(Few(p))
      BY <1>8, <1>10 DEF WithBelow
    <2>3. QED BY <1>4, <2>1, <2>2
  <1>12. ASSUME NEW p \in D
         PROVE  Orderly(pgs[p], p) /\ ToSet(pgs[p]) = ToSet(Few(p)) \cup UNION {ToSet(Few(q)): q \in ToSet(Few(p))}
    <2>5. \A q \in Children(tree, p): Orderly(objects[q], q)
      BY <1>7, <1>11
    <2>6. LevelShown(tree, p, metric, sort, MAX_CHILDREN, objects)
      BY <1>1, <1>3, <1>6, <2>5, LevelOrderly
    <2>1. Orderly(Walk(Few(p), objects), p) /\ ToSet(Walk(Few(p), objects)) = WithBelow(ToSet(Few(p)), objects)
      BY <2>6 DEF LevelShown
    <2>2. \A q \in ToSet(Few(p)): ToSet(objects[q]) = ToSet(Few(q))
      BY <1>8, <1>11
    <2> HIDE DEF Few
    <2>3. {ToSet(objects[q]): q \in ToSet(Few(p))} = {ToSet(Few(q)): q \in ToSet(Few(p))}
      BY <2>2
    <2>4. QED BY <1>4, <2>1, <2>3 DEF WithBelow
  <1>13. Orderly(Walk(top, pgs), <<>>) /\ ToSet(Walk(top, pgs)) = WithBelow(ToSet(top), pgs)
    <2>1. \A q \in Children(tree, <<>>): Orderly(pgs[q], q)
      BY <1>7, <1>12
    <2>2. LevelShown(tree, <<>>, metric, sort, MAX_OSDS, pgs)
      BY <1>1, <1>3, <1>6, <2>1, LevelOrderly
    <2>3. QED BY <2>2 DEF LevelShown
  <1>14. WithBelow(ToSet(top), pgs) = ShownOf(tree, metric, sort)
    <2> DEFINE osds == ToSet(top)
               Top(p) == ToSet(Few(p))
               some == UNION {Top(p): p \in osds}
    <2>1. ShownOf(tree, metric, sort) = osds \cup some \cup UNION {Top(p): p \in some}
      BY DEF ShownOf
    <2>2. \A p \in osds: ToSet(pgs[p]) = Top(p) \cup UNION {Top(q): q \in Top(p)}
      BY <1>9, <1>12
    <2> HIDE DEF osds, Top
    <2>3. UNION {ToSet(pgs[p]): p \in osds} = some \cup UNION {Top(p): p \in some}
      <3>1. ASSUME NEW x PROVE x \in UNION {ToSet(pgs[p]): p \in osds} <=> x \in some \/ x \in UNION {Top(p): p \in some}
        <4>1. x \in UNION {ToSet(pgs[p]): p \in osds} <=> \E p \in osds: x \in Top(p) \/ \E q \in Top(p): x \in Top(q)
          BY <2>2
        <4>2. x \in UNION {Top(p): p \in some} <=> \E p \in osds: \E q \in Top(p): x \in Top(q)
          OBVIOUS
        <4>3. x \in some <=> \E p \in osds: x \in Top(p)
          OBVIOUS
        <4>4. QED BY <4>1, <4>2, <4>3
      <3>2. QED BY <3>1
    <2>4. QED BY <2>1, <2>3 DEF WithBelow, osds
  <1>15. QED BY <1>5, <1>13, <1>14

-----------------------------------------------------------------------------
(* The totals add up the OSD rows, which are all OSDs when none is cut.    *)

TotalsStep(totals, row) == IF row.depth = 0 THEN merge(totals, row.stats) ELSE totals
InTotals == INSTANCE FoldTheorems WITH Step <- TotalsStep

HeadsOf(w, k) == {w[j]: j \in {i \in 1 .. k: Len(w[i]) = 1}}

LEMMA TotalsSum ==
    ASSUME NEW tree, Sound(tree), NEW w \in Seq(DOMAIN tree), Once(w)
    PROVE  flow_totals(MapBy(RowsOf(tree), w)).ops = SumOps(tree, HeadsOf(w, Len(w)))
  <1> DEFINE D == DOMAIN tree
             n == Len(w)
             rows == MapBy(RowsOf(tree), w)
             R == {RowsOf(tree)[p]: p \in D}
             H(k) == HeadsOf(w, k)
  <1>1. flow_totals(rows) = InTotals!Folded(Zero, rows)
    BY DEF flow_totals, InTotals!Folded, FoldLeft, MapThenFoldSet, InTotals!MapThenFoldSet, Max, InTotals!Greatest, TotalsStep
  <1>2. n \in Nat /\ DOMAIN w = 1 .. n /\ \A k \in 1 .. n: w[k] \in D
    OBVIOUS
  <1>3. rows \in Seq(R) /\ Len(rows) = n /\ \A k \in 1 .. n: rows[k] = RowAt(tree, w[k])
    BY <1>2 DEF MapBy, RowsOf
  <1> HIDE DEF rows, R
  <1>4. PICK acc: /\ acc[0] = Zero
                  /\ \A k \in 1 .. Len(rows): acc[k] = TotalsStep(acc[k - 1], rows[k])
                  /\ acc[Len(rows)] = InTotals!Folded(Zero, rows)
    BY <1>3, InTotals!Fold
  <1> HIDE DEF n
  <1>5. IsFiniteSet(D) /\ (\A p \in D: Len(p) \in 1 .. 3 /\ tree[p].stats.ops \in Nat)
    <2>1. \A p \in D: IsStats(tree[p].stats)
      BY DEF Sound
    <2>2. QED BY <2>1, TreePaths DEF Sound, IsStats
  <1>6. ASSUME NEW k \in Nat, k <= n PROVE IsFiniteSet(H(k)) /\ CountsOps(tree, H(k)) /\ SumOps(tree, H(k)) \in Nat
    <2>1. H(k) \in SUBSET D
      BY <1>2, <1>6 DEF HeadsOf
    <2> HIDE DEF H
    <2>2. IsFiniteSet(H(k)) /\ CountsOps(tree, H(k))
      BY <1>5, <2>1, FS_Subset DEF CountsOps
    <2>3. QED BY <2>2, SumNat
  <1> DEFINE Good(k) == acc[k].ops = SumOps(tree, H(k))
             T == {k \in Nat: k <= n => Good(k)}
  <1>7. 0 \in T
    <2>1. H(0) = {}
      BY DEF HeadsOf
    <2> HIDE DEF H
    <2>2. SumOps(tree, H(0)) = 0
      BY <2>1, SumNone
    <2>3. QED BY <1>4, <2>2 DEF Zero
  <1>8. ASSUME NEW k \in Nat, k \in T PROVE k + 1 \in T
    <2>1. SUFFICES ASSUME k + 1 <= n PROVE Good(k + 1)
      OBVIOUS
    <2> DEFINE i == k + 1
               p == w[i]
    <2>2. i \in 1 .. n /\ i - 1 = k /\ k <= n /\ i \in Nat /\ i <= n /\ 1 .. i = (1 .. k) \cup {i} /\ \A j \in 1 .. k: j \in 1 .. n /\ j # i
      BY <1>2, <2>1
    <2>3. acc[k].ops = SumOps(tree, H(k))
      BY <1>8, <2>2
    <2>4. p \in D /\ rows[i] = RowAt(tree, p) /\ acc[i] = TotalsStep(acc[k], rows[i])
      BY <1>2, <1>3, <1>4, <2>2
    <2> HIDE DEF i
    <2>5. CASE Len(p) = 1
      <3>1. acc[i].ops = acc[k].ops + tree[p].stats.ops
        BY <2>4, <2>5 DEF TotalsStep, RowAt, merge
      <3>2. H(i) = H(k) \cup {p}
        BY <2>2, <2>5 DEF HeadsOf
      <3>3. p \notin H(k)
        BY <1>2, <2>2 DEF HeadsOf, Once
      <3>4. p \in H(i) /\ H(i) \ {p} = H(k)
        BY <3>2, <3>3
      <3>5. IsFiniteSet(H(i)) /\ CountsOps(tree, H(i)) /\ SumOps(tree, H(k)) \in Nat
        BY <1>6, <2>2
      <3> HIDE DEF H, p
      <3>6. SumOps(tree, H(i)) = tree[p].stats.ops + SumOps(tree, H(i) \ {p})
        BY <3>4, <3>5, SumFirst
      <3>7. tree[p].stats.ops \in Nat
        BY <1>5, <2>4
      <3>10. SumOps(tree, H(i)) = tree[p].stats.ops + SumOps(tree, H(k))
        BY <3>4, <3>6
      <3>11. acc[i].ops = SumOps(tree, H(k)) + tree[p].stats.ops
        BY <2>3, <3>1
      <3>8. acc[i].ops = SumOps(tree, H(i))
        BY <3>5, <3>7, <3>10, <3>11
      <3>9. QED BY <3>8 DEF i
    <2>6. CASE Len(p) # 1
      <3>1. Len(p) - 1 # 0
        BY <1>5, <2>4, <2>6
      <3>2. acc[i] = acc[k]
        BY <2>4, <3>1 DEF TotalsStep, RowAt
      <3>3. H(i) = H(k)
        BY <2>2, <2>6 DEF HeadsOf
      <3>4. QED BY <2>3, <3>2, <3>3 DEF i
    <2>7. QED BY <2>5, <2>6
  <1> HIDE DEF T
  <1>9. n \in T
    BY <1>2, <1>7, <1>8, Induct
  <1>10. acc[n].ops = SumOps(tree, H(n))
    BY <1>2, <1>9 DEF T
  <1>11. QED BY <1>1, <1>3, <1>4, <1>10 DEF n, rows

LEMMA ShownHeads ==
    ASSUME NEW tree, Sound(tree), NEW metric, NEW sort \in {"descending", "ascending"},
           Cardinality(Children(tree, <<>>)) <= MAX_OSDS
    PROVE  HeadsOf(WalkOf(tree, metric, sort), Len(WalkOf(tree, metric, sort))) = Children(tree, <<>>)
  <1> DEFINE w == WalkOf(tree, metric, sort)
             C == Children(tree, <<>>)
             Top(p, limit) == ToSet(ranked(tree, p, metric, sort, limit))
             osds == Top(<<>>, MAX_OSDS)
             pgs == UNION {Top(p, MAX_CHILDREN): p \in osds}
             objects == UNION {Top(p, MAX_CHILDREN): p \in pgs}
  <1>1. MAX_OSDS \in Nat /\ MAX_CHILDREN \in Nat
    BY FlowAssumption
  <1>2. w \in Seq(DOMAIN tree) /\ ToSet(w) = osds \cup pgs \cup objects
    <2>1. ToSet(w) = ShownOf(tree, metric, sort)
      BY WalkShown
    <2>2. w \in Seq(DOMAIN tree)
      BY FlattenWalk
    <2>3. ShownOf(tree, metric, sort) = osds \cup pgs \cup objects
      BY DEF ShownOf
    <2>4. QED BY <2>1, <2>2, <2>3
  <1>3. osds = C
    BY <1>1, RankedChildren
  <1>4. ASSUME NEW p, NEW x \in Top(p, MAX_CHILDREN) PROVE x \in Children(tree, p)
    <2>1. ranked(tree, p, metric, sort, MAX_CHILDREN) \in Seq(Children(tree, p))
      BY <1>1, RankedChildren
    <2>2. QED BY <1>4, <2>1 DEF ToSet
  <1>5. \A x \in C: Len(x) = 1
    <2>1. <<>> \in Seq(Labels) /\ Len(<<>>) = 0
      OBVIOUS
    <2>2. \A x \in C: Len(x) = Len(<<>>) + 1
      BY <2>1, ChildUnder
    <2>3. QED BY <2>1, <2>2
  <1> HIDE DEF w, Top
  <1>6. ASSUME NEW x \in pgs PROVE Len(x) = 2 /\ x \in Seq(Labels)
    <2>1. PICK p \in C: x \in Children(tree, p)
      BY <1>3, <1>4
    <2>2. p \in DOMAIN tree /\ x \in DOMAIN tree
      BY <2>1 DEF Children
    <2>3. p \in Seq(Labels) /\ x \in Seq(Labels)
      BY <2>2, TreePaths
    <2>4. Len(x) = Len(p) + 1
      BY <2>1, <2>3, ChildUnder
    <2>5. Len(p) = 1
      BY <1>5, <2>1
    <2>6. QED BY <2>3, <2>4, <2>5
  <1>7. ASSUME NEW x \in objects PROVE Len(x) = 3
    <2>1. PICK p \in pgs: x \in Children(tree, p)
      BY <1>4
    <2>2. Len(p) = 2 /\ p \in Seq(Labels)
      BY <1>6, <2>1
    <2>3. Len(x) = Len(p) + 1
      BY <2>1, <2>2, ChildUnder
    <2>4. QED BY <2>2, <2>3
  <1> HIDE DEF C, osds, pgs, objects
  <1>8. \A x \in ToSet(w): Len(x) = 1 <=> x \in C
    BY <1>2, <1>3, <1>5, <1>6, <1>7
  <1>9. DOMAIN w = 1 .. Len(w) /\ ToSet(w) = {w[j]: j \in 1 .. Len(w)}
    BY <1>2 DEF ToSet
  <1>10. HeadsOf(w, Len(w)) = {x \in ToSet(w): Len(x) = 1}
    BY <1>9 DEF HeadsOf
  <1>11. HeadsOf(w, Len(w)) = C
    BY <1>2, <1>3, <1>8, <1>10
  <1>12. QED BY <1>11 DEF w, C

LEMMA LevelsTrue == LinesInv /\ SortOK => LevelsAgree
  <1> DEFINE rados == radostrace_events
             osds == osdtrace_events
             count == Len(CountedRados(rados)) + Len(CountedOsds(osds))
             tree == Roots(rados, osds)
  <1>1. SUFFICES ASSUME LinesInv, SortOK, rados = <<>> \/ osds = <<>>
                 PROVE  /\ \A p \in DOMAIN tree: Children(tree, p) # {} => tree[p].stats.ops = SumOps(tree, Children(tree, p))
                        /\ Cardinality(Children(tree, <<>>)) <= MAX_OSDS => flow_totals(FlowTree.rows).ops = count
    BY DEF LevelsAgree, Tree, CountedRados, CountedOsds
  <1>2. rados \in Seq(RadosLines) /\ osds \in Seq(OsdLines)
    BY <1>1 DEF LinesInv
  <1>3. FlowTree.rows = flatten(tree, flow_metric, flow_sort)
    BY DEF FlowTree, build_flow_tree
  <1>4. Sound(tree)
    BY <1>2, RootsSound
  <1>5. PICK depth \in Nat: Levels(tree, depth, count)
    BY <1>1, <1>2, RootsLevels
  <1> HIDE DEF tree, count, rados, osds
  <1>6. ASSUME NEW p \in DOMAIN tree, Children(tree, p) # {} PROVE tree[p].stats.ops = SumOps(tree, Children(tree, p))
    <2>1. PICK c: c \in Children(tree, p)
      BY <1>6
    <2>2. p \in Seq(Labels) /\ Len(p) \in 1 .. 3 /\ c \in DOMAIN tree
      BY <1>4, <2>1, TreePaths DEF Children
    <2>3. Len(c) = Len(p) + 1
      BY <1>4, <2>1, <2>2, ChildUnder
    <2>4. Len(c) \in 1 .. depth
      BY <1>5, <2>2 DEF Levels
    <2>8. Len(p) \in Nat /\ Len(p) < depth
      BY <2>2, <2>3, <2>4
    <2>9. (\A l \in 1 .. 3: l # 0) /\ Len(<<>>) = 0
      OBVIOUS
    <2>10. p # <<>>
      BY <2>2, <2>9, Zenon
    <2>5. Len(p) < depth /\ p # <<>>
      BY <2>8, <2>10
    <2>6. StatsAt(tree, p).ops = SumBelow(tree, p)
      BY <1>5, <2>5, Zenon DEF Levels
    <2>7. QED BY <1>6, <2>6 DEF StatsAt, Found, SumBelow
  <1>7. ASSUME Cardinality(Children(tree, <<>>)) <= MAX_OSDS PROVE flow_totals(FlowTree.rows).ops = count
    <2> DEFINE w == WalkOf(tree, flow_metric, flow_sort)
    <2>1. flow_sort \in {"descending", "ascending"}
      BY <1>1 DEF SortOK
    <2>2. FlowTree.rows = MapBy(RowsOf(tree), w) /\ w \in Seq(DOMAIN tree)
      BY <1>3, <1>4, <2>1, FlattenWalk
    <2>3. Once(w)
      BY <1>4, <2>1, WalkShown DEF Orderly
    <2>4. HeadsOf(w, Len(w)) = Children(tree, <<>>)
      BY <1>4, <1>7, <2>1, ShownHeads
    <2> HIDE DEF w
    <2>5. flow_totals(FlowTree.rows).ops = SumOps(tree, Children(tree, <<>>))
      BY <1>4, <2>2, <2>3, <2>4, TotalsSum
    <2>6. QED BY <1>5, <2>5 DEF Levels, SumBelow
  <1>8. QED BY <1>6, <1>7

-----------------------------------------------------------------------------
(* The single pass over the rows: at each row it holds the OSD and the PG  *)
(* that the row is below.                                                  *)

HeadOf(p) == <<p[1]>>
PairOf(p) == <<p[1], p[2]>>
LaneOK(lane, tree, p) ==
    /\ lane = [osd |-> lane.osd, pg |-> lane.pg]
    /\ lane.osd = RowAt(tree, HeadOf(p))
    /\ Len(p) > 1 => lane.pg = RowAt(tree, PairOf(p))

LEMMA PathShape ==
    ASSUME NEW tree, Sound(tree), NEW p \in DOMAIN tree
    PROVE  /\ Len(p) \in 1 .. 3
           /\ Len(p) = 1 => p = HeadOf(p) /\ Last(p) = p[1]
           /\ Len(p) = 2 => p = PairOf(p) /\ Last(p) = p[2] /\ Front(p) = HeadOf(p)
           /\ Len(p) = 3 => p = <<p[1], p[2], p[3]>> /\ Last(p) = p[3] /\ Front(p) = PairOf(p)
  <1>1. PICK o \in Labels, g \in Labels, b \in Labels: p = <<o>> \/ p = <<o, g>> \/ p = <<o, g, b>>
    BY DEF Sound, IsPath
  <1>2. CASE p = <<o>>
    <2>1. Len(p) = 1 /\ Last(p) = o /\ p[1] = o
      BY <1>2, FrontOne
    <2>2. QED BY <1>2, <2>1 DEF HeadOf
  <1>3. CASE p = <<o, g>>
    <2>1. Len(p) = 2 /\ Last(p) = g /\ p[1] = o /\ p[2] = g /\ Front(p) = <<o>>
      BY <1>3, FrontTwo
    <2>2. QED BY <1>3, <2>1 DEF HeadOf, PairOf
  <1>4. CASE p = <<o, g, b>>
    <2>1. Len(p) = 3 /\ Last(p) = b /\ p[1] = o /\ p[2] = g /\ p[3] = b /\ Front(p) = <<o, g>>
      BY <1>4, FrontThree
    <2>2. QED BY <1>4, <2>1 DEF PairOf
  <1>5. QED BY <1>1, <1>2, <1>3, <1>4

LEMMA LaneFirst ==
    ASSUME NEW tree, Sound(tree), NEW p \in DOMAIN tree, Len(p) = 1,
           NEW lane, lane = [osd |-> lane.osd, pg |-> lane.pg]
    PROVE  LaneOK(Lane(lane, RowAt(tree, p)), tree, p)
  <1> DEFINE row == RowAt(tree, p)
             new == Lane(lane, row)
  <1>1. p = HeadOf(p)
    BY PathShape
  <1>2. row.depth = 0
    BY DEF RowAt
  <1>3. row = RowAt(tree, HeadOf(p))
    BY <1>1
  <1> HIDE DEF row
  <1>4. new = [osd |-> row, pg |-> lane.pg]
    BY <1>2 DEF Lane
  <1> HIDE DEF new
  <1>5. LaneOK(new, tree, p)
    BY <1>3, <1>4 DEF LaneOK
  <1>6. QED BY <1>5 DEF new, row

LEMMA LaneNext ==
    ASSUME NEW tree, Sound(tree), NEW p \in DOMAIN tree, NEW q \in DOMAIN tree, Follows(q, p),
           NEW lane, LaneOK(lane, tree, q)
    PROVE  LaneOK(Lane(lane, RowAt(tree, p)), tree, p)
  <1> DEFINE row == RowAt(tree, p)
             new == Lane(lane, row)
  <1>0. lane = [osd |-> lane.osd, pg |-> lane.pg] /\ row.depth = Len(p) - 1
    BY DEF LaneOK, RowAt
  <1>1. Len(p) \in 1 .. 3 /\ Len(q) \in 1 .. 3
    BY PathShape
  <1>2. CASE Len(p) = 1
    BY <1>0, <1>2, LaneFirst
  <1>3. CASE Len(p) = 2
    <2>1. p = PairOf(p)
      BY <1>3, PathShape
    <2>2. q[1] = p[1]
      BY <1>3 DEF Follows
    <2>3. HeadOf(q) = HeadOf(p)
      BY <2>2 DEF HeadOf
    <2>4. row = RowAt(tree, PairOf(p)) /\ lane.osd = RowAt(tree, HeadOf(p)) /\ row.depth = 1
      BY <1>0, <1>3, <2>1, <2>3 DEF LaneOK
    <2> HIDE DEF row
    <2>8. lane = [osd |-> lane.osd, pg |-> lane.pg] /\ row.depth = 1
      BY <1>0, <2>4
    <2>5. new = [osd |-> lane.osd, pg |-> row]
      BY <2>8 DEF Lane
    <2> HIDE DEF new
    <2>6. LaneOK(new, tree, p)
      BY <2>4, <2>5 DEF LaneOK
    <2>7. QED BY <2>6 DEF new, row
  <1>4. CASE Len(p) = 3
    <2>1. Len(q) > 1 /\ q[1] = p[1] /\ q[2] = p[2]
      BY <1>1, <1>4 DEF Follows
    <2>2. HeadOf(q) = HeadOf(p) /\ PairOf(q) = PairOf(p)
      BY <2>1 DEF HeadOf, PairOf
    <2>3. row.depth = 2
      BY <1>0, <1>4
    <2> HIDE DEF row
    <2>4. new = lane
      BY <2>3 DEF Lane
    <2>5. LaneOK(lane, tree, p)
      BY <2>1, <2>2 DEF LaneOK
    <2>6. QED BY <2>4, <2>5 DEF row
  <1>5. QED BY <1>1, <1>2, <1>3, <1>4

(* A PG with objects on the screen is followed by one.                     *)
LEMMA NextBelow ==
    ASSUME NEW tree, Sound(tree), NEW w \in Seq(DOMAIN tree), Orderly(w, <<>>)
    PROVE  \A m \in 1 .. Len(w): Len(w[m]) = 3 =>
              \E j \in 1 .. Len(w) - 1: w[j] = PairOf(w[m]) /\ Len(w[j + 1]) = 3
  <1> DEFINE n == Len(w)
             Good(m) == Len(w[m]) = 3 => \E j \in 1 .. n - 1: w[j] = PairOf(w[m]) /\ Len(w[j + 1]) = 3
             T == {m \in Nat: m \in 1 .. n => Good(m)}
  <1>1. n \in Nat /\ \A k \in 1 .. n: w[k] \in DOMAIN tree
    OBVIOUS
  <1>2. \A k \in 1 .. n - 1: Follows(w[k], w[k + 1])
    BY DEF Orderly
  <1>3. n > 0 => Len(w[1]) = 1
    <2>1. Len(<<>>) = 0
      OBVIOUS
    <2>2. QED BY <2>1 DEF Orderly
  <1> HIDE DEF n
  <1>4. 0 \in T
    BY <1>1
  <1>5. ASSUME NEW k \in Nat, k \in T PROVE k + 1 \in T
    <2> DEFINE i == k + 1
    <2>1. SUFFICES ASSUME i \in 1 .. n, Len(w[i]) = 3 PROVE \E j \in 1 .. n - 1: w[j] = PairOf(w[i]) /\ Len(w[j + 1]) = 3
      OBVIOUS
    <2>2. k # 0
      <3>1. CASE k = 0
        <4>1. i = 1 /\ n > 0
          BY <1>1, <2>1, <3>1
        <4>2. Len(w[1]) = 1
          BY <1>3, <4>1
        <4>3. w[i] = w[1]
          BY <4>1
        <4>4. Len(w[1]) = 3
          BY <2>1, <4>3, Zenon
        <4>5. QED BY <4>2, <4>4
      <3>2. QED BY <3>1
    <2>3. k \in 1 .. n - 1 /\ k \in 1 .. n /\ i \in Nat
      BY <1>1, <2>1, <2>2
    <2>4. Follows(w[k], w[i]) /\ w[k] \in DOMAIN tree /\ w[i] \in DOMAIN tree
      BY <1>1, <1>2, <2>1, <2>3
    <2> HIDE DEF i
    <2>5. Len(w[k]) \in 1 .. 3
      BY <2>4, PathShape
    <2>6. Len(w[k]) > 1 /\ w[k][1] = w[i][1] /\ w[k][2] = w[i][2]
      BY <2>1, <2>4, <2>5 DEF Follows
    <2>7. PairOf(w[k]) = PairOf(w[i])
      BY <2>6 DEF PairOf
    <2>8. CASE Len(w[k]) = 2
      <3>1. w[k] = PairOf(w[k])
        BY <2>4, <2>8, PathShape
      <3>2. QED BY <2>1, <2>3, <2>7, <3>1 DEF i
    <2>9. CASE Len(w[k]) = 3
      <3>1. Good(k)
        BY <1>5, <2>3
      <3>2. QED BY <2>7, <2>9, <3>1
    <2>10. QED BY <2>5, <2>6, <2>8, <2>9
  <1> HIDE DEF T
  <1>6. Nat \subseteq T
    BY <1>4, <1>5, Induct
  <1>7. ASSUME NEW m \in 1 .. n PROVE Good(m)
    BY <1>6 DEF T
  <1>8. QED BY <1>7 DEF n

Leaf(tree, shown, p) == Len(p) > 1 /\ Children(tree, p) \cap shown = {}
PathOfBranch(tree, p) ==
    [osd |-> p[1], host |-> tree[<<p[1]>>].detail, pg |-> p[2], acting |-> tree[<<p[1], p[2]>>].detail,
     object |-> IF Len(p) = 3 THEN p[3] ELSE Empty, stats |-> tree[p].stats]

LEMMA LeafRows ==
    ASSUME NEW tree, Sound(tree), NEW w \in Seq(DOMAIN tree), Orderly(w, <<>>), NEW k \in 1 .. Len(w)
    PROVE  /\ Len(w[k]) = 3 => Leaf(tree, ToSet(w), w[k])
           /\ Len(w[k]) = 2 => (Leaf(tree, ToSet(w), w[k]) <=> ~(k < Len(w) /\ Len(w[k + 1]) = 3))
  <1> DEFINE n == Len(w)
             p == w[k]
  <1>1. n \in Nat /\ DOMAIN w = 1 .. n /\ (\A j \in 1 .. n: w[j] \in DOMAIN tree) /\ ToSet(w) = {w[j]: j \in 1 .. n}
    BY DEF ToSet
  <1>2. k \in 1 .. n /\ p \in DOMAIN tree
    BY <1>1
  <1>3. CASE Len(p) = 3
    <2>1. ASSUME NEW c \in Children(tree, p) PROVE FALSE
      <3>1. Len(p) \in 0 .. 2
        BY <2>1, ChildOf
      <3>2. QED BY <1>3, <3>1
    <2>2. QED BY <1>3, <2>1 DEF Leaf
  <1>4. CASE Len(p) = 2
    <2>1. ASSUME k < n, Len(w[k + 1]) = 3 PROVE ~Leaf(tree, ToSet(w), p)
      <3> DEFINE c == w[k + 1]
      <3>1. k + 1 \in 1 .. n /\ k \in 1 .. n - 1
        BY <1>1, <1>2, <2>1
      <3>2. Follows(p, c)
        BY <3>1 DEF Orderly
      <3>3. c \in DOMAIN tree /\ c \in ToSet(w)
        BY <1>1, <3>1
      <3>4. c[1] = p[1] /\ c[2] = p[2]
        BY <2>1, <3>2 DEF Follows
      <3>5. Front(c) = PairOf(c) /\ p = PairOf(p) /\ c = <<c[1], c[2], c[3]>>
        BY <1>2, <1>4, <2>1, <3>3, PathShape
      <3>6. Front(c) = p
        BY <3>4, <3>5 DEF PairOf
      <3>7. c # <<>>
        BY <3>5
      <3>8. c \in Children(tree, p)
        BY <3>3, <3>6, <3>7 DEF Children
      <3>9. QED BY <3>3, <3>8 DEF Leaf
    <2>2. ASSUME ~Leaf(tree, ToSet(w), p) PROVE k < n /\ Len(w[k + 1]) = 3
      <3>1. PICK c \in Children(tree, p): c \in ToSet(w)
        BY <1>4, <2>2 DEF Leaf
      <3>2. PICK m \in 1 .. n: c = w[m]
        BY <1>1, <3>1
      <3>9. c \in DOMAIN tree /\ Front(c) = p /\ Len(c) = Len(p) + 1
        BY <3>1, ChildOf
      <3>3. c \in DOMAIN tree /\ Front(c) = p /\ Len(c) = 3
        BY <1>4, <3>9
      <3>4. p = PairOf(c)
        BY <3>3, PathShape
      <3>5. PICK j \in 1 .. n - 1: w[j] = PairOf(w[m]) /\ Len(w[j + 1]) = 3
        BY <3>2, <3>3, NextBelow
      <3>6. w[j] = w[k] /\ j \in 1 .. n /\ j < n
        BY <1>1, <3>2, <3>4, <3>5
      <3>7. j = k
        BY <1>1, <1>2, <3>6 DEF Orderly, Once
      <3>8. QED BY <3>5, <3>6, <3>7
    <2>3. Leaf(tree, ToSet(w), p) <=> ~(k < n /\ Len(w[k + 1]) = 3)
      BY <2>1, <2>2
    <2>4. QED BY <1>4, <2>3
  <1>5. QED BY <1>3, <1>4

LEMMA PathsApart ==
    ASSUME NEW tree, Sound(tree), NEW shown, NEW p \in DOMAIN tree, NEW q \in DOMAIN tree, p \in shown, q \in shown,
           Leaf(tree, shown, p), Leaf(tree, shown, q), PathOfBranch(tree, p) = PathOfBranch(tree, q)
    PROVE  p = q
  <1>1. p[1] = q[1] /\ p[2] = q[2] /\ (IF Len(p) = 3 THEN p[3] ELSE Empty) = (IF Len(q) = 3 THEN q[3] ELSE Empty)
    BY DEF PathOfBranch
  <1>2. Len(p) \in 2 .. 3 /\ Len(q) \in 2 .. 3
    <2>1. Len(p) \in 1 .. 3 /\ Len(q) \in 1 .. 3
      BY PathShape
    <2>2. Len(p) > 1 /\ Len(q) > 1
      BY Zenon DEF Leaf
    <2>3. \A n \in 1 .. 3: n > 1 => n \in 2 .. 3
      OBVIOUS
    <2>4. QED BY <2>1, <2>2, <2>3, Zenon
  <1>3. PairOf(p) = PairOf(q)
    BY <1>1 DEF PairOf
  <1>4. ASSUME NEW a \in DOMAIN tree, NEW b \in DOMAIN tree, b \in shown, Leaf(tree, shown, a),
               Len(a) = 2, Len(b) = 3, PairOf(a) = PairOf(b)
        PROVE  FALSE
    <2>1. a = PairOf(a) /\ Front(b) = PairOf(b) /\ b = <<b[1], b[2], b[3]>>
      BY <1>4, PathShape
    <2>2. b # <<>>
      <3>1. Len(b) # 0 /\ Len(<<>>) = 0
        BY <1>4
      <3>2. QED BY <3>1, Zenon
    <2>3. b \in Children(tree, a)
      BY <1>4, <2>1, <2>2 DEF Children
    <2>4. QED BY <1>4, <2>3 DEF Leaf
  <1>5. CASE Len(p) = 2 /\ Len(q) = 2
    BY <1>3, <1>5, PathShape
  <1>6. CASE Len(p) = 3 /\ Len(q) = 3
    <2>1. p = <<p[1], p[2], p[3]>> /\ q = <<q[1], q[2], q[3]>>
      BY <1>6, PathShape
    <2>2. p[3] = q[3]
      BY <1>1, <1>6
    <2>3. QED BY <1>1, <2>1, <2>2
  <1>7. CASE Len(p) = 2 /\ Len(q) = 3
    BY <1>3, <1>4, <1>7
  <1>8. CASE Len(p) = 3 /\ Len(q) = 2
    BY <1>3, <1>4, <1>8
  <1>9. QED BY <1>2, <1>5, <1>6, <1>7, <1>8

RowLane(tree, i) ==
    /\ tree.rows[i].depth = 1 /\ tree.source # "rados"
    /\ ~(i < Len(tree.rows) /\ tree.rows[i + 1].depth > 1)
LaneStep(acc, i) ==
    LET row == FlowTree.rows[i]
        lane == Lane(acc.lane, row)
    IN [lane |-> lane,
        paths |-> IF RowLane(FlowTree, i) THEN Append(acc.paths, Path(lane.osd, row, Empty, row.stats))
                  ELSE IF row.depth = 2 THEN Append(acc.paths, Path(lane.osd, lane.pg, row.label, row.stats))
                  ELSE acc.paths]
InLanes == INSTANCE FoldTheorems WITH Step <- LaneStep
NoLane == LET none == [label |-> Empty, detail |-> Empty] IN [lane |-> [osd |-> none, pg |-> none], paths |-> <<>>]

LEMMA LanesFolded == flow_paths(FlowTree) = InLanes!Folded(NoLane, [i \in DOMAIN FlowTree.rows |-> i]).paths
  BY DEF flow_paths, FoldLeftDomain, FoldLeft, MapThenFoldSet, InLanes!Folded, InLanes!MapThenFoldSet, Max, InLanes!Greatest, LaneStep, RowLane, NoLane

(* The rows are those of the walk w through the tree, in which radostrace  *)
(* alone leaves no PG without an object.                                   *)
ReadsRows(tree, w) ==
    /\ Sound(tree) /\ w \in Seq(DOMAIN tree) /\ Orderly(w, <<>>)
    /\ FlowTree.rows = MapBy(RowsOf(tree), w)
    /\ FlowTree.source = "rados" => \A p \in ToSet(w): Len(p) = 2 => ~Leaf(tree, ToSet(w), p)

LEMMA RowReads ==
    ASSUME NEW tree, NEW w, ReadsRows(tree, w), NEW k \in 1 .. Len(w)
    PROVE  /\ w[k] \in DOMAIN tree /\ FlowTree.rows[k] = RowAt(tree, w[k])
           /\ RowLane(FlowTree, k) <=> Len(w[k]) = 2 /\ Leaf(tree, ToSet(w), w[k])
           /\ FlowTree.rows[k].depth = 2 <=> Len(w[k]) = 3
           /\ DOMAIN FlowTree.rows = 1 .. Len(w)
  <1> DEFINE n == Len(w)
             rows == FlowTree.rows
  <1>1. Sound(tree) /\ w \in Seq(DOMAIN tree) /\ Orderly(w, <<>>) /\ rows = MapBy(RowsOf(tree), w)
    BY DEF ReadsRows
  <1>2. n \in Nat /\ DOMAIN w = 1 .. n /\ (\A j \in 1 .. n: w[j] \in DOMAIN tree)
    BY <1>1
  <1>3. DOMAIN rows = 1 .. n /\ Len(rows) = n /\ \A j \in 1 .. n: rows[j] = RowAt(tree, w[j])
    BY <1>1, <1>2 DEF MapBy, RowsOf
  <1>4. \A j \in 1 .. n: Len(w[j]) \in 1 .. 3
    BY <1>1, <1>2, PathShape
  <1> HIDE DEF rows, n
  <1>5. ASSUME NEW j \in 1 .. n PROVE Len(w[j]) \in 1 .. 3 /\ rows[j].depth = Len(w[j]) - 1
    <2>1. rows[j] = RowAt(tree, w[j]) /\ Len(w[j]) \in 1 .. 3
      BY <1>3, <1>4
    <2>2. RowAt(tree, w[j]).depth = Len(w[j]) - 1
      BY DEF RowAt
    <2>3. QED BY <2>1, <2>2
  <1>6. ASSUME NEW j \in 1 .. n
        PROVE  (rows[j].depth = 1 <=> Len(w[j]) = 2) /\ (rows[j].depth = 2 <=> Len(w[j]) = 3)
               /\ (rows[j].depth > 1 <=> Len(w[j]) = 3)
    <2>1. \A l \in 1 .. 3: \A d: d = l - 1 => (d = 1 <=> l = 2) /\ (d = 2 <=> l = 3) /\ (d > 1 <=> l = 3)
      OBVIOUS
    <2>2. QED BY <1>5, <2>1, Zenon
  <1>7. k \in 1 .. n /\ (k < n => k + 1 \in 1 .. n)
    BY <1>2 DEF n
  <1>8. (k < n /\ rows[k + 1].depth > 1) <=> (k < n /\ Len(w[k + 1]) = 3)
    BY <1>6, <1>7
  <1>9. RowLane(FlowTree, k) <=> Len(w[k]) = 2 /\ FlowTree.source # "rados" /\ ~(k < n /\ Len(w[k + 1]) = 3)
    <2>1. RowLane(FlowTree, k) <=> rows[k].depth = 1 /\ FlowTree.source # "rados" /\ ~(k < n /\ rows[k + 1].depth > 1)
      BY <1>3 DEF RowLane, rows
    <2>2. QED BY <1>6, <1>7, <1>8, <2>1
  <1>10. Len(w[k]) = 2 => (Leaf(tree, ToSet(w), w[k]) <=> ~(k < n /\ Len(w[k + 1]) = 3))
    BY <1>1, LeafRows DEF n
  <1>11. FlowTree.source = "rados" => (Len(w[k]) = 2 => ~Leaf(tree, ToSet(w), w[k]))
    <2>1. w[k] \in ToSet(w)
      BY <1>2, <1>7 DEF ToSet
    <2>2. QED BY <2>1 DEF ReadsRows
  <1>12. RowLane(FlowTree, k) <=> Len(w[k]) = 2 /\ Leaf(tree, ToSet(w), w[k])
    BY <1>9, <1>10, <1>11
  <1>13. QED BY <1>2, <1>3, <1>6, <1>7, <1>12 DEF rows, n

LEMMA LaneStepReads ==
    ASSUME NEW tree, NEW w, ReadsRows(tree, w), NEW k \in 1 .. Len(w), NEW acc,
           LaneOK(Lane(acc.lane, RowAt(tree, w[k])), tree, w[k])
    PROVE  /\ LaneStep(acc, k).lane = Lane(acc.lane, RowAt(tree, w[k]))
           /\ LaneStep(acc, k).paths = IF Leaf(tree, ToSet(w), w[k]) THEN Append(acc.paths, PathOfBranch(tree, w[k]))
                                       ELSE acc.paths
  <1> DEFINE p == w[k]
             row == RowAt(tree, p)
             lane == Lane(acc.lane, row)
             leaf == Leaf(tree, ToSet(w), p)
  <1>1. p \in DOMAIN tree /\ FlowTree.rows[k] = row /\ (row.depth = 2 <=> Len(p) = 3)
    BY RowReads
  <1>2. RowLane(FlowTree, k) <=> Len(p) = 2 /\ leaf
    BY RowReads
  <1>3. Sound(tree)
    BY DEF ReadsRows
  <1>4. Len(p) \in 1 .. 3
    BY <1>1, <1>3, PathShape
  <1>5. row.label = Last(p) /\ row.detail = tree[p].detail /\ row.stats = tree[p].stats
    BY DEF RowAt
  <1>6. lane.osd = RowAt(tree, HeadOf(p)) /\ (Len(p) > 1 => lane.pg = RowAt(tree, PairOf(p)))
    BY DEF LaneOK
  <1>7. lane.osd.label = p[1] /\ lane.osd.detail = tree[<<p[1]>>].detail
    <2>1. Last(HeadOf(p)) = p[1]
      BY FrontOne DEF HeadOf
    <2>2. RowAt(tree, HeadOf(p)).label = p[1] /\ RowAt(tree, HeadOf(p)).detail = tree[<<p[1]>>].detail
      BY <2>1 DEF RowAt, HeadOf
    <2>3. QED BY <1>6, <2>2
  <1>8. Len(p) > 1 => lane.pg.label = p[2] /\ lane.pg.detail = tree[<<p[1], p[2]>>].detail
    <2>1. Last(PairOf(p)) = p[2]
      BY FrontTwo DEF PairOf
    <2>2. RowAt(tree, PairOf(p)).label = p[2] /\ RowAt(tree, PairOf(p)).detail = tree[<<p[1], p[2]>>].detail
      BY <2>1 DEF RowAt, PairOf
    <2>3. QED BY <1>6, <2>2
  <1>9. Len(p) = 2 => Path(lane.osd, row, Empty, row.stats) = PathOfBranch(tree, p)
    <2>1. SUFFICES ASSUME Len(p) = 2 PROVE Path(lane.osd, row, Empty, row.stats) = PathOfBranch(tree, p)
      OBVIOUS
    <2>2. p = <<p[1], p[2]>> /\ Last(p) = p[2]
      BY <1>1, <1>3, <2>1, PathShape DEF PairOf
    <2>3. row.label = p[2] /\ row.detail = tree[<<p[1], p[2]>>].detail /\ row.stats = tree[p].stats
      BY <1>5, <2>2
    <2> HIDE DEF row, lane, p
    <2>4. QED BY <1>7, <2>1, <2>3 DEF Path, PathOfBranch
  <1>10. Len(p) = 3 => Path(lane.osd, lane.pg, row.label, row.stats) = PathOfBranch(tree, p)
    <2>1. SUFFICES ASSUME Len(p) = 3 PROVE Path(lane.osd, lane.pg, row.label, row.stats) = PathOfBranch(tree, p)
      OBVIOUS
    <2>2. Last(p) = p[3]
      BY <1>1, <1>3, <2>1, PathShape
    <2>3. row.label = p[3] /\ row.stats = tree[p].stats
      BY <1>5, <2>2
    <2>4. lane.pg.label = p[2] /\ lane.pg.detail = tree[<<p[1], p[2]>>].detail
      BY <1>8, <2>1
    <2> HIDE DEF row, lane, p
    <2>5. QED BY <1>7, <2>1, <2>3, <2>4 DEF Path, PathOfBranch
  <1>11. Len(p) = 3 => leaf
    BY <1>3, LeafRows DEF ReadsRows
  <1>12. leaf => Len(p) > 1
    BY Zenon DEF Leaf
  <1>13. LaneStep(acc, k) =
            [lane |-> lane,
             paths |-> IF RowLane(FlowTree, k) THEN Append(acc.paths, Path(lane.osd, row, Empty, row.stats))
                       ELSE IF row.depth = 2 THEN Append(acc.paths, Path(lane.osd, lane.pg, row.label, row.stats))
                       ELSE acc.paths]
    BY <1>1, Zenon DEF LaneStep
  <1> HIDE DEF row, lane, p, leaf
  <1>14. LaneStep(acc, k).lane = lane
    BY <1>13
  <1>15. LaneStep(acc, k).paths = IF leaf THEN Append(acc.paths, PathOfBranch(tree, p)) ELSE acc.paths
    <2>1. CASE Len(p) = 1
      BY <1>1, <1>2, <1>12, <1>13, <2>1
    <2>2. CASE Len(p) = 2
      BY <1>1, <1>2, <1>9, <1>13, <2>2
    <2>3. CASE Len(p) = 3
      BY <1>1, <1>2, <1>10, <1>11, <1>13, <2>3
    <2>4. QED BY <1>4, <2>1, <2>2, <2>3
  <1>16. QED BY <1>14, <1>15 DEF row, lane, p, leaf

LEMMA OnceMore ==
    ASSUME NEW S, NEW s \in Seq(S), NEW e \in S, Once(s), e \notin ToSet(s)
    PROVE  Once(Append(s, e))
  <1> DEFINE t == Append(s, e)
             n == Len(s)
  <1>1. n \in Nat /\ DOMAIN s = 1 .. n /\ DOMAIN t = 1 .. (n + 1)
    OBVIOUS
  <1>2. t[n + 1] = e /\ \A i \in 1 .. n: t[i] = s[i]
    OBVIOUS
  <1>3. \A i \in 1 .. n: s[i] # e
    BY <1>1 DEF ToSet
  <1>4. \A i, j \in 1 .. n: s[i] = s[j] => i = j
    BY <1>1 DEF Once
  <1> HIDE DEF t, n
  <1>5. \A i \in 1 .. (n + 1): i \in 1 .. n \/ i = n + 1
    BY <1>1
  <1>6. \A i, j \in 1 .. (n + 1): t[i] = t[j] => i = j
    BY <1>2, <1>3, <1>4, <1>5, Zenon
  <1>7. QED BY <1>1, <1>6 DEF Once, t

(* What the pass holds after the first k rows.                             *)
BranchPaths(tree) == {PathOfBranch(tree, p): p \in DOMAIN tree}
LeavesOf(tree, w, k) == {PathOfBranch(tree, w[j]): j \in {i \in 1 .. k: Leaf(tree, ToSet(w), w[i])}}
ReadUpTo(tree, w, acc, k) ==
    /\ acc.lane = [osd |-> acc.lane.osd, pg |-> acc.lane.pg]
    /\ k > 0 => LaneOK(acc.lane, tree, w[k])
    /\ acc.paths \in Seq(BranchPaths(tree)) /\ Once(acc.paths)
    /\ ToSet(acc.paths) = LeavesOf(tree, w, k)

LEMMA LaneHolds ==
    ASSUME NEW tree, NEW w, ReadsRows(tree, w), NEW k \in 1 .. Len(w), NEW acc, ReadUpTo(tree, w, acc, k - 1)
    PROVE  LaneOK(Lane(acc.lane, RowAt(tree, w[k])), tree, w[k])
  <1>1. Sound(tree) /\ w \in Seq(DOMAIN tree) /\ Orderly(w, <<>>)
    BY DEF ReadsRows
  <1>2. Len(w) \in Nat /\ w[k] \in DOMAIN tree /\ (k # 1 => w[k - 1] \in DOMAIN tree)
    BY <1>1
  <1>3. acc.lane = [osd |-> acc.lane.osd, pg |-> acc.lane.pg] /\ (k - 1 > 0 => LaneOK(acc.lane, tree, w[k - 1]))
    BY Zenon DEF ReadUpTo
  <1>4. CASE k = 1
    <2>1. Len(<<>>) = 0 /\ Len(w) > 0
      BY <1>2
    <2>2. Len(w[1]) = 1
      BY <1>1, <2>1 DEF Orderly
    <2>3. Len(w[k]) = 1
      BY <1>4, <2>2
    <2>4. QED BY <1>1, <1>2, <1>3, <2>3, LaneFirst
  <1>5. CASE k # 1
    <2>1. k - 1 \in 1 .. Len(w) - 1 /\ (k - 1) + 1 = k /\ k - 1 > 0
      BY <1>2, <1>5
    <2>2. Follows(w[k - 1], w[k])
      BY <1>1, <2>1 DEF Orderly
    <2>3. w[k - 1] \in DOMAIN tree /\ LaneOK(acc.lane, tree, w[k - 1])
      BY <1>2, <1>3, <1>5, <2>1
    <2>4. QED BY <1>1, <1>2, <2>2, <2>3, LaneNext
  <1>6. QED BY <1>4, <1>5

LEMMA LeavesMore ==
    ASSUME NEW tree, NEW w, NEW k \in Nat \ {0}
    PROVE  LeavesOf(tree, w, k) =
              LeavesOf(tree, w, k - 1) \cup (IF Leaf(tree, ToSet(w), w[k]) THEN {PathOfBranch(tree, w[k])} ELSE {})
  <1> DEFINE path == [j \in 1 .. k |-> PathOfBranch(tree, w[j])]
             leaf == [j \in 1 .. k |-> Leaf(tree, ToSet(w), w[j])]
  <1>1. 1 .. k = (1 .. k - 1) \cup {k} /\ k \in 1 .. k /\ 1 .. k - 1 \subseteq 1 .. k
    OBVIOUS
  <1>2. \A j \in 1 .. k: path[j] = PathOfBranch(tree, w[j]) /\ (leaf[j] <=> Leaf(tree, ToSet(w), w[j]))
    OBVIOUS
  <1> HIDE DEF path, leaf
  <1>3. LeavesOf(tree, w, k) = {path[j]: j \in {i \in 1 .. k: leaf[i]}}
    BY <1>2 DEF LeavesOf
  <1>4. LeavesOf(tree, w, k - 1) = {path[j]: j \in {i \in 1 .. k - 1: leaf[i]}}
    BY <1>1, <1>2 DEF LeavesOf
  <1>5. {path[j]: j \in {i \in 1 .. k: leaf[i]}} =
           {path[j]: j \in {i \in 1 .. k - 1: leaf[i]}} \cup (IF leaf[k] THEN {path[k]} ELSE {})
    BY <1>1
  <1>6. QED BY <1>1, <1>2, <1>3, <1>4, <1>5

LEMMA ReadOneMore ==
    ASSUME NEW tree, NEW w, ReadsRows(tree, w), NEW k \in 1 .. Len(w), NEW acc, ReadUpTo(tree, w, acc, k - 1)
    PROVE  ReadUpTo(tree, w, LaneStep(acc, k), k)
  <1> DEFINE new == LaneStep(acc, k)
             p == w[k]
             lane == Lane(acc.lane, RowAt(tree, p))
             leaf == Leaf(tree, ToSet(w), p)
             B == BranchPaths(tree)
  <1>1. Sound(tree) /\ w \in Seq(DOMAIN tree) /\ Once(w)
    BY DEF ReadsRows, Orderly
  <1>2. Len(w) \in Nat /\ k \in Nat \ {0} /\ DOMAIN w = 1 .. Len(w) /\ ToSet(w) = {w[j]: j \in 1 .. Len(w)}
    BY <1>1 DEF ToSet
  <1>3. \A j \in 1 .. Len(w): w[j] \in DOMAIN tree /\ w[j] \in ToSet(w)
    BY <1>1, <1>2
  <1>4. LaneOK(lane, tree, p)
    BY LaneHolds
  <1>5. new.lane = lane /\ new.paths = IF leaf THEN Append(acc.paths, PathOfBranch(tree, p)) ELSE acc.paths
    BY <1>4, LaneStepReads
  <1>6. acc.paths \in Seq(B) /\ Once(acc.paths) /\ ToSet(acc.paths) = LeavesOf(tree, w, k - 1)
    BY Zenon DEF ReadUpTo
  <1>7. LeavesOf(tree, w, k) = LeavesOf(tree, w, k - 1) \cup (IF leaf THEN {PathOfBranch(tree, p)} ELSE {})
    BY <1>2, LeavesMore
  <1>8. ASSUME leaf PROVE PathOfBranch(tree, p) \notin LeavesOf(tree, w, k - 1)
    <2>1. SUFFICES ASSUME NEW j \in 1 .. k - 1, Leaf(tree, ToSet(w), w[j]), PathOfBranch(tree, p) = PathOfBranch(tree, w[j])
                   PROVE  FALSE
      BY DEF LeavesOf
    <2>2. j \in 1 .. Len(w) /\ j # k
      BY <1>2
    <2>3. p = w[j]
      BY <1>1, <1>3, <1>8, <2>1, <2>2, PathsApart
    <2>4. QED BY <1>1, <1>2, <2>2, <2>3 DEF Once
  <1>9. PathOfBranch(tree, p) \in B
    BY <1>3 DEF BranchPaths
  <1> HIDE DEF new, lane, leaf, B, p
  <1>10. new.paths \in Seq(B) /\ Once(new.paths) /\ ToSet(new.paths) = LeavesOf(tree, w, k)
    <2>1. CASE leaf
      <3>1. PathOfBranch(tree, p) \notin ToSet(acc.paths)
        BY <1>6, <1>8, <2>1
      <3>2. Once(Append(acc.paths, PathOfBranch(tree, p)))
        BY <1>6, <1>9, <3>1, OnceMore
      <3>3. ToSet(Append(acc.paths, PathOfBranch(tree, p))) = ToSet(acc.paths) \cup {PathOfBranch(tree, p)}
        BY <1>6, <1>9, ToSetAppend
      <3>4. Append(acc.paths, PathOfBranch(tree, p)) \in Seq(B)
        BY <1>6, <1>9
      <3>5. QED BY <1>5, <1>6, <1>7, <2>1, <3>2, <3>3, <3>4
    <2>2. CASE ~leaf
      BY <1>5, <1>6, <1>7, <2>2
    <2>3. QED BY <2>1, <2>2
  <1>11. new.lane = [osd |-> new.lane.osd, pg |-> new.lane.pg] /\ LaneOK(new.lane, tree, w[k])
    <2>1. lane = [osd |-> lane.osd, pg |-> lane.pg]
      BY <1>4, Zenon DEF LaneOK
    <2>2. QED BY <1>4, <1>5, <2>1 DEF p
  <1>12. ReadUpTo(tree, w, new, k)
    BY <1>10, <1>11, Zenon DEF ReadUpTo, B
  <1>13. QED BY <1>12 DEF new

LEMMA PassPaths ==
    ASSUME NEW tree, NEW w, ReadsRows(tree, w)
    PROVE  /\ ToSet(flow_paths(FlowTree)) = {PathOfBranch(tree, p): p \in {q \in ToSet(w): Leaf(tree, ToSet(w), q)}}
           /\ Once(flow_paths(FlowTree))
  <1> DEFINE n == Len(w)
             seq == [i \in DOMAIN FlowTree.rows |-> i]
  <1>1. Sound(tree) /\ w \in Seq(DOMAIN tree) /\ FlowTree.rows = MapBy(RowsOf(tree), w)
    BY DEF ReadsRows
  <1>2. n \in Nat /\ DOMAIN w = 1 .. n /\ ToSet(w) = {w[j]: j \in 1 .. n}
    BY <1>1 DEF ToSet
  <1>3. DOMAIN FlowTree.rows = 1 .. n
    BY <1>1, <1>2 DEF MapBy
  <1>4. seq \in Seq(Nat) /\ Len(seq) = n /\ \A k \in 1 .. n: seq[k] = k
    BY <1>2, <1>3
  <1>5. flow_paths(FlowTree) = InLanes!Folded(NoLane, seq).paths
    BY LanesFolded
  <1> HIDE DEF seq, n
  <1>6. PICK acc: /\ acc[0] = NoLane
                  /\ \A k \in 1 .. Len(seq): acc[k] = LaneStep(acc[k - 1], seq[k])
                  /\ acc[Len(seq)] = InLanes!Folded(NoLane, seq)
    BY <1>4, InLanes!Fold
  <1>7. \A k \in 1 .. n: acc[k] = LaneStep(acc[k - 1], k)
    BY <1>4, <1>6
  <1> DEFINE T == {k \in Nat: k <= n => ReadUpTo(tree, w, acc[k], k)}
  <1>8. 0 \in T
    <2>1. NoLane.lane = [osd |-> NoLane.lane.osd, pg |-> NoLane.lane.pg] /\ NoLane.paths = <<>>
      BY DEF NoLane
    <2>2. <<>> \in Seq(BranchPaths(tree)) /\ Once(<<>>) /\ ToSet(<<>>) = {}
      BY DEF Once, ToSet
    <2>3. LeavesOf(tree, w, 0) = {}
      BY DEF LeavesOf
    <2>4. ~(0 > 0)
      OBVIOUS
    <2> HIDE DEF T
    <2>5. ReadUpTo(tree, w, NoLane, 0)
      BY <2>1, <2>2, <2>3, <2>4, Zenon DEF ReadUpTo
    <2>6. QED BY <1>6, <2>5 DEF T
  <1>9. ASSUME NEW k \in Nat, k \in T PROVE k + 1 \in T
    <2>1. SUFFICES ASSUME k + 1 <= n PROVE ReadUpTo(tree, w, acc[k + 1], k + 1)
      OBVIOUS
    <2>2. k + 1 \in 1 .. n /\ (k + 1) - 1 = k /\ ReadUpTo(tree, w, acc[k], k)
      BY <1>2, <1>9, <2>1
    <2>3. ReadUpTo(tree, w, acc[k], (k + 1) - 1)
      BY <2>2
    <2>4. ReadUpTo(tree, w, LaneStep(acc[k], k + 1), k + 1)
      BY <2>2, <2>3, ReadOneMore DEF n
    <2>5. QED BY <1>7, <2>2, <2>4
  <1>10. ReadUpTo(tree, w, acc[n], n)
    <2> HIDE DEF T
    <2>1. n \in T
      BY <1>2, <1>8, <1>9, Induct
    <2>2. QED BY <1>2, <2>1 DEF T
  <1>11. flow_paths(FlowTree) = acc[n].paths
    BY <1>4, <1>5, <1>6
  <1>12. Once(flow_paths(FlowTree)) /\ ToSet(flow_paths(FlowTree)) = LeavesOf(tree, w, n)
    BY <1>10, <1>11, Zenon DEF ReadUpTo
  <1>13. LeavesOf(tree, w, n) = {PathOfBranch(tree, p): p \in {q \in ToSet(w): Leaf(tree, ToSet(w), q)}}
    <2> DEFINE path == [p \in ToSet(w) |-> PathOfBranch(tree, p)]
               leaves == {q \in ToSet(w): Leaf(tree, ToSet(w), q)}
               J == {i \in 1 .. n: Leaf(tree, ToSet(w), w[i])}
    <2>1. \A j \in J: w[j] \in leaves
      BY <1>2
    <2>2. \A q \in leaves: \E j \in J: w[j] = q
      BY <1>2
    <2> HIDE DEF leaves, J
    <2>3. {PathOfBranch(tree, w[j]): j \in J} = {PathOfBranch(tree, p): p \in leaves}
      BY <2>1, <2>2
    <2>4. QED BY <2>3 DEF LeavesOf, leaves, J
  <1>14. QED BY <1>12, <1>13

(* A branch of a radostrace tree has operations, and every operation of a  *)
(* PG is one of its objects: no PG is without one.                         *)
LEMMA RadosBelow ==
    ASSUME NEW lines \in Seq(RadosLines), NEW p \in DOMAIN rados_roots(lines), Len(p) < 3
    PROVE  Children(rados_roots(lines), p) # {}
  <1> DEFINE tree == rados_roots(lines)
             marks == [k \in DOMAIN lines |-> RadosMarks(lines[k])]
             latency == Latencies(lines)
             n == Len(lines)
  <1>1. n \in Nat /\ DOMAIN lines = 1 .. n /\ \A k \in 1 .. n: lines[k] \in RadosLines
    OBVIOUS
  <1>2. \A k \in 1 .. n: latency[k] \in Nat
    BY <1>1, FlowAssumption DEF Latencies
  <1>3. PICK acc: Tallies(acc, marks, latency, n) /\ acc[n] = tree
    BY RadosTallies
  <1>4. Sound(tree) /\ Levels(tree, 3, Len(CountedRados(lines)))
    BY RadosRootsSound, RadosLevels
  <1>5. p \in DOMAIN tree
    OBVIOUS
  <1> HIDE DEF tree, marks, latency, n
  <1>6. Filled(tree)
    <2>1. \A k \in 0 .. n: Filled(acc[k])
      BY <1>1, <1>2, <1>3, TalliesFilled
    <2>2. n \in 0 .. n
      BY <1>1
    <2>3. QED BY <1>3, <2>1, <2>2
  <1>7. StatsAt(tree, p).ops # 0
    BY <1>5, <1>6, Zenon DEF Filled
  <1>8. p # <<>>
    <2>1. Len(p) \in 1 .. 3
      BY <1>4, <1>5, TreePaths
    <2>2. (\A l \in 1 .. 3: l # 0) /\ Len(<<>>) = 0
      OBVIOUS
    <2>3. QED BY <2>1, <2>2, Zenon
  <1>9. StatsAt(tree, p).ops = SumBelow(tree, p)
    BY <1>4, <1>8, Zenon DEF Levels
  <1>10. Children(tree, p) = {} => SumBelow(tree, p) = 0
    BY SumNone DEF SumBelow
  <1>11. Children(tree, p) # {}
    BY <1>7, <1>9, <1>10
  <1>12. QED BY <1>11 DEF tree

(* Ranking cuts the branches below one, and leaves at least one of them.   *)
LEMMA RankedSome ==
    ASSUME NEW tree, Sound(tree), NEW path, NEW metric, NEW sort \in {"descending", "ascending"},
           Children(tree, path) # {}
    PROVE  \E c \in Children(tree, path): c \in ToSet(ranked(tree, path, metric, sort, MAX_CHILDREN))
  <1> DEFINE C == Children(tree, path)
             r == ranked(tree, path, metric, sort, MAX_CHILDREN)
  <1>1. MAX_CHILDREN \in Nat \ {0}
    BY FlowAssumption
  <1>2. IsFiniteSet(C) /\ r \in Seq(C) /\ Len(r) = Fewer(MAX_CHILDREN, Cardinality(C))
    BY <1>1, RankedChildren
  <1>3. C # {}
    OBVIOUS
  <1> HIDE DEF C, r
  <1>4. Cardinality(C) \in Nat /\ Cardinality(C) # 0
    BY <1>2, <1>3, FS_CardinalityType, FS_EmptySet
  <1>5. Len(r) > 0
    BY <1>1, <1>2, <1>4 DEF Fewer
  <1>6. r[1] \in C /\ 1 \in DOMAIN r
    BY <1>2, <1>5
  <1>7. r[1] \in ToSet(r)
    BY <1>6 DEF ToSet
  <1>8. QED BY <1>6, <1>7 DEF C, r

LEMMA RadosShown ==
    ASSUME NEW lines \in Seq(RadosLines), NEW metric, NEW sort \in {"descending", "ascending"},
           NEW p \in ShownOf(rados_roots(lines), metric, sort), Len(p) = 2
    PROVE  ~Leaf(rados_roots(lines), ShownOf(rados_roots(lines), metric, sort), p)
  <1> DEFINE tree == rados_roots(lines)
             shown == ShownOf(tree, metric, sort)
             Top(q, limit) == ToSet(ranked(tree, q, metric, sort, limit))
             osds == Top(<<>>, MAX_OSDS)
             pgs == UNION {Top(q, MAX_CHILDREN): q \in osds}
             objects == UNION {Top(q, MAX_CHILDREN): q \in pgs}
  <1>1. Sound(tree) /\ MAX_OSDS \in Nat /\ MAX_CHILDREN \in Nat
    BY RadosRootsSound, FlowAssumption
  <1>2. shown = osds \cup pgs \cup objects
    BY DEF ShownOf
  <1>3. ASSUME NEW q, NEW limit \in Nat, NEW x \in Top(q, limit) PROVE x \in Children(tree, q)
    <2>1. ranked(tree, q, metric, sort, limit) \in Seq(Children(tree, q))
      BY <1>1, RankedChildren
    <2>2. QED BY <1>3, <2>1 DEF ToSet
  <1>4. p \in shown
    OBVIOUS
  <1>5. ASSUME p \in DOMAIN tree PROVE Children(tree, p) # {}
    <2>1. Len(p) < 3
      OBVIOUS
    <2>2. QED BY <1>5, <2>1, RadosBelow
  <1>6. Children(tree, p) # {} => \E c \in Children(tree, p): c \in Top(p, MAX_CHILDREN)
    BY <1>1, RankedSome
  <1> HIDE DEF tree, shown, Top
  <1>7. \A x \in osds: x \in Children(tree, <<>>)
    BY <1>1, <1>3
  <1>8. \A x \in osds: Len(x) = 1 /\ x \in Seq(Labels)
    <2>1. <<>> \in Seq(Labels) /\ Len(<<>>) = 0
      OBVIOUS
    <2>2. \A x \in osds: Len(x) = Len(<<>>) + 1 /\ x \in DOMAIN tree
      BY <1>1, <1>7, <2>1, ChildUnder DEF Children
    <2>3. QED BY <1>1, <2>1, <2>2, TreePaths
  <1>9. ASSUME NEW x \in pgs PROVE Len(x) = 2 /\ x \in Seq(Labels)
    <2>1. PICK q \in osds: x \in Children(tree, q)
      BY <1>1, <1>3
    <2>2. q \in Seq(Labels) /\ Len(q) = 1 /\ x \in DOMAIN tree
      BY <1>8, <2>1 DEF Children
    <2>3. Len(x) = Len(q) + 1 /\ x \in Seq(Labels)
      BY <1>1, <2>1, <2>2, ChildUnder, TreePaths
    <2>4. QED BY <2>2, <2>3
  <1>10. ASSUME NEW x \in objects PROVE Len(x) = 3
    <2>1. PICK q \in pgs: x \in Children(tree, q)
      BY <1>1, <1>3
    <2>2. q \in Seq(Labels) /\ Len(q) = 2
      BY <1>9, <2>1
    <2>3. Len(x) = Len(q) + 1
      BY <1>1, <2>1, <2>2, ChildUnder
    <2>4. QED BY <2>2, <2>3
  <1>11. p \in pgs
    <2>1. 2 # 1 /\ 2 # 3
      OBVIOUS
    <2>2. p \notin osds /\ p \notin objects
      BY <1>8, <1>10, <2>1, Zenon
    <2>3. QED BY <1>2, <1>4, <2>2
  <1>12. p \in DOMAIN tree
    <2>1. PICK q \in osds: p \in Children(tree, q)
      BY <1>1, <1>3, <1>11
    <2>2. QED BY <2>1 DEF Children
  <1>13. PICK c \in Children(tree, p): c \in Top(p, MAX_CHILDREN)
    BY <1>5, <1>6, <1>12
  <1>14. c \in shown
    BY <1>2, <1>11, <1>13
  <1>15. ~Leaf(tree, shown, p)
    BY <1>13, <1>14 DEF Leaf
  <1>16. QED BY <1>15 DEF tree, shown

LEMMA PathsTrue == LinesInv /\ SortOK => PathsAreBranches
  <1> DEFINE rados == radostrace_events
             osds == osdtrace_events
             tree == Tree
             w == WalkOf(tree, flow_metric, flow_sort)
             shown == ShownOf(tree, flow_metric, flow_sort)
  <1>1. SUFFICES ASSUME LinesInv, SortOK PROVE PathsAreBranches
    OBVIOUS
  <1>2. rados \in Seq(RadosLines) /\ osds \in Seq(OsdLines) /\ flow_sort \in {"descending", "ascending"}
    BY <1>1 DEF LinesInv, SortOK
  <1>3. Sound(tree)
    BY <1>2, RootsSound DEF Tree
  <1>4. FlowTree.rows = flatten(tree, flow_metric, flow_sort)
    BY DEF FlowTree, build_flow_tree, Tree
  <1>5. FlowTree.rows = MapBy(RowsOf(tree), w) /\ w \in Seq(DOMAIN tree)
    BY <1>2, <1>3, <1>4, FlattenWalk
  <1>6. Orderly(w, <<>>) /\ ToSet(w) = shown
    BY <1>2, <1>3, WalkShown
  <1>7. FlowTree.source = "rados" => tree = rados_roots(rados)
    <2>1. FlowTree.source = IF DOMAIN tree = {} THEN "empty"
                            ELSE IF rados = <<>> THEN "osd" ELSE IF osds = <<>> THEN "rados" ELSE "combined"
      BY DEF FlowTree, build_flow_tree, Tree
    <2>2. FlowTree.source = "rados" => rados # <<>> /\ osds = <<>>
      BY <2>1
    <2>3. QED BY <2>2 DEF Tree, Roots
  <1>8. FlowTree.source = "rados" => \A p \in ToSet(w): Len(p) = 2 => ~Leaf(tree, ToSet(w), p)
    BY <1>2, <1>6, <1>7, RadosShown
  <1> HIDE DEF tree, w
  <1>9. ReadsRows(tree, w)
    BY <1>3, <1>5, <1>6, <1>8 DEF ReadsRows
  <1>10. /\ ToSet(flow_paths(FlowTree)) = {PathOfBranch(tree, p): p \in {q \in shown: Leaf(tree, shown, q)}}
         /\ Once(flow_paths(FlowTree))
    BY <1>6, <1>9, PassPaths
  <1>11. ShownPaths(tree) = shown
    BY DEF ShownPaths, ShownOf
  <1> HIDE DEF shown
  <1>12. {q \in shown: Leaf(tree, shown, q)} = {p \in shown: Len(p) > 1 /\ Children(tree, p) \cap shown = {}}
    BY DEF Leaf
  <1>13. IsInjective(flow_paths(FlowTree))
    BY <1>10 DEF IsInjective, Once
  <1>14. QED BY <1>10, <1>11, <1>12, <1>13 DEF PathsAreBranches, PathOfBranch, tree

LEMMA SortStays == FlowSpec => []SortOK
  <1>1. FlowInit => SortOK
    BY DEF FlowInit, SortOK
  <1>2. SortOK /\ [FlowNext]_flowVars => SortOK'
    BY DEF FlowNext, rados_line, osd_line, window_moves, captured_cleared, toggled, flowVars, SortOK
  <1>3. QED BY <1>1, <1>2, PTL DEF FlowSpec

(* The panel, its paths and its totals are three readings of one tree:     *)
(* with one source every operation counts once on each level and once in   *)
(* the totals, the single pass of the paths finds one path for each branch *)
(* on the screen that has none below it, under its own OSD and PG, and the *)
(* rows do not depend on the order in which the lines came.                *)
THEOREM FlowReadsTrue == FlowSpec => []FlowReads
  <1>1. LinesInv /\ SortOK => FlowReads
    BY LevelsTrue, PathsTrue, OrderFrees DEF FlowReads
  <1>2. QED BY <1>1, LinesStay, SortStays, PTL
=============================================================================
