-------------------------------- MODULE Flow --------------------------------
(***************************************************************************)
(* The flow panel: the OSD, PG and object tree that flow.rs builds from    *)
(* the captured radostrace and osdtrace lines, how it is ranked, cut and   *)
(* laid out as rows, and the paths and totals that draw_flow of ui.rs      *)
(* shows.  Lines arrive and leave the time window one at a time, in any    *)
(* order of the two sources.                                               *)
(***************************************************************************)
EXTENDS Naturals, Sequences, FiniteSets, SequencesExt, FiniteSetsExt, Lists

CONSTANTS
    LabelOrder,  \* the labels of OSDs, PGs and objects in string order
    RadosLines,  \* lines of radostrace: [primary, pg, object, acting, latency]
    OsdLines,    \* lines of osdtrace: [osd, pg, host, latency]
    HostOfOsd,   \* host_by_osd_id of the OSDs that a node has listed
    Empty,       \* the empty string
    NoPrimary,   \* the primary of an acting set that is empty or begins with NONE
    MAX_OSDS, MAX_CHILDREN,
    MaxLines     \* bound: the captured lines of each source

ASSUME FlowAssumption ==
    /\ MAX_OSDS \in Nat /\ MAX_CHILDREN \in Nat \ {0} /\ MaxLines \in Nat
    /\ LabelOrder \in Seq(ToSet(LabelOrder))
    /\ \A e \in RadosLines: /\ e.primary \in ToSet(LabelOrder) \cup {NoPrimary} /\ e.latency \in Nat
                           /\ {e.pg, e.object} \subseteq ToSet(LabelOrder)
    /\ \A e \in OsdLines: {e.osd, e.pg} \subseteq ToSet(LabelOrder) \cup {Empty} /\ e.latency \in Nat

VARIABLES
    radostrace_events, osdtrace_events, \* what is captured and in the window
    flow_metric, flow_sort

flowVars == <<radostrace_events, osdtrace_events, flow_metric, flow_sort>>

-----------------------------------------------------------------------------
(* FlowStats.                                                              *)
Zero == [ops |-> 0, sum_us |-> 0, max_us |-> 0]

record(stats, latency) ==
    [ops |-> stats.ops + 1, sum_us |-> stats.sum_us + latency,
     max_us |-> IF latency > stats.max_us THEN latency ELSE stats.max_us]

merge(a, b) ==
    [ops |-> a.ops + b.ops, sum_us |-> a.sum_us + b.sum_us,
     max_us |-> IF b.max_us > a.max_us THEN b.max_us ELSE a.max_us]

key(stats, metric) == IF metric = "ops" THEN stats.ops ELSE stats.max_us

-----------------------------------------------------------------------------
(* A Branch and all below it: a function from the path of a branch, the    *)
(* labels from its OSD down, to its detail and stats.                      *)
NoBranch == <<>>

Found(tree, path) == IF path \in DOMAIN tree THEN tree[path] ELSE [detail |-> Empty, stats |-> Zero]

Put(tree, path, detail, stats) ==
    [p \in DOMAIN tree \cup {path} |-> IF p = path THEN [detail |-> detail, stats |-> stats] ELSE tree[p]]

(* child(..).stats.record(..)                                              *)
Record(tree, path, detail, latency) == Put(tree, path, detail, record(Found(tree, path).stats, latency))

HostOf(osd) == IF osd \in DOMAIN HostOfOsd THEN HostOfOsd[osd] ELSE Empty

(* A line of osdtrace: an operation of its OSD and its PG.                 *)
osd_recorded(tree, e) ==
    IF e.osd = Empty \/ e.pg = Empty THEN tree
    ELSE Record(Record(tree, <<e.osd>>, e.host, e.latency),
                <<e.osd, e.pg>>, Found(tree, <<e.osd, e.pg>>).detail, e.latency)

osd_roots(lines) == FoldLeft(osd_recorded, NoBranch, lines)

(* A line of radostrace alone: an operation of its OSD, PG and object.     *)
rados_recorded(tree, e) ==
    IF e.primary = NoPrimary THEN tree
    ELSE LET osd == Record(tree, <<e.primary>>, HostOf(e.primary), e.latency)
             pg == Record(osd, <<e.primary, e.pg>>, e.acting, e.latency)
         IN Record(pg, <<e.primary, e.pg, e.object>>, Empty, e.latency)

rados_roots(lines) == FoldLeft(rados_recorded, NoBranch, lines)

(* A radostrace line also counts in the rows that osdtrace made.           *)
Enriched_fault(tree, path, detail, latency) == Record(tree, path, detail, latency)

(* A branch that is there keeps its stats; one that is missing records the *)
(* line it is made for, and no later one.                                  *)
Enriched(tree, path, detail, latency) ==
    IF path \in DOMAIN tree THEN Put(tree, path, detail, tree[path].stats)
    ELSE Record(tree, path, detail, latency)

combined_recorded(tree, e) ==
    IF e.primary = NoPrimary THEN tree
    ELSE LET host == Found(tree, <<e.primary>>).detail
             osd == Enriched(tree, <<e.primary>>, IF host = Empty THEN HostOf(e.primary) ELSE host, e.latency)
             pg == Enriched(osd, <<e.primary, e.pg>>, e.acting, e.latency)
         IN Record(pg, <<e.primary, e.pg, e.object>>, Empty, e.latency)

combined_roots(rados, osds) == FoldLeft(combined_recorded, osd_roots(osds), rados)

-----------------------------------------------------------------------------
(* From the tree to the rows.                                              *)

Position(label) == SelectInSeq(LabelOrder, LAMBDA l: l = label)
Children(tree, path) == {p \in DOMAIN tree: p # <<>> /\ Front(p) = path}

Precedes(tree, p, q, metric, sort) ==
    LET a == key(tree[p].stats, metric)
        b == key(tree[q].stats, metric)
    IN \/ sort = "descending" /\ a > b
       \/ sort = "ascending" /\ a < b
       \/ a = b /\ Position(Last(p)) < Position(Last(q))

ranked(tree, path, metric, sort, limit) ==
    LET entries == Sorted(Children(tree, path), LAMBDA p, q: Precedes(tree, p, q, metric, sort))
    IN SubSeq(entries, 1, IF limit < Len(entries) THEN limit ELSE Len(entries))

RowAt(tree, path) ==
    [depth |-> Len(path) - 1, label |-> Last(path), detail |-> tree[path].detail, stats |-> tree[path].stats]

(* The rows of the branches in paths, each followed by what Below gives.   *)
Rows_of(tree, paths, Below(_)) ==
    FlattenSeq([i \in DOMAIN paths |-> <<RowAt(tree, paths[i])>> \o Below(paths[i])])

flatten(tree, metric, sort) ==
    LET Objects(pg) == Rows_of(tree, ranked(tree, pg, metric, sort, MAX_CHILDREN), LAMBDA p: <<>>)
        Pgs(osd) == Rows_of(tree, ranked(tree, osd, metric, sort, MAX_CHILDREN), Objects)
    IN Rows_of(tree, ranked(tree, <<>>, metric, sort, MAX_OSDS), Pgs)

Roots(rados, osds) ==
    IF rados = <<>> THEN osd_roots(osds)
    ELSE IF osds = <<>> THEN rados_roots(rados) ELSE combined_roots(rados, osds)

build_flow_tree(rados, osds, metric, sort) ==
    LET roots == Roots(rados, osds) IN
    [source |-> IF DOMAIN roots = {} THEN "empty"
                ELSE IF rados = <<>> THEN "osd" ELSE IF osds = <<>> THEN "rados" ELSE "combined",
     rows |-> flatten(roots, metric, sort)]

Path(osd, pg, object, stats) ==
    [osd |-> osd.label, host |-> osd.detail, pg |-> pg.label, acting |-> pg.detail, object |-> object, stats |-> stats]

(* A PG row is not taken as the one that the rows below belong to.         *)
Lane_fault(lane, row) ==
    IF row.depth = 0 THEN [lane EXCEPT !.osd = row] ELSE lane

(* The OSD and PG rows that the rows below belong to.                      *)
Lane(lane, row) ==
    IF row.depth = 0 THEN [lane EXCEPT !.osd = row]
    ELSE IF row.depth = 1 THEN [lane EXCEPT !.pg = row] ELSE lane

(* One pass over the rows: a path for each object, and for each PG without *)
(* one unless the tree is of radostrace alone.                             *)
flow_paths(tree) ==
    LET IsLane(i) ==
            /\ tree.rows[i].depth = 1 /\ tree.source # "rados"
            /\ ~(i < Len(tree.rows) /\ tree.rows[i + 1].depth > 1)
        Step(acc, i) ==
            LET row == tree.rows[i]
                lane == Lane(acc.lane, row)
            IN [lane |-> lane,
                paths |-> IF IsLane(i) THEN Append(acc.paths, Path(lane.osd, row, Empty, row.stats))
                          ELSE IF row.depth = 2 THEN Append(acc.paths, Path(lane.osd, lane.pg, row.label, row.stats))
                          ELSE acc.paths]
        none == [label |-> Empty, detail |-> Empty]
    IN FoldLeftDomain(Step, [lane |-> [osd |-> none, pg |-> none], paths |-> <<>>], tree.rows).paths

flow_totals(rows) ==
    FoldLeft(LAMBDA totals, row: IF row.depth = 0 THEN merge(totals, row.stats) ELSE totals, Zero, rows)

-----------------------------------------------------------------------------
(* The panel as the lines come and go.                                     *)

rados_line ==
    /\ Len(radostrace_events) < MaxLines
    /\ \E e \in RadosLines: radostrace_events' = Append(radostrace_events, e)
    /\ UNCHANGED <<osdtrace_events, flow_metric, flow_sort>>

osd_line ==
    /\ Len(osdtrace_events) < MaxLines
    /\ \E e \in OsdLines: osdtrace_events' = Append(osdtrace_events, e)
    /\ UNCHANGED <<radostrace_events, flow_metric, flow_sort>>

(* The oldest line of a source leaves the window.                          *)
window_moves ==
    /\ \/ radostrace_events # <<>> /\ radostrace_events' = Tail(radostrace_events) /\ UNCHANGED osdtrace_events
       \/ osdtrace_events # <<>> /\ osdtrace_events' = Tail(osdtrace_events) /\ UNCHANGED radostrace_events
    /\ UNCHANGED <<flow_metric, flow_sort>>

(* The x key.                                                              *)
captured_cleared ==
    /\ radostrace_events' = <<>> /\ osdtrace_events' = <<>>
    /\ UNCHANGED <<flow_metric, flow_sort>>

(* o and s.                                                                *)
toggled ==
    /\ \/ flow_metric' = (IF flow_metric = "ops" THEN "latency" ELSE "ops") /\ UNCHANGED flow_sort
       \/ flow_sort' = (IF flow_sort = "descending" THEN "ascending" ELSE "descending") /\ UNCHANGED flow_metric
    /\ UNCHANGED <<radostrace_events, osdtrace_events>>

FlowInit ==
    /\ radostrace_events = <<>> /\ osdtrace_events = <<>>
    /\ flow_metric = "latency" /\ flow_sort = "descending"

FlowNext == rados_line \/ osd_line \/ window_moves \/ captured_cleared \/ toggled

FlowSpec == FlowInit /\ [][FlowNext]_flowVars

-----------------------------------------------------------------------------
Tree == Roots(radostrace_events, osdtrace_events)
FlowTree == build_flow_tree(radostrace_events, osdtrace_events, flow_metric, flow_sort)

SumOps(tree, paths) == MapThenSumSet(LAMBDA p: tree[p].stats.ops, paths)

(* The branches that ranking lets through, with those above them.          *)
ShownPaths(tree) ==
    LET Top(path, limit) == ToSet(ranked(tree, path, flow_metric, flow_sort, limit))
        osds == Top(<<>>, MAX_OSDS)
        pgs == UNION {Top(p, MAX_CHILDREN): p \in osds}
    IN osds \cup pgs \cup UNION {Top(p, MAX_CHILDREN): p \in pgs}

(* With one source each operation is counted once on each level: an OSD    *)
(* has the operations of its PGs, for radostrace a PG those of its         *)
(* objects, and the totals those of all lines unless an OSD is cut.        *)
LevelsAgree ==
    LET tree == Tree
        rados == Where(radostrace_events, LAMBDA e: e.primary # NoPrimary)
        osds == Where(osdtrace_events, LAMBDA e: e.osd # Empty /\ e.pg # Empty)
    IN (radostrace_events = <<>> \/ osdtrace_events = <<>>) =>
        /\ \A p \in DOMAIN tree: Children(tree, p) # {} => tree[p].stats.ops = SumOps(tree, Children(tree, p))
        /\ Cardinality(Children(tree, <<>>)) <= MAX_OSDS =>
              flow_totals(FlowTree.rows).ops = Len(rados) + Len(osds)

(* "osdtrace owns OSD and PG totals so replica rows stay visible": adding  *)
(* radostrace lines removes none of the branches of osdtrace and leaves    *)
(* their stats, and the host that a line named, alone.                     *)
ReplicasStay ==
    osdtrace_events # <<>> =>
        LET alone == osd_roots(osdtrace_events)
            tree == Tree
        IN \A p \in DOMAIN alone:
            /\ p \in DOMAIN tree /\ tree[p].stats = alone[p].stats
            /\ Len(p) = 1 /\ alone[p].detail # Empty => tree[p].detail = alone[p].detail

(* Every branch on the screen that has none below it there is one path,    *)
(* with its own OSD, host, PG and acting set: the single pass over the     *)
(* rows finds what the tree says.                                          *)
PathsAreBranches ==
    LET tree == Tree
        shown == ShownPaths(tree)
        leaves == {p \in shown: Len(p) > 1 /\ Children(tree, p) \cap shown = {}}
        PathOf(p) == [osd |-> p[1], host |-> tree[<<p[1]>>].detail, pg |-> p[2],
                      acting |-> tree[<<p[1], p[2]>>].detail,
                      object |-> IF Len(p) = 3 THEN p[3] ELSE Empty, stats |-> tree[p].stats]
        paths == flow_paths(FlowTree)
    IN ToSet(paths) = {PathOf(p): p \in leaves} /\ IsInjective(paths)

(* The panel does not reshuffle: the rows do not depend on the order in    *)
(* which the lines of one source came.                                     *)
OrderFree ==
    LET Ranks(rows) == [i \in DOMAIN rows |-> [label |-> rows[i].label, stats |-> rows[i].stats]]
        backwards == build_flow_tree(Reverse(radostrace_events), Reverse(osdtrace_events), flow_metric, flow_sort)
    IN (radostrace_events = <<>> \/ osdtrace_events = <<>>) => Ranks(FlowTree.rows) = Ranks(backwards.rows)

(* The panel, its paths and its totals are three readings of one tree.     *)
FlowReads == LevelsAgree /\ PathsAreBranches /\ OrderFree
=============================================================================
