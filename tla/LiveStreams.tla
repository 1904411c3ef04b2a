---------------------------- MODULE LiveStreams -----------------------------
(***************************************************************************)
(* The persistent ssh streams of the TUI (src/app.rs, src/editor.rs): one  *)
(* thread that keeps a cluster stream open to the admin host and one per   *)
(* host, the thread that reads each stream's stderr, the mpsc channel to   *)
(* the main loop, and what the main loop makes of the messages: the        *)
(* stream states, the node summaries, the snapshot, the session records.   *)
(*                                                                         *)
(* All streams of a configuration share one stop flag; the config screen   *)
(* raises it and starts new threads with a new one. A flag is a number,    *)
(* "epoch" the one the App holds. A payload is what its reader can tell    *)
(* apart: accepted, or refused by the parser.                              *)
(*                                                                         *)
(* A definition named X_fault is X with a plausible mistake in it. Nothing *)
(* uses it; it documents which property notices the mistake.               *)
(***************************************************************************)
EXTENDS Integers, Sequences, FiniteSets, Functions

CONSTANTS
    Hosts,          (* ssh aliases                                         *)
    Configs,        (* [admin, hosts]: the profiles that may be applied    *)
    SnapshotLimit,  (* SESSION_SNAPSHOT_LIMIT                              *)
    MaxEpochs,      (* bound: stop flags allocated in a behaviour          *)
    Chatty,         (* ids whose ssh may write on stderr                   *)
    Payloads,       (* what lines come: some that parse, some that do not  *)
    MaxPer,         (* bound: messages of a sender that wait at once       *)
    MaxChan         (* bound: messages that wait at once                   *)

(* The hosts are the list of the profile: a file may name a host twice.    *)
ASSUME ConfigShape ==
    \A c \in Configs : c.admin \in Hosts /\ c.hosts \in Seq(Hosts) \ {<<>>}
ASSUME Bounds ==
    /\ SnapshotLimit \in Nat /\ MaxEpochs \in Nat \ {0}
    /\ MaxPer \in Nat \ {0} /\ MaxChan \in Nat \ {0}
    /\ Payloads \subseteq {"Line", "Refused"} /\ Payloads # {}

(* Stream ids, "cluster:<admin>" and "node:<host>".                        *)
Ids == [kind : {"cluster", "node"}, host : Hosts]
Cluster(h) == [kind |-> "cluster", host |-> h]
Node(h) == [kind |-> "node", host |-> h]
IdsOf(c) == {Cluster(c.admin)} \cup {Node(h) : h \in Range(c.hosts)}

(* The threads that start_live_streams starts: one for the admin host and  *)
(* one for each entry of the list of hosts. A thread is the id it is given,*)
(* its place in the list and its stop flag. Messages carry the id only:    *)
(* the rest is known to the model, not to the receiver.                    *)
StreamsOf(c, e) ==
    {[id |-> Cluster(c.admin), entry |-> 0, epoch |-> e]}
    \cup {[id |-> Node(c.hosts[n]), entry |-> n, epoch |-> e] : n \in DOMAIN c.hosts}
Threads == UNION {StreamsOf(c, e) : c \in Configs, e \in 1..MaxEpochs}

Types == {"Connecting", "Connected", "Line", "Refused", "Error", "Disconnected"}
Messages == [type : Types, from : Threads]

(* Where a stream thread is in its loop: before the stop check at the top  *)
(* (at first, or in sleep_with_stop before it), before each of its sends,  *)
(* blocked in the read of the ssh child's stdout, holding a line that      *)
(* passed the stop check, past a failed read, past the end of the child.   *)
Running == {"top", "connecting", "spawning", "reading", "forwarding", "ended", "lost"}
Places == Running \cup {"none", "gone"}

(* StreamStatus.state; "none" where stream_statuses has no entry.          *)
States == {"none", "Connecting", "Live", "Reconnecting", "Error"}

(* App.snapshot: the admin host and hosts it is labelled with, the stream  *)
(* its data came from, the nodes that are not "waiting for stream".        *)
NoSnapshot == [admin |-> {}, hosts |-> <<>>, from |-> {}, nodes |-> {}]
Snapshots == [admin : SUBSET Hosts, hosts : Seq(Hosts), from : SUBSET Hosts, nodes : SUBSET Hosts]

VARIABLES
    stage,      (* "opening" before start_live_app, "live", "quitting"     *)
    config,     (* App.admin_host and App.hosts                            *)
    epoch,      (* App.stream_stop                                         *)
    raised,     (* stop flags that store true                              *)
    statuses,   (* App.stream_statuses                                     *)
    summaries,  (* the hosts that have an entry in App.node_summaries      *)
    snapshot,   (* App.snapshot                                            *)
    records,    (* App.session_records                                     *)
    pc,         (* the stream threads                                      *)
    stderr,     (* the threads with a stderr reader                        *)
    chan        (* messages sent and not yet received                      *)

viewVars == <<statuses, summaries, snapshot, records>>
configVars == <<stage, config, epoch, raised>>
vars == <<configVars, viewVars, pc, stderr, chan>>

Alive == {t \in Threads : pc[t] \in Running}

(* start_live_streams. (The mistake: the admin host has a stream already.) *)
Started_fault(c, e) ==
    [t \in Threads |-> IF /\ t \in StreamsOf(c, e)
                          /\ t.entry = 0 \/ t.id.host # c.admin
                       THEN "top" ELSE pc[t]]
Started(c, e) == [t \in Threads |-> IF t \in StreamsOf(c, e) THEN "top" ELSE pc[t]]

Init ==
    /\ stage = "opening"
    /\ config \in Configs
    /\ epoch = 1
    /\ raised = {}
    /\ statuses = [i \in Ids |-> "none"]
    /\ summaries = {}
    /\ snapshot = NoSnapshot
    /\ records = 0
    /\ pc = [t \in Threads |-> "none"]
    /\ stderr = {}
    /\ chan = <<>>

-----------------------------------------------------------------------------
(* A stream thread, spawn_persistent_ssh_stream.                           *)

Stopped(t) == t.epoch \in raised
Goes(t, from, to) == pc[t] = from /\ pc' = [pc EXCEPT ![t] = to]

(* The stderr reader, a sender of its own, sends every "Error" but the one *)
(* of a failed read. What is sent after the main loop has ended is left    *)
(* out: nobody receives it.                                                *)
WaitingOf(t) == {i \in 1..Len(chan) : chan[i].from = t /\ chan[i].type # "Error"}
ErrorsOf(t) == {i \in 1..Len(chan) : chan[i].from = t /\ chan[i].type = "Error"}
HasRoom(t, type) ==
    /\ Cardinality(IF type = "Error" THEN ErrorsOf(t) ELSE WaitingOf(t)) < MaxPer
    /\ Len(chan) < MaxChan
Sends(t, type) ==
    \/ stage = "quitting" /\ UNCHANGED chan
    \/ stage # "quitting" /\ HasRoom(t, type) /\ chan' = Append(chan, [type |-> type, from |-> t])

(* The loop condition, at once or when sleep_with_stop returns: after two  *)
(* seconds, or when it sees the flag.                                      *)
stream_top(t) ==
    /\ Goes(t, "top", IF Stopped(t) THEN "gone" ELSE "connecting")
    /\ UNCHANGED <<configVars, viewVars, stderr, chan>>

stream_connecting(t) ==
    /\ Goes(t, "connecting", "spawning")
    /\ Sends(t, "Connecting")
    /\ UNCHANGED <<configVars, viewVars, stderr>>

(* The ssh child is started: "Connected" is sent before ssh has connected. *)
stream_spawned(t) ==
    /\ Goes(t, "spawning", "reading")
    /\ Sends(t, "Connected")
    /\ stderr' = IF t.id \in Chatty THEN stderr \cup {t} ELSE stderr
    /\ UNCHANGED <<configVars, viewVars>>

stream_spawn_fails(t) ==
    /\ Goes(t, "spawning", "top")
    /\ Sends(t, "Disconnected")
    /\ UNCHANGED <<configVars, viewVars, stderr>>

(* A line arrives: the flag is looked at now, and only now, while the      *)
(* connection lasts. A stopped thread kills and reaps its child.           *)
PlaceAfterLine_fault(t) == "forwarding"
PlaceAfterLine(t) == IF Stopped(t) THEN "gone" ELSE "forwarding"
stream_line(t) ==
    /\ Goes(t, "reading", PlaceAfterLine(t))
    /\ UNCHANGED <<configVars, viewVars, stderr, chan>>

stream_forward(t) ==
    /\ Goes(t, "forwarding", "reading")
    /\ \E type \in Payloads : Sends(t, type)
    /\ UNCHANGED <<configVars, viewVars, stderr>>

stream_read_fails(t) ==
    /\ ~Stopped(t)
    /\ Goes(t, "reading", "ended")
    /\ Sends(t, "Error")
    /\ UNCHANGED <<configVars, viewVars, stderr>>

(* The child's stdout ended or failed; the child is reaped, and the flag   *)
(* is looked at.                                                           *)
stream_ended(t) ==
    /\ \E from \in {"reading", "ended"} : Goes(t, from, IF Stopped(t) THEN "gone" ELSE "lost")
    /\ UNCHANGED <<configVars, viewVars, stderr, chan>>

stream_lost_fault(t) ==
    /\ Goes(t, "lost", "top")
    /\ UNCHANGED <<configVars, viewVars, stderr, chan>>
stream_lost(t) ==
    /\ Goes(t, "lost", "top")
    /\ Sends(t, "Disconnected")
    /\ UNCHANGED <<configVars, viewVars, stderr>>

(* A line on stderr. Nobody joins the reader, so what the child wrote may  *)
(* be sent after the thread went on. After the flag was raised one more    *)
(* line may be sent, whose check came before. (A reader that the next      *)
(* child finds still busy is counted as one with the new one.)             *)
stderr_line(t) ==
    /\ t \in stderr
    /\ Sends(t, "Error")
    /\ stderr' = IF Stopped(t) THEN stderr \ {t} ELSE stderr
    /\ UNCHANGED <<configVars, viewVars, pc>>

stderr_ends(t) ==
    /\ t \in stderr
    /\ Stopped(t) \/ pc[t] \notin {"reading", "forwarding"}
    /\ stderr' = stderr \ {t}
    /\ UNCHANGED <<configVars, viewVars, pc, chan>>

-----------------------------------------------------------------------------
(* The main loop.                                                          *)

start_live_app ==
    /\ stage = "opening"
    /\ stage' = "live"
    /\ pc' = Started(config, epoch)
    /\ UNCHANGED <<config, epoch, raised, viewVars, stderr, chan>>

(* What shutdown_streams does to the flag: live_streams_active holds on    *)
(* the live screens and on the config screen.                              *)
Raised_fault == raised
Raised == raised \cup {epoch}

(* persist_and_apply_config when the admin host, the hosts or the refresh  *)
(* interval changed (c = config stands for the last).                      *)
SnapshotAfterApply_fault == snapshot
SnapshotAfterApply == NoSnapshot
persist_and_apply_config(c) ==
    /\ stage = "live"
    /\ epoch < MaxEpochs
    /\ raised' = Raised
    /\ config' = c
    /\ epoch' = epoch + 1
    /\ statuses' = [i \in Ids |-> "none"]
    /\ summaries' = {}
    /\ snapshot' = SnapshotAfterApply
    /\ pc' = Started(c, epoch + 1)
    /\ UNCHANGED <<stage, records, stderr, chan>>

begin_shutdown ==
    /\ stage = "live"
    /\ stage' = "quitting"
    /\ raised' = raised \cup {epoch}
    /\ UNCHANGED <<config, epoch, viewVars, pc, stderr, chan>>

(* drain_worker_messages and handle_stream_msg, one message at a time.     *)
Receives(types) ==
    /\ stage # "quitting"
    /\ chan # <<>>
    /\ Head(chan).type \in types
    /\ chan' = Tail(chan)

(* set_stream_state, which enters an id the map does not have.             *)
StateOf_fault(type) == IF type = "Connecting" THEN "Connecting" ELSE "Live"
StateOf(type) ==
    CASE type = "Connecting" -> "Connecting"
      [] type = "Connected" -> "Live"
      [] type = "Error" -> "Error"
      [] type = "Disconnected" -> "Reconnecting"
receive_state ==
    /\ Receives({"Connecting", "Connected", "Error", "Disconnected"})
    /\ statuses' = [statuses EXCEPT ![Head(chan).from.id] = StateOf(Head(chan).type)]
    /\ UNCHANGED <<configVars, summaries, snapshot, records, pc, stderr>>

(* A payload that handle_stream_payload refuses (no JSON, an error of the  *)
(* remote script): set_stream_seen, then set_stream_state.                 *)
receive_refused ==
    /\ Receives({"Refused"})
    /\ statuses' = [statuses EXCEPT ![Head(chan).from.id] = "Error"]
    /\ UNCHANGED <<configVars, summaries, snapshot, records, pc, stderr>>

(* ordered_nodes: the configured hosts that a summary, or the snapshot so  *)
(* far, knows.                                                             *)
OrderedNodes(known) == Range(config.hosts) \cap (known \cup snapshot.nodes)

(* record_session_snapshot: append_snapshot may fail.                      *)
AfterRecord_fault == {records, records + 1}
AfterRecord == IF records < SnapshotLimit THEN {records, records + 1} ELSE {records}

(* An accepted payload of a cluster stream becomes the snapshot, labelled  *)
(* with the profile of now.                                                *)
receive_cluster_line ==
    /\ Receives({"Line"})
    /\ Head(chan).from.id.kind = "cluster"
    /\ statuses' = [statuses EXCEPT ![Head(chan).from.id] = "Live"]
    /\ records' \in AfterRecord
    /\ snapshot' = [admin |-> {config.admin}, hosts |-> config.hosts,
                    from |-> {Head(chan).from.id.host}, nodes |-> OrderedNodes(summaries)]
    /\ UNCHANGED <<configVars, summaries, pc, stderr>>

(* An accepted payload of a node stream, configured or not, becomes the    *)
(* host's summary, and the snapshot's nodes follow.                        *)
receive_node_line ==
    /\ Receives({"Line"})
    /\ Head(chan).from.id.kind = "node"
    /\ statuses' = [statuses EXCEPT ![Head(chan).from.id] = "Live"]
    /\ summaries' = summaries \cup {Head(chan).from.id.host}
    /\ snapshot' = IF snapshot = NoSnapshot THEN NoSnapshot
                   ELSE [snapshot EXCEPT !.nodes = OrderedNodes(summaries')]
    /\ UNCHANGED <<configVars, records, pc, stderr>>

-----------------------------------------------------------------------------
StreamThread(t) ==
    \/ stream_top(t)
    \/ stream_connecting(t)
    \/ stream_spawned(t)
    \/ stream_spawn_fails(t)
    \/ stream_line(t)
    \/ stream_forward(t)
    \/ stream_read_fails(t)
    \/ stream_ended(t)
    \/ stream_lost(t)

StderrReader(t) == stderr_line(t) \/ stderr_ends(t)

Drain == receive_state \/ receive_refused \/ receive_cluster_line \/ receive_node_line

MainLoop ==
    \/ start_live_app
    \/ \E c \in Configs : persist_and_apply_config(c)
    \/ begin_shutdown
    \/ Drain

Next ==
    \/ MainLoop
    \/ \E t \in Threads : StreamThread(t)
    \/ \E t \in Threads : StderrReader(t)

Spec == Init /\ [][Next]_vars

(* The main loop drains every 150 ms; a thread goes on, the one in the     *)
(* read because the remote script prints each interval and ssh's           *)
(* ServerAliveInterval ends a dead connection. Strong fairness, because    *)
(* only MaxChan can make a send wait, in which others might take the room  *)
(* again and again: a send of the code never waits. The operator owes      *)
(* nothing, and nothing comes on stderr unless something is wrong.         *)
Fairness == WF_vars(Drain) /\ \A t \in Threads : SF_vars(StreamThread(t))
FairSpec == Spec /\ Fairness

-----------------------------------------------------------------------------
(* What the properties are stated with.                                    *)

TypeOK ==
    /\ stage \in {"opening", "live", "quitting"}
    /\ config \in Configs
    /\ epoch \in 1..MaxEpochs
    /\ raised \in SUBSET (1..MaxEpochs)
    /\ statuses \in [Ids -> States]
    /\ summaries \in SUBSET Hosts
    /\ snapshot \in Snapshots
    /\ records \in 0..SnapshotLimit
    /\ pc \in [Threads -> Places]
    /\ stderr \in SUBSET Threads
    /\ chan \in Seq(Messages)

(* While the TUI is live, the stream threads that nothing told to stop are *)
(* one for the admin host and one for each entry of the list of hosts of   *)
(* the profile of now, across any number of config changes that start new  *)
(* threads while old ones still run (README.md:360; start_live_streams).   *)
Current == {t \in Alive : ~Stopped(t)}
OneStreamEach == stage = "live" => Current = StreamsOf(config, epoch)

(* README.md:360, "one SSH stream open for cluster status and one stream   *)
(* per host": no two threads that nothing told to stop have one id. The    *)
(* code promises it of a list of hosts without duplicates only.            *)
OneStreamPerHost == stage = "live" => \A t, u \in Current : t.id = u.id => t = u

(* The snapshot is labelled with the profile of now, and its nodes are the *)
(* configured hosts that have reported since the profile was applied: no   *)
(* host that left the profile, whose late lines still come in, is among    *)
(* them, and none that reported is missing.                                *)
SnapshotConfigured ==
    snapshot # NoSnapshot =>
        /\ snapshot.admin = {config.admin}
        /\ snapshot.hosts = config.hosts
        /\ snapshot.nodes = Range(config.hosts) \cap summaries

(* Before the profile changes, an id that is shown live and of which       *)
(* nothing waits has a thread with an ssh child, or with a child whose end *)
(* it is about to tell: a late line on stderr may show a stream worse than *)
(* it is, but no order of the messages of its senders shows it better.     *)
WithChild == {"reading", "forwarding", "ended", "lost"}
WaitingFor(i) == {k \in 1..Len(chan) : chan[k].from.id = i /\ chan[k].type # "Error"}
LiveIsOpen ==
    stage = "live" /\ epoch = 1 =>
        \A i \in Ids :
            statuses[i] = "Live" /\ WaitingFor(i) = {} =>
                \E t \in Threads : t.id = i /\ t.epoch = 1 /\ pc[t] \in WithChild

(* The threads of a profile that was replaced end, whatever they were      *)
(* doing when the flag was raised and however often the profile changes.   *)
StoppedStreamsEnd ==
    \A t \in Threads : (pc[t] \in Running /\ Stopped(t)) ~> (pc[t] = "gone")

(* A lost connection of a current stream comes to be shown, though later   *)
(* messages of the same stream follow the one that says so.                *)
LossShown ==
    \A t \in Threads :
        (pc[t] = "lost") ~> (\/ statuses[t.id] = "Reconnecting"
                             \/ Stopped(t))

(* README.md:341, config edits are "applied to the live SSH streams        *)
(* immediately after the edit is confirmed": once every thread of an       *)
(* earlier profile is gone and all it sent was received, the stream states *)
(* (which stream_counts counts for the header and the diagnosis) are those *)
(* of the streams of the profile of now, and the data of the snapshot is   *)
(* that of the admin host it is labelled with (README.md:180, "admin_host  *)
(* is the host where cephlens runs Ceph admin commands").                  *)
Settled ==
    /\ \A t \in Threads : t.epoch # epoch => pc[t] \in {"none", "gone"} /\ t \notin stderr
    /\ \A i \in 1..Len(chan) : chan[i].from.epoch = epoch
ProfileShown ==
    Settled => /\ \A i \in Ids : statuses[i] # "none" => i \in IdsOf(config)
               /\ snapshot.from = snapshot.admin
=============================================================================
