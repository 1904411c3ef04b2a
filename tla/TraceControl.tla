---------------------------- MODULE TraceControl ----------------------------
(***************************************************************************)
(* The controller side of the three trace sources of the TUI (src/app.rs,  *)
(* src/main.rs, src/editor.rs): the main loop that owns App, one worker    *)
(* thread per source and host, the thread that installs osdtrace, and the  *)
(* mpsc channel on which the threads report to the main loop.              *)
(*                                                                         *)
(* osdtrace runs on App.hosts, which the config screen may change while it *)
(* runs; kfstrace and radostrace run on App.client_hosts, which no screen  *)
(* changes, and have one implementation twice.                             *)
(*                                                                         *)
(* Each Arc<AtomicBool> stop flag gets a number, so that the flag a worker *)
(* was given can be compared with the one the App holds now. The sources   *)
(* that one action starts share the number; a flag is the pair of both.    *)
(*                                                                         *)
(* A definition named X_fault is X with a plausible mistake in it. Nothing *)
(* uses it; it documents which property notices the mistake.               *)
(***************************************************************************)
EXTENDS Integers, Sequences, FiniteSets

CONSTANTS
    Hosts,          (* rows the host list of the profile may have          *)
    ClientHosts,    (* client_hosts                                        *)
    ClientSources,  (* the sources that run on client_hosts                *)
    MaxArcs,        (* bound: stop flags allocated in a behaviour          *)
    MaxChan         (* bound: a worker adds no line to a longer channel    *)

Osd == "osdtrace"
Sources == {Osd} \cup ClientSources

ASSUME FiniteHosts == IsFiniteSet(Hosts) /\ IsFiniteSet(ClientHosts)
ASSUME OsdIsNoClient == Osd \notin ClientSources
ASSUME Bounds == MaxArcs \in Nat /\ MaxChan \in Nat

NoSession == 0
NoAction == [kind |-> "none", on |-> {}]
Actions == {NoAction} \cup [kind : {"start", "stop"}, on : SUBSET Sources]

(* Worker threads and what they send: TraceLine, KfsLine, RadosLine as     *)
(* "line", TraceDone, KfsDone, RadosDone as "done". The messages carry a   *)
(* host only; "from" is known to the model, not to the receiver.           *)
Workers == [src : Sources, arc : 1..MaxArcs, host : Hosts \cup ClientHosts]
NoWorker == [src |-> Osd, arc |-> 0, host |-> Osd]
Messages == [type : {"line", "done"}, from : Workers] \cup [type : {"install"}, from : {NoWorker}]
Done(w) == [type |-> "done", from |-> w]
Line(w) == [type |-> "line", from |-> w]
Installed == [type |-> "install", from |-> NoWorker]

VARIABLES
    stage,          (* run_app: "opening" before start_live_app,           *)
                    (* "live", "quitting" once begin_shutdown is entered   *)
    hosts,          (* App.hosts                                           *)
    pending,        (* App.pending_trace_action                            *)
    active,         (* trace_active, kfstrace_active, radostrace_active    *)
    session,        (* trace_session ...: the run whose id it holds        *)
    current,        (* trace_stop ...: the flag the App holds              *)
    following,      (* trace_following                                     *)
    view,           (* trace_events ...: the runs whose lines it holds     *)
    arcs,           (* stop flags allocated so far                         *)
    stopped,        (* flags that store true                               *)
    asked,          (* runners a remote cleanup was issued for             *)
    live,           (* worker threads that have not sent their "done"      *)
    installing,     (* install threads that have not reported              *)
    chan            (* messages sent and not yet received                  *)

loopVars == <<stage, hosts, pending>>
runVars == <<active, session, current, following, view, arcs, stopped, asked>>
threadVars == <<live, installing, chan>>
vars == <<loopVars, runVars, threadVars>>

HostsOf(s) == IF s = Osd THEN hosts ELSE ClientHosts
Flag(w) == <<w.src, w.arc>>
WorkersOf(s, arc, on) == {[src |-> s, arc |-> arc, host |-> h] : h \in on}

(* source_running: what the t/f/r and a keys take for a running source.    *)
source_running(s) == active[s] > 0 \/ (s = Osd /\ following)

(* The runners a cleanup_*_async or _wait call for source s goes to: those *)
(* of the recorded session on the hosts listed now, none without one.      *)
CleanupTargets_fault(s) ==
    IF session[s] = NoSession THEN {} ELSE WorkersOf(s, session[s], hosts)
CleanupTargets(s) ==
    IF session[s] = NoSession THEN {} ELSE WorkersOf(s, session[s], HostsOf(s))

Init ==
    /\ stage = "opening"
    /\ hosts \in (SUBSET Hosts) \ {{}}
    /\ pending = NoAction
    /\ active = [s \in Sources |-> 0]
    /\ session = [s \in Sources |-> NoSession]
    /\ current = [s \in Sources |-> 0]
    /\ following = FALSE
    /\ view = [s \in Sources |-> {}]
    /\ arcs = 0
    /\ stopped = {}
    /\ asked = {}
    /\ live = {}
    /\ installing = 0
    /\ chan = <<>>

-----------------------------------------------------------------------------
(* Starting and stopping sources.                                          *)

(* The sources among S that a start really starts: spawn_trace_run and its *)
(* siblings return early while a run is counted or without hosts.          *)
Startable(S) == {s \in S : active[s] = 0 /\ HostsOf(s) # {}}

(* The flags a start raises before it replaces them.                       *)
RaisedByStart_fault(go) == {}
RaisedByStart(go) == {<<s, current[s]>> : s \in go}

(* The event buffers after a start.                                        *)
ViewAfterStart_fault(go) == view
ViewAfterStart(go) == [s \in Sources |-> IF s \in go THEN {} ELSE view[s]]

(* start_source on each source of S: one worker is spawned per host.       *)
start_sources(S) ==
    LET go == Startable(S) IN
    /\ go # {} => arcs < MaxArcs
    /\ arcs' = IF go = {} THEN arcs ELSE arcs + 1
    /\ stopped' = stopped \cup RaisedByStart(go)
    /\ current' = [s \in Sources |-> IF s \in go THEN arcs + 1 ELSE current[s]]
    /\ session' = [s \in Sources |-> IF s \in go THEN arcs + 1 ELSE session[s]]
    /\ active' = [s \in Sources |-> IF s \in go THEN Cardinality(HostsOf(s)) ELSE active[s]]
    /\ view' = ViewAfterStart(go)
    /\ live' = live \cup UNION {WorkersOf(s, arcs + 1, HostsOf(s)) : s \in go}
    /\ following' = (following \/ Osd \in go)
    /\ UNCHANGED asked

(* The flags that stopping the sources of S raises: trace_stop.store(true) *)
(* and its siblings, in stop_source and in shutdown_streams.               *)
RaisedByStop(S) == {<<s, current[s]>> : s \in S}

(* stop_source on each source of S. Only osdtrace forgets its session at   *)
(* once, and only when no runner is counted any more.                      *)
stop_sources(S) ==
    /\ stopped' = stopped \cup RaisedByStop(S)
    /\ asked' = asked \cup UNION {CleanupTargets(s) : s \in S}
    /\ following' = (following /\ Osd \notin S)
    /\ session' = [s \in Sources |-> IF s = Osd /\ s \in S /\ active[s] = 0
                                     THEN NoSession ELSE session[s]]
    /\ UNCHANGED <<active, current, view, live, arcs>>

-----------------------------------------------------------------------------
(* The main loop. It handles one key at a time, between two drains.        *)

(* The first pass of run_app on a large enough terminal; auto is           *)
(* trace_auto_start.                                                       *)
start_live_app(auto) ==
    /\ stage = "opening"
    /\ stage' = "live"
    /\ start_sources(IF auto THEN {Osd} ELSE {})
    /\ UNCHANGED <<hosts, pending, installing, chan>>

AcceptsKey == stage = "live" /\ pending = NoAction

(* t, f, r on the selected source. The first press on another source only  *)
(* selects its panel, which is no state of this module.                    *)
request_source(s) ==
    /\ AcceptsKey
    /\ pending' = [kind |-> IF source_running(s) THEN "stop" ELSE "start", on |-> {s}]
    /\ UNCHANGED <<stage, hosts, runVars, threadVars>>

(* The a key: the choice is made when the key is pressed, not when the     *)
(* dialog is confirmed.                                                    *)
request_all ==
    /\ AcceptsKey
    /\ pending' = [kind |-> IF \E s \in Sources : source_running(s) THEN "stop" ELSE "start",
                   on |-> Sources]
    /\ UNCHANGED <<stage, hosts, runVars, threadVars>>

deny_trace_action ==
    /\ stage = "live" /\ pending # NoAction
    /\ pending' = NoAction
    /\ UNCHANGED <<stage, hosts, runVars, threadVars>>

(* Enter or y in the confirmation dialog: execute_trace_action.            *)
execute_trace_action ==
    /\ stage = "live" /\ pending # NoAction
    /\ pending' = NoAction
    /\ \/ pending.kind = "start" /\ start_sources(pending.on)
       \/ pending.kind = "stop" /\ stop_sources(pending.on)
    /\ UNCHANGED <<stage, hosts, installing, chan>>

(* The i key: spawn_trace_install books the hosts on the osdtrace counter. *)
spawn_trace_install ==
    /\ AcceptsKey
    /\ active[Osd] = 0
    /\ active' = [active EXCEPT ![Osd] = Cardinality(hosts)]
    /\ following' = FALSE
    /\ installing' = installing + 1
    /\ UNCHANGED <<loopVars, session, current, view, arcs, stopped, asked, live, chan>>

(* The x key: every captured source is dropped.                            *)
clear_captured ==
    /\ AcceptsKey
    /\ view' = [s \in Sources |-> {}]
    /\ UNCHANGED <<loopVars, active, session, current, following, arcs, stopped, asked,
                   threadVars>>

(* persist_and_apply_config when the admin host, the hosts or the refresh  *)
(* interval changed: shutdown_streams(app, false) on the old hosts, then   *)
(* the osdtrace counters are reset while its workers are still ending.     *)
persist_and_apply_config(newHosts) ==
    /\ AcceptsKey
    /\ arcs < MaxArcs
    /\ stopped' = stopped \cup RaisedByStop(Sources)
    /\ asked' = asked \cup UNION {CleanupTargets(s) : s \in Sources}
    /\ hosts' = newHosts
    /\ arcs' = arcs + 1
    /\ current' = [current EXCEPT ![Osd] = arcs + 1]
    /\ following' = FALSE
    /\ active' = [active EXCEPT ![Osd] = 0]
    /\ session' = [session EXCEPT ![Osd] = NoSession]
    /\ UNCHANGED <<stage, pending, view, threadVars>>

(* Quit or Ctrl-C: shutdown_streams(app, true). The main loop drains no    *)
(* message after it.                                                       *)
begin_shutdown ==
    /\ stage = "live"
    /\ stage' = "quitting"
    /\ stopped' = stopped \cup RaisedByStop(Sources)
    /\ asked' = asked \cup UNION {CleanupTargets(s) : s \in Sources}
    /\ UNCHANGED <<hosts, pending, active, session, current, following, view, arcs,
                   threadVars>>

-----------------------------------------------------------------------------
(* Worker threads: spawn_trace_runner and spawn_client_trace_runner.       *)

(* A line of the remote tracer. Lines are forwarded until the ssh child is *)
(* gone, also after the flag was raised, and all before "done": the client *)
(* workers join their readers, and the osdtrace worker forwards the        *)
(* tracer's output itself. (What ssh prints on stderr is no trace event.)  *)
worker_line(w) ==
    /\ Len(chan) < MaxChan
    /\ chan' = Append(chan, Line(w))
    /\ UNCHANGED <<loopVars, runVars, live, installing>>

worker_done_fault(w) ==
    /\ chan' = Append(chan, Done(w))
    /\ UNCHANGED <<loopVars, runVars, live, installing>>
worker_done(w) ==
    /\ live' = live \ {w}
    /\ chan' = Append(chan, Done(w))
    /\ UNCHANGED <<loopVars, runVars, installing>>

(* The poll loop sees the flag, kills and reaps ssh, joins its helpers.    *)
worker_sees_stop(w) == w \in live /\ Flag(w) \in stopped /\ worker_done(w)

(* ssh could not be started, or the remote end exited by itself.           *)
worker_exits(w) == w \in live /\ Flag(w) \notin stopped /\ worker_done(w)

install_reports ==
    /\ installing > 0
    /\ installing' = installing - 1
    /\ chan' = Append(chan, Installed)
    /\ UNCHANGED <<loopVars, runVars, live>>

-----------------------------------------------------------------------------
(* drain_worker_messages, one message of the channel at a time.            *)

Receives(type) ==
    /\ stage # "quitting"
    /\ chan # <<>>
    /\ Head(chan).type = type
    /\ chan' = Tail(chan)

(* TraceLine, KfsLine, RadosLine: a parsed event joins the event buffer.   *)
receive_line ==
    /\ Receives("line")
    /\ LET w == Head(chan).from
       IN view' = [view EXCEPT ![w.src] = @ \cup {w.arc}]
    /\ UNCHANGED <<loopVars, active, session, current, following, arcs, stopped, asked,
                   live, installing>>

(* The counter after one "done": saturating_sub(1).                        *)
Uncounted_wraps(s) == active[s] - 1
Uncounted_fault(s) == 0
Uncounted(s) == IF active[s] > 0 THEN active[s] - 1 ELSE 0

(* The session after a "done" that leaves n runners counted.               *)
SessionAfterDone_fault(s, n) == NoSession
SessionAfterDone(s, n) == IF n = 0 THEN NoSession ELSE session[s]

(* trace_following after a "done" of source s that leaves n counted.       *)
FollowingAfterDone_fault(s, n) == following
FollowingAfterDone(s, n) == following /\ ~(s = Osd /\ n = 0)

(* TraceDone, KfsDone, RadosDone. No arm asks which run the worker         *)
(* belonged to.                                                            *)
receive_done ==
    /\ Receives("done")
    /\ LET s == Head(chan).from.src
           n == Uncounted(s)
       IN /\ active' = [active EXCEPT ![s] = n]
          /\ session' = [session EXCEPT ![s] = SessionAfterDone(s, n)]
          /\ following' = FollowingAfterDone(s, n)
    /\ UNCHANGED <<loopVars, current, view, arcs, stopped, asked, live, installing>>

(* TraceInstall: the counter is cleared, whoever counts on it now.         *)
AfterInstall_fault == active
AfterInstall == [active EXCEPT ![Osd] = 0]
receive_install ==
    /\ Receives("install")
    /\ active' = AfterInstall
    /\ UNCHANGED <<loopVars, session, current, following, view, arcs, stopped, asked,
                   live, installing>>

-----------------------------------------------------------------------------
MainLoop ==
    \/ \E auto \in BOOLEAN : start_live_app(auto)
    \/ \E s \in Sources : request_source(s)
    \/ request_all
    \/ deny_trace_action
    \/ execute_trace_action
    \/ spawn_trace_install
    \/ clear_captured
    \/ \E newHosts \in (SUBSET Hosts) \ {{}} : persist_and_apply_config(newHosts)
    \/ begin_shutdown

Threads ==
    \/ \E w \in live : worker_line(w)
    \/ \E w \in live : worker_sees_stop(w)
    \/ \E w \in live : worker_exits(w)
    \/ install_reports

Drain == receive_line \/ receive_done \/ receive_install

Next == MainLoop \/ Threads \/ Drain

Spec == Init /\ [][Next]_vars

(* The main loop polls for at most 150 ms between drains, a worker looks   *)
(* at its flag every 100 ms, and an install thread runs to its end. The    *)
(* operator, and a remote tracer that keeps running, owe nothing.          *)
Fairness ==
    /\ WF_vars(Drain)
    /\ WF_vars(install_reports)
    /\ \A w \in Workers : WF_vars(worker_sees_stop(w))

FairSpec == Spec /\ Fairness

-----------------------------------------------------------------------------
(* What the properties are stated with.                                    *)

(* The workers the App has not heard the "done" of: still running, or      *)
(* their "done" waits in the channel.                                      *)
Waits(m) == \E i \in 1..Len(chan) : chan[i] = m
Unheard == {w \in Workers : w \in live \/ Waits(Done(w))}
UnheardOf(s) == {w \in Unheard : w.src = s}
UnheardOfRun(s) == {w \in UnheardOf(s) : w.arc = current[s]}

TypeOK ==
    /\ stage \in {"opening", "live", "quitting"}
    /\ hosts \in (SUBSET Hosts) \ {{}}
    /\ pending \in Actions
    /\ active \in [Sources -> Nat]
    /\ session \in [Sources -> 0..MaxArcs]
    /\ current \in [Sources -> 0..MaxArcs]
    /\ following \in BOOLEAN
    /\ view \in [Sources -> SUBSET (1..MaxArcs)]
    /\ arcs \in 0..MaxArcs
    /\ stopped \in SUBSET (Sources \X (0..MaxArcs))
    /\ asked \in SUBSET Workers
    /\ live \in SUBSET Workers
    /\ installing \in Nat
    /\ chan \in Seq(Messages)

(* Every worker ends its reports with one "done": the message is sent      *)
(* once, and no line of the worker is sent after it. The counters of the   *)
(* App, which a "done" lowers, cannot be right otherwise.                  *)
ReportsOnce ==
    \A i \in 1..Len(chan) :
        chan[i].type = "done" =>
            /\ chan[i].from \notin live
            /\ \A j \in 1..Len(chan) : chan[j] = chan[i] => j = i
LinesFirst ==
    \A i \in 1..Len(chan) :
        chan[i].type = "line" =>
            \/ chan[i].from \in live
            \/ \E j \in i+1 .. Len(chan) : chan[j] = Done(chan[i].from)
Reports == ReportsOnce /\ LinesFirst

(* A worker can be told to stop as long as it runs: either the App still   *)
(* holds the flag the worker was given, or that flag was raised before the *)
(* App dropped it. spawn_*_run and persist_and_apply_config replace the    *)
(* flag (app.rs:810, editor.rs:488) while old workers may still run.       *)
NoUnstoppableWorker == \A w \in live : w.arc = current[w.src] \/ Flag(w) \in stopped

(* The counter of a client source is the number of its workers the App has *)
(* not heard of, although every arm of the drain only subtracts one and    *)
(* "done" messages carry no session. source_running, the start guard and   *)
(* the moment the session is forgotten all rest on it.                     *)
ClientCounted ==
    \A s \in ClientSources : active[s] = Cardinality(UnheardOf(s))

(* While a worker of a client source is unheard of, the flag the App holds *)
(* and the session it would send to the host in a cleanup are the worker's *)
(* own.                                                                    *)
ClientSession ==
    \A s \in ClientSources : \A w \in UnheardOf(s) :
        session[s] = w.arc /\ current[s] = w.arc

(* The event buffer of a client source shows lines of the current run      *)
(* only: no late line of an earlier run lands in the buffer that           *)
(* spawn_kfstrace_run or spawn_radostrace_run cleared.                     *)
ClientView == \A s \in ClientSources : view[s] \subseteq {current[s]}

(* A running client worker whose flag was raised, by a stop, by a config   *)
(* change or by quitting, also had its remote tracer's cleanup issued: the *)
(* cleanup was never sent without a session, with another session or to    *)
(* other hosts.                                                            *)
ClientStopCleaned ==
    \A w \in live : w.src \in ClientSources /\ Flag(w) \in stopped => w \in asked

(* osdtrace is shown as followed only while a runner of the current run is *)
(* unheard of, and no more runners are counted than that: a late "done" or *)
(* TraceInstall of the time before a config change may lower the counter   *)
(* too far but never leaves it too high, where no message would come to    *)
(* lower it and a new start would be refused for ever.                     *)
OsdFollowed ==
    following => /\ UnheardOfRun(Osd) # {}
                 /\ active[Osd] <= Cardinality(UnheardOfRun(Osd))

(* The same for a stopped or exhausted run: a count above the unheard      *)
(* workers of the current run is owed to an install that will report.      *)
OsdCounted ==
    \/ active[Osd] <= Cardinality(UnheardOfRun(Osd))
    \/ installing > 0
    \/ Waits(Installed)

(* Once stopped, a source's counter reaches zero, which is what allows the *)
(* next start, or the program quits.                                       *)
StopCompletes ==
    \A s \in Sources :
        (active[s] > 0 /\ <<s, current[s]>> \in stopped)
            ~> (active[s] = 0 \/ stage = "quitting")

(* README.md:312, "t / f / r ... press again to start or stop": while an   *)
(* osdtrace worker runs that nothing told to stop, the source counts as    *)
(* running, so that the key stops it.                                      *)
RunningShown ==
    (\E w \in live : w.src = Osd /\ Flag(w) \notin stopped) => source_running(Osd)

(* The client sources as runs that follow each other.                      *)
Phase(s) ==
    IF active[s] = 0 THEN "idle"
    ELSE IF <<s, current[s]>> \in stopped THEN "stopping" ELSE "running"
Run(s) ==
    [phase |-> Phase(s), id |-> current[s], out |-> Cardinality(UnheardOfRun(s)),
     shown |-> view[s]]
Runs == INSTANCE TraceSource WITH run <- [s \in ClientSources |-> Run(s)]
RunsSpec == Runs!Spec
=============================================================================
