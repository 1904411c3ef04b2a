# TLA+ models of cephlens

cephlens is a terminal UI that watches a Ceph cluster over ssh. It keeps
persistent ssh streams for status, deploys temporary latency tracers on the
hosts and reads their output, records what it sees, and diagnoses it. These
modules model its control of threads, streams and remote processes, and the
screens, files, buffers and verdicts of its main loop; TLC checks them on small
instances, and TLAPS proves the main safety properties for any instance. All
definitions are translated from the Rust sources under `src/src` (and the shell
scripts inside them).

## The system

| Part | State it keeps | Operations | Hard behaviour | Module |
| --- | --- | --- | --- | --- |
| Trace source control (`app.rs`, `main.rs`, `editor.rs`) | per source: active counter, session id, stop flag, event buffer; `trace_following`; the pending action | start, stop, start/stop all, install, clear, the drain of worker messages, config change, quit | threads outlive the flag and session they were given; messages carry no session | `TraceControl`, `TraceSource` |
| Live ssh streams (`app.rs`, `editor.rs`) | the stop flag, `stream_statuses`, `node_summaries`, `snapshot`, `session_records`; the threads' loops | connect, read, reconnect, stderr, drain, config change, quit | old and new threads overlap; an unjoined stderr reader; messages drained after a reset | `LiveStreams` |
| osdtrace runner (`runner.rs`, `util.rs`) | on the host: pidfile, script file, the processes of runner, TTL sleeper, connection watcher, osdtrace | install, run, stop by TERM, TTL, lost connection, cleanup by another session | signals between any two commands of a shell script; a closed connection; cleanups from other connections | `RemoteRunner` |
| Config editor (`editor.rs`, `config.rs`, `main.rs`) | draft, selection, input line, dirty mark, the file | edit, add, delete, toggle, save, leave, the next start | the file is others' too, and written in place; a draft that is not what runs | `ConfigEditor` |
| Keys, dialogs, screens (`main.rs`, `app.rs`, `ui.rs`) | mode, dialogs, the pending question, the source shown, the redraw mark | every key of the loop, resize, draw | a key meets another state than the picture it was pressed over | `Keyboard` |
| Panels (`main.rs`, `ui.rs`, `util.rs`) | focus, scroll counters, heights | focus, scroll, Home, End, resize | keys clamp by one quantity, draw by another | `Panels` |
| Trace series (`trace.rs`, `app.rs`) | event buffer, a ring of buckets per OSD | record, trim, aggregate, rank | bucket boundaries; a clock that steps back; a retention that changes | `TraceSeries` |
| Flow view (`flow.rs`, `ui.rs`) | the captured lines, metric and order | build, merge two sources, rank, cut, lay out, read the rows | operations counted twice, or lost when two sources meet | `Flow` |
| Diagnosis and history (`diagnose.rs`, `app.rs`) | the evidence; timed insights | every rule; remember, expire, show | thresholds and ties; window, limit and de-duplication at once | `Insights` |
| Client trace parsers (`kfstrace.rs`, `radostrace.rs`) | none | rows per operation and per pool | none | rows in `Insights` |
| Client tracer on its host (`trace.rs`, `util.rs`) | pidfile and processes on the client host | as the osdtrace runner | the same | not modelled |
| Status stream scripts (`stream.rs`) | cached answers of rotated queries | one tick | a failed query against its cached answer | not modelled |
| Session store (`session.rs`) | directories and append-only logs | create, append, prune, load | two processes prune and write at once | not modelled |
| Benchmark, lab, collect, ssh (`collect.rs`, `lab.rs`, `ssh.rs`, `util.rs`) | child processes, threads to join | run, capture, clean up | one step of several fails | not modelled |
| Widgets, report, doctor, build (`ui.rs`, `report.rs`, `doctor.rs`) | none of their own | render, print | none | not modelled |

The main loop of `run_app` owns the whole `App`. It drains one mpsc channel,
draws, polls the keyboard for at most 150 ms, handles one key, and starts over.
Everything else runs in threads that hold a clone of the channel's sender and
an `Arc<AtomicBool>` stop flag, and that talk to a host through an `ssh` child.
The main loop never waits for a thread, except when it quits. So there are two
kinds of state to get right: what the main loop believes of threads that it
stopped, replaced or forgot, and of the messages they still send
(`TraceControl`, `LiveStreams`, `RemoteRunner`); and what the loop makes by
itself of keys, files and lines that come in any order (the other modules).

## Modules

`TraceControl` is the controller of the three trace sources. One action per
key, dialog answer, config change or quit, one per step of a worker thread, and
one per kind of message of the drain. `active`, `session`, `following`,
`current` (the stop flag) and `view` (which runs' lines the event buffer shows)
are the fields of `App`; kfstrace and radostrace are instances of one
definition, as their code is the same twice. Stop flags are numbered so that
the flag a worker was given can be told from the one the App holds now; the
number also stands for the session id, which a start allocates together with
the flag. (The code forms session ids from the second and the process id, so
two runs of one second share an id: that matters on the remote host only, and
is in `RemoteRunner`.) Which messages a worker sends follows
`spawn_client_trace_runner`, which joins its readers before "done", and
`spawn_trace_runner`, which forwards the tracer's output itself; what ssh
prints on stderr is no trace event and left out, as is the arm for a failed
`try_wait`, which the kernel does not return for a child of one's own.

`TraceSource` is what a client source promises: runs follow each other, one
starts from idle with an empty view, and is idle again exactly when its last
runner has reported. `TraceControl` implements it (`RunsSpec`) under the
mapping `Run`.

`LiveStreams` is the stream threads and what the main loop makes of their
messages. The hosts of a profile are a list, which a file may give with
duplicates: `resolve_config` takes it as it stands, and `start_live_streams`
starts one thread per entry. A thread is its stream id, its place in that list
and its stop flag ("epoch"); messages carry the id only. Its places are
the points of `spawn_persistent_ssh_stream` between which the flag may be
raised or another thread may send. The flag is read at the top of the loop,
when a line arrives, and when the child has ended, and nowhere else. A step of
a thread that nobody observes is merged with its neighbour: the wait in
`sleep_with_stop` with the loop condition after it, and the end of the child's
output with the check after it. The stderr reader is a sender of its own. A payload is
accepted or refused; the snapshot keeps its labels, the stream its data came
from, and which nodes it knows.

`RemoteRunner` is one remote host: the shell script that `t` installs and runs
there, its children (connection watcher, TTL sleeper, osdtrace under sudo), and
the pidfile cleanup that installs and stops run over other connections. Each
command of a script that another process can notice is one action, and the
start of a child and the store of its pid are two. A TERM to a runner depends
on where it is: before `trap` and after `trap -` it kills, in between it is
pending until the next command (a pending TERM also ends `wait`). An `echo` to
a connection that has closed kills dash with SIGPIPE; bash runs its EXIT trap
first; the model allows both. `sudo` and osdtrace may be missing, and osdtrace
may end at any time. `Name` gives the session's file name, which two sessions of
one second share; the theorems hold for any `Name`, and the run `_two` has
different ones. `Watched` are the sessions with `watch_connection`: the TUI
sets it and the lab does not. Processes have identities, as the start times that
the cleanup compares give them, so pid reuse is abstracted away. The
sleeper's own `sleep`, which ends by itself, is left out.

`ConfigEditor` is the config screen and the file. The draft, the row and the
input line are the fields of `ConfigEditor`. A save is two steps:
`persist_and_apply_config` checks the draft and loads the file (and may be
refused, or fail on a file that does not parse), and `write_config` writes what
was loaded with the profile put in (and may fail with the file as it was or
truncated), and applies the draft. `saving` holds what was loaded in between;
the screen takes no key then. `others_write` puts any of a set of files at the
path at any time, between the two steps of a save too: none, one that does not
parse, one with a duplicate host, a zero count and absent fields, one with a
blank `default_profile`. Text is one of the values it may hold on Enter, valid or not.
`resolve_config` is part of it, with its order of command line, profile and
defaults, since the next start is what a save is for.
The file is a record that keeps "absent" apart from "empty", as TOML does.
`Words` are the words a list of hosts may be typed with. `normalize_hosts` is a
fold that appends what is not there yet, as the loop in the code does.

`Keyboard` is the loop of `run_app`: drain and size check, draw, poll, one
event. The size is read twice, by the loop and by `terminal.draw`, and may
change in between. Each call on the terminal may fail, which ends `run_app`
without `begin_shutdown` (`look_fails`, `draw_fails`, `poll_fails`). `Handler` is the order in which `handle_key` asks the
dialogs, `Picture` the order in which `draw` paints them: the two differ.
The workers appear as what the loop can hear of them, a source that starts or
ends to run.

`Panels` are the counters behind focus, scrolling and heights, with what draw
makes of them, while lists grow or shrink and the terminal is resized.

`TraceSeries` records the lines of osdtrace into the buffer and the rings and
reads them as the rows of the trace panel; `seen_events` keeps all lines since
the last clear as the reference. The time is the bucket number of the wall
clock and may step either way; the config screen changes the window and the
TTL, and with them how much of a ring is kept.

`Flow` builds the tree of OSDs, PGs and objects by the same single pass over
the lines, as a function from paths to statistics, ranks and cuts it, lays it
out as rows, and reads paths and totals back from the rows, as `draw_flow`
does. The mean operation size is summed as the latency is, and left out.

`Insights` has each rule of `diagnose.rs` with its threshold, its order and
its tie-breaks (`max_by_key` takes the last of equals), and the history of
`app.rs`. A text is the tuple of what it names.

`Lists` has the filters and sorts that `TraceSeries`, `Flow` and `Insights`
take from Rust's iterators. A sorted list puts at place `i` the element that
has `i - 1` before it, and a filter does the same with the indexes that pass:
the same lists that a recursive definition would give, but told by sets, so
that their theorems need no induction over the list.

What one of these six modules takes from another (the captured lines, the
window, the flow view, the rows that the rules read) it has as an input of its
own that may change at any step, so that no variable of one is read by another.
`Cockpit` puts them together: the first state chooses a `part`, this part moves,
and the others rest in one of their initial states. A product in which all move
would have no other behaviour of any part, and no property speaks of two. The
part "verdicts" is the rules of the insights alone, read on more evidence
(`SomeEvidence`) than the history could be run with. `MCCockpit` gives
`Cockpit` the small instances of its parts. In the same way `TraceControl` and
`LiveStreams` contain the config change and quitting each as far as its own
state goes; they share the drain. A host of `TraceControl` stands for an entry
of the list of hosts: a host that a list names twice gets two runners, as two
hosts do.

Definitions named `X_fault` are plausible mistakes in `X`. They are used by no
action; each is what the property named in its comment would notice.

## What is checked

| Run | Instance | Result |
| --- | --- | --- |
| `TraceControl_osd` | osdtrace on up to two hosts that config changes choose anew, three stop flags | holds: types, `NoUnstoppableWorker`, `OsdFollowed`, `OsdCounted` |
| `TraceControl_client` | one client source on two hosts beside osdtrace on one, two stop flags, fair | holds: `Reports`, `ClientCounted`, `ClientSession`, `ClientView`, `ClientStopCleaned`, `RunsSpec`, `StopCompletes` |
| `TraceControl_shown` | as `_osd`, two flags | `RunningShown` is violated |
| `LiveStreams_change` | two profiles with one admin and different hosts, two flags | holds: types, `OneStreamEach`, `SnapshotConfigured` |
| `LiveStreams_open` | a list that names its host once or twice, ssh of the nodes writes on stderr, fair | holds: `OneStreamEach`, `LiveIsOpen`, `LossShown` |
| `LiveStreams_replaced` | a profile that is replaced at any point of its threads' loops, two flags, fair | holds: `StoppedStreamsEnd` |
| `LiveStreams_ghost` | as `_change` | `ProfileShown` is violated |
| `RemoteRunner_one` | one watched runner, its stop, TTL and connection, fair | holds: types, `ClosedEnds`, `TtlEnds` |
| `RemoteRunner_two` | two runners with different names, their TTLs and connections, each cleaned up by the other's install | holds: `CleanExit`, `CleanedTree` |
| `RemoteRunner_tree` | one runner | `TreeRemoved` is violated |
| `Cockpit` | the six modules of the main loop, one part at a time | holds: the 17 properties below |
| `Insights_stays` | a node whose operation in flight comes and goes between two cluster lines | `EvidenceStays` is violated |

The properties of `Cockpit`, by module (`TypesOK` is the types of all):

| Module | Property | What it says |
| --- | --- | --- |
| `ConfigEditor` | `DraftSaves` | a draft that the start and the input lines let through is one the save takes, if the profile has a name |
| | `CleanMeansLive` | an unmarked draft is what runs, also after a failed save |
| | `StreamsMatch` | streams run with the hosts, admin and interval shown as live |
| | `Restartable` | after a save, the next start resolves to what runs now |
| | `AdminFollowsHosts` | edits of host rows keep the admin host in the list |
| | `OthersKept` | a save loses no other profile, and replaces no unreadable file, unless others wrote between its load and its write |
| `Keyboard` | `KeysMeetTheScreen` | a key goes to the dialog that was drawn, unless a resize is on its way |
| | `StartedIsCleaned` | a session that started workers ends with their cleanup, on every way out but an error of the terminal |
| | `QuestionsAsked` | a question is about the source shown; quitting was asked for |
| `Panels` | `KeysShow` | arrows and resize keys show what they changed |
| `Flow` | `FlowReads` | levels add up, paths are the branches shown, the order of lines does not matter |
| | `ReplicasStay` | radostrace lines change none of the rows of osdtrace |
| `TraceSeries` | `SeriesIsTrue` | rows, points and PGs are those of the lines of the window; nothing is invented when the clock steps; buffer and rows are complete |
| `Insights` | `VerdictsTrue` | warnings and errors are there exactly when the evidence warrants one, and the worst is named |
| | `NoEcho` | no text twice within the de-duplication time |
| | `CapturedStays` | what was captured is shown for the time less the de-duplication time |

Bounds. `MaxArcs` and `MaxEpochs` limit how many stop flags are allocated:
three are enough for a run, a config change and a second run, with workers of
all of them alive. `MaxChan` limits how far a worker's lines, or a stream's
messages, may run ahead of the drain; "done" and install messages are never
held back in `TraceControl`. Two hosts are needed for one worker to report
while another goes on. `MaxPer` limits the waiting messages of one stream
thread; it is one, as the second message of a thread is received in the state
the first one left. In `LiveStreams_change` the stream states are left out of
the fingerprint (`VIEW ButStatuses`): no guard and no other variable depends
on them. A list with a duplicate is checked for one profile only; across
changes of such profiles, `OneStreamEach` is a theorem. In `LiveStreams_open`
and `_replaced` nobody quits (`CONSTRAINT Stays`): after quitting nothing is
received, and the process ends in any case. `RemoteRunner` needs no bound: a session runs once, and each session
has at most two cleanups. Two sessions are needed for one to clean up after the
other. In `Cockpit` each part has the smallest instance with its case: two
hosts, of which one is a duplicate in the file, and two edits or saves
(`MaxEdits`: a failed one and one after it; selecting, opening and cancelling
are not counted); three sources and recordings of one and two snapshots; a
counter width of 2, which the page key exceeds at once, and three keys
(`MaxPresses`: set, change the list, move); three captured lines of each source
of three OSDs, of which two are shown, with one child shown per branch; three
lines of osdtrace in three buckets with a buffer of two, windows of one and two
buckets, and a TTL shorter or longer than the window; a history of three entries over four seconds with a
de-duplication of one and a window of two. `verdicts` takes the rules over some hundreds of
combinations of evidence with values on both sides of each threshold, with rows
that are equally slow, and with hosts that a row knows by another name. The
proofs below have none of these bounds: they hold for any values.

Fairness. The drain: the main loop polls at most 150 ms. A worker that is to
stop: it looks at its flag every 100 ms. An install thread: its ssh command
ends. A stream thread: the remote script prints every interval, and ssh's
ServerAliveInterval (5 s, twice) ends a dead connection, so that a read
returns. Nothing is assumed of the operator, or of a tracer that goes on.
A thread's fairness is strong: a send of the code never waits, but in the model
it waits while the channel is at `MaxChan`, where other threads might take the
room again and again. On the remote host: its
processes run, a sleep ends, and osdtrace obeys a TERM; nothing is assumed of
the connection, of stops, or of an osdtrace that was not told to end.

The six modules of `Cockpit` have safety properties only: what they promise is
about a key, a line or a save, and nothing of them has to happen by itself.

Deadlock is not checked, because the program may stop: after quitting, the main
loop is gone, and the threads end; a runner and the cleanups end as well; the
parts of `Cockpit` stop at their bounds.

### What the violated runs show

* `RunningShown`: `i` (install), a config change, `t` (start on two hosts), one
  runner reports, and then the late `TraceInstall` zeroes the counter before
  the "done" is drained, or the late `TraceInstall` is drained first and the
  first "done" finds the counter at zero. Either way the App forgets session
  and following while the other runner goes on. Pressing `t` then offers to
  start, not to stop. `NoUnstoppableWorker` still holds: a next start raises the
  old flag before it replaces it.
* `ProfileShown`: a message that an old stream thread sent after the config
  screen cleared `stream_statuses` enters its id again. Nobody removes it, and
  the header and the insight "ssh streams n/m live" count it. The second
  conjunct fails in the same way: a line of the old cluster stream, drained
  after the admin host changed, is labelled with the new admin host.
* `TreeRemoved`: the connection closes just after the script started osdtrace.
  The watcher's TERM is trapped before `trace_pid=$!`, so that `cleanup()` ends
  the TTL sleeper and removes the files, and leaves osdtrace. `CleanExit` says
  what does hold: nothing whose pid the script has stored is left.
* `EvidenceStays`: only a line of the cluster stream captures insights. An
  operation in flight that a node line shows and the next one takes back,
  before a cluster line came, leaves the panel and is in no history, although
  the README promises in-flight evidence "after the live symptom disappears".

Three things that a doc line denies have no run of their own.

* A list of hosts with a duplicate (`hosts = ["a", "a"]`) is not normalised on
  its way to the streams (`main.rs:307`): it starts two threads of the id
  `node:a`, which share a stream state, where README.md:360 says one stream per
  host. What holds is `OneStreamEach`, one thread per entry, and so one per host
  if the list has no duplicate.
* An I/O error of the terminal (`?` at `main.rs:606`, 616, 620, 621, 649) skips
  `begin_shutdown`: a session that recorded snapshots has no report
  (README.md:426). Nothing cleans up the tracers either: threads and ssh
  connections die with the process, and what runs on the hosts ends by the
  watcher or the TTL of `RemoteRunner`. `StartedIsCleaned` says that this is the
  only such way out.
* The start takes a blank `default_profile` (`main.rs:286`) and goes on with the
  default hosts, and every save of a profile with a blank name is refused
  (`editor.rs:554`): edits change the draft, and neither the file nor the
  streams (README.md:341). `DraftSaves` says that the name is the only reason
  for which a save refuses what the start and the input lines let through.

Two more weaknesses of the runner are visible in the model and have no run of
their own. An `echo` after the connection has closed may kill the shell, and
then pidfile and script stay until a later install removes them. And a runner
without the connection watcher (the lab's) is not ended by its TTL once its
connection has closed: the sleeper prints before it signals, and dies of it.
`ClosedEnds` and `TtlEnds` are therefore stated for watched runners.

Four things that the models show and that no line of the repository denies, so
that they are no findings. A save writes what it loaded before: what another
program writes between the load and the write is lost, and a file broken in
between is replaced (`OthersKept` is therefore about saves whose file is still
the loaded one). End sets a scroll counter to `usize::MAX`, and draw
clamps it: the next arrows lower the counter and show nothing (`KeysShow` is
therefore about counters within the view). The totals of the flow panel are
those of the OSDs that are not cut. And an error line of osdtrace enters the
flow tree as an OSD with the name "-", since only the ring leaves it out.

## What is proved

`TraceControlProofs`, for any hosts, sources and bounds:

* `TypeCorrect`, `Unstoppable`, `ReportsOrdered`, `ClientsCounted`,
  `ClientsInSession`, `ClientsView`, `ClientsCleaned`, `OsdCounting`,
  `OsdFollows`: the invariants of the runs. They are conjuncts of one inductive invariant `IInv`.
  None is inductive alone: the counter of a source is right because each worker
  reports once (`Reports`), because the workers that are unheard of all belong
  to the run of now (`ClientSession`), and because a start finds the counter at
  zero. `Numbered` (flags in use are at most the number allocated) and
  `FiniteRuns` (the sets that are counted are finite) complete it.
* `ClientsImplementTraceSource`: `Spec => RunsSpec`. Each step of the
  controller is a step of `TraceSource` or changes no run; the invariant is
  used in every step.

`LiveStreamsProofs`, for any hosts, profiles and bounds:

* `TypeCorrect`; `SnapshotOfProfile`, inductive with the types.
* `OneStreamEachEntry`, from `FlagInv`: the flags raised are exactly the earlier
  ones, and the threads of the flag of now are those of the profile, for any
  lists. `OneStreamEachId`: if no profile's list has a duplicate, there is one
  stream per host.
* `LiveHasChild`, from `ShownInv`: what a stream will be shown as once its last
  waiting message counts (`Truthful`) claims no child that is not there.

`RemoteRunnerProofs`, for any number of runs with any names:

* `TypeCorrect`, with the conjunct that a TERM is pending only where a trap is
  set, which every command of a script must preserve.
* `ExitIsClean`, from `CleanInv`: after each command of `cleanup()`, what the
  command has to remove is gone and stays gone, since the places that start or
  store a child come earlier (`CleanScript`), and other sessions touch no
  process of this one except by a signal (`CleanOthers`, `CleanElse`).
* `CleanupEnds`, from `BornInv` and `Struck`: a listed process has been
  started, the script never goes back before that start (`Forward`), so that a
  process that was killed stays dead (`DeadKept`) until the pidfile is removed.

`ScreenProofs`, for any profiles, hosts, files, command lines and typed values,
any sources and recordings, and any width of the counters, page, lists and
terminals:

* `EditorInvariant`: `EditorInv`, with `EditorTypes`, `Streams`, `Clean`,
  `DraftsSave`, `Restarts`, `Others` and `AdminFollows` from it. `StreamsMatch`
  is not inductive: a save compares three fields of App with the draft and then
  copies `Applying(draft)`, so App must hold a configuration that `AtLeastOne`
  leaves as it is (`Usable(app)`, which a start gives by `ResolvedUsable` and a
  save by `ApplyingUsable`). `OthersKept` needs that the draft is of the profile
  App runs, and that a readable file has its fields (`FileShape`), and what was loaded as
  well. `DraftSaves`
  and `Restartable` rest on the lists of hosts: what `normalize_hosts` returns
  has no duplicate and holds the same hosts, and a list without duplicates goes
  through it unchanged, which is why the file gives back what was saved. While a save is
  under way, the draft it will apply is the one it checked (`SaveUnderWay`).
  There is one lemma for each half of a save (`LoadKeepsInv`, `WriteKeepsInv`),
  and one for the keys that leave App and file alone.
* `KeyboardTypes`, `KeysMeet`, `Cleaned`, `Asked`. That a key meets what is
  drawn holds at one point of the loop only; the invariant says for each point
  what is still to be drawn (a change is either on the screen, or marked in
  `needs_redraw`, or announced by a resize event), and that no two dialogs are
  open at once, as `handle_key` and `draw` rank them differently. `Cleaned` says
  of every way out, errors included, which ones skip `begin_shutdown`.
* `PanelsTypes`, and `KeysAreSeen` from the types and the arithmetic of the
  clamps (`OneLine`, `LogTypes`).
* `CockpitIsItsParts`: `CockpitSpec` implies the specification of each part (that
  of `Insights` unless the part is "verdicts"), since a step of the whole is a
  step of one part and leaves the variables of the others alone. So the
  theorems about a part, from here and from the next two modules, hold in the
  run `Cockpit` for what they are: `CockpitTypes` is `TypesOK` from the types of
  the six, with `VerdictsRest` for the evidence that "verdicts" only reads.

`TraceViewsProofs`, for any lines, OSDs, PGs, limits and windows:

* `SeriesInvariant`, with `SeriesTypes` and `SeriesTrue` from it. `SeriesIsTrue`
  compares what a ring has kept with all the lines that came, and is not
  inductive, as the ring forgets. So `SeriesInv` remembers, for each OSD, the
  list of all buckets made since the start or the last clear, of which the ring
  is the end from some place on (`Story`). For every set of bucket numbers, the
  buckets of that list with these numbers add up to the lines with these
  numbers, whatever the clock did in between; only that the numbers grow along
  the list, which is what makes the window of the ring complete, needs a clock
  that was not set back. `BufferInv` says that the event buffer is the end of
  what came. The order of the panel's rows is a lexicographic one and strict, so
  the sort of `Lists` puts every OSD in it once.
* `ReplicaRows`: the tree of osdtrace's lines alone has paths of length one and
  two only; each step of the second pass (`combined_recorded`) leaves the
  statistics of such a path alone and a host that is known, by the theorem
  `Fold` below.
* `FlowReadsTrue`: `FlowReads` compares the panel with the lines, so it needs
  from the steps only that the lines are those of the sources (`LinesInv`) and
  that the order is one of the two there are (`SortOK`); the argument is about
  `build_flow_tree`. A tree says what its lines say: each branch has the
  statistics of exactly the lines that mark it. From this follow the three
  parts. `LevelsAgree` (`LevelsTrue`): a line that marks a branch marks one of
  its children, and no two, so that the operations of the children are those of
  the branch; it is stated for one source, since with both a line of radostrace
  counts at its object and not at the branches that osdtrace owns.
  `PathsAreBranches` (`PathsTrue`): the rows are a walk over
  the paths of the tree, each under its parent, and no branch of an OSD or PG
  comes between a row and its own, so that the OSD and PG that the single pass
  holds at a leaf are the leaf's. That the last branch of radostrace alone is
  an object, and not a PG cut off from its objects, is because statistics count
  operations and a ranking leaves at least one row. `OrderFree` (`OrderFrees`):
  the statistics are sums and a maximum, the children a set, and the ranking a
  strict order, so the lines read backwards give the same rows.

`InsightsProofs`, for any evidence, history limits and clock:

* `InsightsInvariant`, with `HistoryTypes`, `NoEchoes` and `CapturesStay` from
  it. `NoEcho` (`Apart`) holds along the pass over the observations: each entry
  is compared with the whole history that the entries before it left, so it
  holds whatever the clock does. `CapturedStays` is not inductive: an entry may
  stand for a later capture that was its duplicate, and may have been pushed out
  by the limit. `Stays` says that each capture has an entry at most `Dedup`
  older, or that the history is full and begins no earlier than that; with
  entries in the order of their captures (`Ordered`, as long as the clock was
  not set back) it survives expiry and the limit, which drop from the front.
* `VerdictsHold`: `VerdictsTrue` is a property of `diagnose` alone, so it needs
  no induction over steps but an argument for each rule: its list has a warning
  exactly when its symptom is in the evidence, and claims nothing else about
  it (`HostTells`, `OsdTells`, `KfsTells` and the like). The whole is their
  concatenation. The four oldest operations come out of a sort by three keys
  that tells any two operations apart; the slowest OSD out of the last of the
  greatest, with which every other row is compared.

The lemmas about data are in two modules of their own. `ListTheorems` has what
`Lists` computes: a sort holds each element of its set once and in order, a
filter what passes, `LastMax` the last of the greatest, `Max` a greatest one;
and what `FlattenSeq` of the community modules makes of a list of lists.
`FoldTheorems` has the fold over indexes that the community modules' `FoldLeft`
is (`Folded`; each use shows that its `FoldLeft` is one): there is a sequence of
values, the first the base, each next one the step applied to the one before,
and the last the result. The step is a parameter of the module, which is
instantiated once for each fold of the model; the provers cannot instantiate a
theorem that takes an operator, but they can use a theorem of an instance.
The induction along these values is by the least counterexample.

The assumptions are those named in the modules: finite sets of hosts, osdtrace
no client source, bounds that are numbers, profiles with at least one host
(`validate_config_draft`), "absent" and "blank" different from any value, files
that are readable configurations or not at all, latencies, ages and shares that
are numbers, lists that are finite, orders that have every name that is
compared by them (for the flow: the labels of all lines, of which an OSD or PG
of osdtrace may be empty and a primary missing), and limits that leave a branch
at least one child (`MAX_CHILDREN`).

Only model-checked:

* Liveness (`StopCompletes`, `StoppedStreamsEnd`, `LossShown`, `ClosedEnds`,
  `TtlEnds`): it needs ENABLED, which the prover does not have.
* The violated runs, which are counterexamples.

## Not modelled

* The client tracer's remote script (`client_tracer_run_command`,
  `client_tracer_cleanup_command`): the scheme of `RemoteRunner` with other
  names and without a TTL sleeper of its own. Its threads are in
  `TraceControl`.
* The shell loops of `stream.rs` that rotate slow queries over ticks.
* The session store: sequential file operations. Its weak points: names by the
  local second, by which pruning goes (`session.rs:76`, `session.rs:94`, a
  hazard), and a line that a crash cut off, which makes `load_snapshots` refuse
  the recording (`session.rs:58`).
* The benchmark, `lab`, `collect` and `ssh.rs`: blocking calls one after
  another, whose threads are joined where they are started. `run_lab` returns
  on a failed write without joining (`lab.rs:93`).
* Real time: the 1200 ms that quitting gives the streams (`app.rs:296`) and the
  cleanup ssh without an alive interval that quitting waits for
  (`app.rs:333`). The modules order events and measure nothing.
* Texts, colours, layout, parsing of lines into fields, reports, the doctor's
  one-shot checks, build and release. They keep no state that an interleaving
  could break.

## Plan

1. `ClientTracer`: the client hosts as `RemoteRunner`, and an abstract
   specification for both (no tracer after its runner, except in the windows
   that `RemoteRunner_tree` shows); pids that are reused.
2. `StatusStream`: rotation and caching of the stream scripts.
3. `SessionStore`: creating, appending and pruning by several processes.
4. `BenchRun` and `Lab`: failure of one step of several, joins.
5. An order of events for the quit sequence with the two waits of
   `begin_shutdown`.
