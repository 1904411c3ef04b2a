------------------------------ MODULE Keyboard ------------------------------
(***************************************************************************)
(* The loop of the TUI, run_app of main.rs, and what a key does: the gate  *)
(* for a terminal that is too small, the dialogs and their order, the      *)
(* screens, the source that is shown, and when the loop ends.  The user    *)
(* resizes the terminal and the workers send messages at any time, so what *)
(* is drawn may be older than what a key meets, and each use of the        *)
(* terminal may fail, which ends the loop at once.                         *)
(*                                                                         *)
(* What the dialogs set off is in TraceControl and LiveStreams, the rows   *)
(* of the config screen are in ConfigEditor, and scrolling is in Panels.   *)
(***************************************************************************)
EXTENDS Integers, FiniteSets

CONSTANTS
    TraceSources, \* osdtrace, kfstrace, radostrace
    FirstSource,  \* the source that is shown at the start
    Recordings    \* the numbers of snapshots of the recordings to replay;
                  \* load_snapshots refuses one without any

ASSUME KeyboardAssumption ==
    FirstSource \in TraceSources /\ Recordings \subseteq Nat \ {0}

Sizes == {"small", "large"}
NoDialog == [kind |-> "none", on |-> {}]
Pending == [kind: {"start", "stop"}, on: (SUBSET TraceSources) \ {{}}]

VARIABLES
    size,         \* of the terminal: what terminal_size_supported says of it
    seen,         \* the size that run_app read at the top of the loop
    resized,      \* a Resize event waits to be read
    at,           \* "top" of the loop, "draw", "poll" for an event, "left" it
    needs_redraw,
    drawn,        \* what the last draw put on the screen
    screen,       \* Mode of App
    index, count, \* of Mode::Replay
    input_open,   \* whether config_editor.input is there
    confirm_quit, show_help, pending_trace, \* the dialogs
    trace_source, flow_view,
    busy,         \* the sources for which source_running holds
    live_started,
    spawned,      \* whether any worker has been started
    cleaned,      \* whether begin_shutdown ran: the cleanups and the report
    left_by       \* what ended the loop (history)

dialogVars == <<confirm_quit, show_help, pending_trace, input_open>>
viewVars == <<screen, index, count, trace_source, flow_view>>
loopStateVars == <<size, seen, resized, drawn, live_started, cleaned, left_by>>
workVars == <<busy, spawned>>
keyboardVars == <<loopStateVars, at, needs_redraw, dialogVars, viewVars, workVars>>

-----------------------------------------------------------------------------
(* Who gets a key: handle_key asks the dialogs in this order.              *)
Handler ==
    IF seen = "small" THEN "gate"
    ELSE IF confirm_quit THEN "quit"
    ELSE IF show_help THEN "help"
    ELSE IF pending_trace # NoDialog THEN "trace"
    ELSE IF screen = "config" /\ input_open THEN "input"
    ELSE screen

(* What draw leaves on top.                                                *)
Picture ==
    IF size = "small" THEN "gate"
    ELSE IF confirm_quit THEN "quit"
    ELSE IF pending_trace # NoDialog THEN "trace"
    ELSE IF show_help THEN "help"
    ELSE IF screen = "config" /\ input_open THEN "input"
    ELSE screen

(* A key after which the loop does not draw.                               *)
Handled_fault == at' = "top" /\ UNCHANGED <<loopStateVars, needs_redraw>>

(* A key was handled: draw, and go round the loop.                         *)
Handled == at' = "top" /\ needs_redraw' = TRUE /\ UNCHANGED loopStateVars

(* begin_shutdown ends the loop.                                           *)
begin_shutdown(by) ==
    /\ at' = "left" /\ cleaned' = TRUE /\ left_by' = by
    /\ UNCHANGED <<size, seen, resized, drawn, live_started, needs_redraw, dialogVars, viewVars, workVars>>

(* The ? of run_app: the loop is left as it is, without begin_shutdown, and*)
(* with_terminal only resets the terminal.                                 *)
Fails == at' = "left" /\ left_by' = "error" /\ UNCHANGED <<size, seen, live_started, cleaned, needs_redraw, dialogVars, viewVars>>

-----------------------------------------------------------------------------
(* The loop.                                                               *)

(* start_live_app runs once, when the terminal is large enough.            *)
start_live_app == live_started \/ size = "large"

(* The workers of a session may have told that the run of one source       *)
(* starts or ends, or what is only drawn.                                  *)
drain_worker_messages ==
    /\ busy' \in {busy} \cup {busy \cup {s} : s \in TraceSources} \cup {busy \ {s} : s \in TraceSources}
    /\ busy' # busy => spawned

look ==
    /\ at = "top"
    /\ drain_worker_messages
    /\ seen' = size
    /\ live_started' = start_live_app
    /\ spawned' = (spawned \/ live_started' # live_started)
    /\ \E drained \in {busy' # busy, spawned}:
          needs_redraw' = (needs_redraw \/ drained \/ live_started' # live_started)
    /\ at' = "draw"
    /\ UNCHANGED <<size, resized, drawn, cleaned, left_by, dialogVars, viewVars>>

(* terminal.size fails, after the messages were drained.                   *)
look_fails ==
    /\ at = "top"
    /\ drain_worker_messages
    /\ Fails
    /\ UNCHANGED <<resized, drawn, spawned>>

(* terminal.draw asks for the size again.                                  *)
draw ==
    /\ at = "draw"
    /\ drawn' = IF needs_redraw THEN Picture ELSE drawn
    /\ needs_redraw' = FALSE
    /\ at' = "poll"
    /\ UNCHANGED <<size, seen, resized, live_started, cleaned, left_by, dialogVars, viewVars, workVars>>

draw_fails ==
    /\ at = "draw" /\ needs_redraw
    /\ drawn' \in {drawn, Picture}
    /\ Fails
    /\ UNCHANGED <<resized, workVars>>

(* event::poll or event::read fails, or terminal.clear after a Resize.     *)
poll_fails ==
    /\ at = "poll"
    /\ resized' \in {resized, FALSE}
    /\ Fails
    /\ UNCHANGED <<drawn, workVars>>

(* poll ends without an event, or with one that the loop ignores.          *)
no_event ==
    /\ at = "poll"
    /\ at' = "top"
    /\ UNCHANGED <<loopStateVars, needs_redraw, dialogVars, viewVars, workVars>>

resize_event ==
    /\ at = "poll" /\ resized
    /\ resized' = FALSE
    /\ needs_redraw' = TRUE
    /\ at' = "top"
    /\ UNCHANGED <<size, seen, drawn, live_started, cleaned, left_by, dialogVars, viewVars, workVars>>

(* The user resizes the terminal.                                          *)
resize ==
    /\ at # "left"
    /\ size' \in Sizes \ {size}
    /\ resized' = TRUE
    /\ UNCHANGED <<seen, drawn, live_started, cleaned, left_by, at, needs_redraw, dialogVars, viewVars, workVars>>

-----------------------------------------------------------------------------
(* The keys that run_app and the dialogs take.                             *)

ctrl_c ==
    /\ at = "poll" /\ seen = "large"
    /\ begin_shutdown("ctrl_c")

(* The gate leaves the loop before anything was started.                   *)
LeftAtOnce ==
    /\ at' = "left" /\ left_by' = "key"
    /\ UNCHANGED <<size, seen, resized, drawn, live_started, cleaned,
                   needs_redraw, dialogVars, viewVars, workVars>>

(* The gate is left at once, also when the workers are running.            *)
gate_key_fault == at = "poll" /\ seen = "small" /\ LeftAtOnce

(* q, Esc or Ctrl-C while the gate is up.                                  *)
gate_key ==
    /\ at = "poll" /\ seen = "small"
    /\ IF live_started THEN begin_shutdown("key") ELSE LeftAtOnce

Gets(who) == at = "poll" /\ Handler = who

handle_quit_confirm ==
    /\ Gets("quit")
    /\ \/ begin_shutdown("key")
       \/ /\ confirm_quit' \in {FALSE, TRUE} \* n, or a key that means nothing here
          /\ Handled
          /\ UNCHANGED <<show_help, pending_trace, input_open, viewVars, workVars>>

help_key ==
    /\ Gets("help")
    /\ show_help' = FALSE
    /\ Handled
    /\ UNCHANGED <<confirm_quit, pending_trace, input_open, viewVars, workVars>>

(* The start of one source shows it.                                       *)
SourceStarted(action) ==
    IF action.kind = "start" /\ \E s \in TraceSources: action.on = {s}
    THEN CHOOSE s \in TraceSources: action.on = {s} ELSE trace_source

(* execute_trace_action, which may start nothing.                          *)
execute_trace_action(action) ==
    /\ trace_source' = SourceStarted(action)
    /\ \/ UNCHANGED workVars
       \/ spawned' = TRUE /\ UNCHANGED busy
       \/ /\ spawned' = TRUE
          /\ busy' = IF action.kind = "start" THEN busy \cup action.on ELSE busy \ action.on
    /\ UNCHANGED <<screen, index, count, flow_view>>

(* y executes the action, n drops it, and other keys leave it.             *)
handle_trace_confirm ==
    /\ Gets("trace")
    /\ \/ pending_trace' = NoDialog /\ execute_trace_action(pending_trace)
       \/ pending_trace' \in {NoDialog, pending_trace} /\ UNCHANGED <<viewVars, workVars>>
    /\ Handled
    /\ UNCHANGED <<confirm_quit, show_help, input_open>>

(* Esc, or an Enter that is not refused, closes the input line.            *)
handle_config_input ==
    /\ Gets("input")
    /\ input_open' \in {FALSE, TRUE}
    /\ Handled
    /\ UNCHANGED <<confirm_quit, show_help, pending_trace, viewVars, workVars>>

(* "?" opens the help on each of the screens.                              *)
open_help ==
    /\ Gets("live") \/ Gets("config") \/ Gets("replay")
    /\ show_help' = TRUE
    /\ Handled
    /\ UNCHANGED <<confirm_quit, pending_trace, input_open, viewVars, workVars>>

(* q asks; so does Esc on the live and the replay screen.                  *)
request_quit ==
    /\ Gets("live") \/ Gets("config") \/ Gets("replay")
    /\ confirm_quit' = TRUE
    /\ Handled
    /\ UNCHANGED <<show_help, pending_trace, input_open, viewVars, workVars>>

-----------------------------------------------------------------------------
(* The keys of the screens.                                                *)

(* p and i start a probe and an install, without a question.               *)
probe_or_install ==
    /\ Gets("live")
    /\ spawned' = TRUE
    /\ Handled
    /\ UNCHANGED <<busy, dialogVars, viewVars>>

(* The first press of another source's key shows that source; the flow     *)
(* view has none that is shown.                                            *)
Asks(source) == trace_source = source \/ flow_view

(* The source shown stays what it was.                                     *)
SourceAfter_fault(source) == IF flow_view THEN trace_source ELSE source
SourceAfter(source) == source

Question(sources) ==
    [kind |-> IF sources \cap busy # {} THEN "stop" ELSE "start", on |-> sources]

(* t, f and r.                                                             *)
request_source(source) ==
    /\ Gets("live")
    /\ trace_source' = SourceAfter(source)
    /\ pending_trace' = IF Asks(source) THEN Question({source}) ELSE pending_trace
    /\ Handled
    /\ UNCHANGED <<screen, index, count, flow_view, confirm_quit, show_help, input_open, workVars>>

(* a.                                                                      *)
request_all ==
    /\ Gets("live")
    /\ pending_trace' = Question(TraceSources)
    /\ Handled
    /\ UNCHANGED <<confirm_quit, show_help, input_open, viewVars, workVars>>

(* m.                                                                      *)
toggle_flow_view ==
    /\ Gets("live")
    /\ flow_view' = ~flow_view
    /\ Handled
    /\ UNCHANGED <<screen, index, count, trace_source, dialogVars, workVars>>

(* c on the live screen; Esc or c on the config screen.                    *)
toggle_config ==
    /\ \/ Gets("live") /\ screen' = "config"
       \/ Gets("config") /\ screen' = "live"
    /\ input_open' = FALSE
    /\ Handled
    /\ UNCHANGED <<index, count, trace_source, flow_view, confirm_quit, show_help, pending_trace, workVars>>

(* a, e or Enter on a row of the config screen.                            *)
edit_config ==
    /\ Gets("config")
    /\ input_open' = TRUE
    /\ Handled
    /\ UNCHANGED <<confirm_quit, show_help, pending_trace, viewVars, workVars>>

Forward == IF index + 1 < count THEN index + 1 ELSE count - 1

(* Left and Right in a recording.                                          *)
replay_move ==
    /\ Gets("replay")
    /\ index' \in {IF index > 0 THEN index - 1 ELSE 0, Forward}
    /\ Handled
    /\ UNCHANGED <<screen, count, trace_source, flow_view, dialogVars, workVars>>

(* A key of Panels, or one that means nothing on the screen.               *)
other_key ==
    /\ Gets("live") \/ Gets("config") \/ Gets("replay")
    /\ Handled
    /\ UNCHANGED <<dialogVars, viewVars, workVars>>

Starts(mode, snapshots) ==
    /\ screen = mode /\ count = snapshots
    /\ index = IF snapshots = 0 THEN 0 ELSE snapshots - 1
    /\ size \in Sizes /\ seen = size /\ resized = FALSE
    /\ at = "top" /\ needs_redraw = TRUE /\ drawn = "nothing"
    /\ confirm_quit = FALSE /\ show_help = FALSE /\ pending_trace = NoDialog /\ input_open = FALSE
    /\ trace_source = FirstSource /\ flow_view = FALSE
    /\ busy = {} /\ spawned = FALSE /\ cleaned = FALSE /\ left_by = "nothing"
    /\ live_started = (mode # "live")

(* run_live_tui, run_replay_tui                                            *)
KeyboardInit == Starts("live", 0) \/ \E n \in Recordings: Starts("replay", n)

DialogKey ==
    \/ handle_quit_confirm \/ help_key \/ handle_trace_confirm \/ handle_config_input
    \/ open_help \/ request_quit

ScreenKey ==
    \/ probe_or_install \/ \E s \in TraceSources: request_source(s)
    \/ request_all \/ toggle_flow_view \/ toggle_config \/ edit_config \/ replay_move \/ other_key

KeyboardNext ==
    \/ look \/ draw \/ no_event \/ resize_event \/ resize
    \/ look_fails \/ draw_fails \/ poll_fails
    \/ ctrl_c \/ gate_key \/ DialogKey \/ ScreenKey

KeyboardSpec == KeyboardInit /\ [][KeyboardNext]_keyboardVars

-----------------------------------------------------------------------------
(* Types; a recording shows one of its snapshots.                          *)
KeyboardTypeOK ==
    /\ size \in Sizes /\ seen \in Sizes /\ resized \in BOOLEAN
    /\ at \in {"top", "draw", "poll", "left"} /\ needs_redraw \in BOOLEAN
    /\ screen \in {"live", "config", "replay"}
    /\ index \in Nat /\ count \in Nat /\ (count > 0 => index < count)
    /\ confirm_quit \in BOOLEAN /\ show_help \in BOOLEAN /\ input_open \in BOOLEAN
    /\ pending_trace \in Pending \cup {NoDialog}
    /\ trace_source \in TraceSources /\ flow_view \in BOOLEAN
    /\ busy \subseteq TraceSources
    /\ live_started \in BOOLEAN /\ spawned \in BOOLEAN /\ cleaned \in BOOLEAN
    /\ left_by \in {"nothing", "key", "ctrl_c", "error"}

(* A key meets what the user sees: unless a Resize event is still to come, *)
(* the picture of the last draw and the dialog or screen that handles the  *)
(* next key are the same.  draw and handle_key order the dialogs           *)
(* differently, so this also needs that no two are open at once.           *)
KeysMeetTheScreen == at = "poll" /\ ~resized => drawn = Handler

(* A question about one source is asked over the panel of that source, so  *)
(* that y never starts or stops what is not shown, and only on the live    *)
(* screen.                                                                 *)
AskedIsShown ==
    pending_trace # NoDialog =>
        /\ screen = "live"
        /\ pending_trace.on \in {TraceSources, {trace_source}}

(* Workers start after the terminal was once large enough and never for a  *)
(* recording, and a session that started any is not ended by a key, on any *)
(* screen, dialog or the gate, without begin_shutdown: only a terminal     *)
(* that fails ends it so.                                                  *)
StartedIsCleaned ==
    /\ spawned => live_started /\ screen # "replay"
    /\ at = "left" /\ spawned /\ ~cleaned => left_by = "error"

(* A key ends the session by Ctrl-C, or from the quit dialog or the gate   *)
(* that is on the screen, or after it crossed a resize.                    *)
QuitIsAsked ==
    at = "left" => left_by \in {"ctrl_c", "error"} \/ drawn \in {"quit", "gate"} \/ resized

(* What cannot be undone was asked for on the screen.                      *)
QuestionsAsked == AskedIsShown /\ QuitIsAsked
=============================================================================
