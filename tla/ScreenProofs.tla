---------------------------- MODULE ScreenProofs ----------------------------
(***************************************************************************)
(* Theorems about what the operator's keys do: the dialogs and screens of  *)
(* Keyboard for any trace sources and recordings, the config screen of     *)
(* ConfigEditor for any profiles, hosts, files, command lines and typed    *)
(* values, and the lists of Panels for any terminal heights, list lengths, *)
(* page and counter width; and about Cockpit, which puts these parts and   *)
(* the views of the other two modules of proofs together.                  *)
(***************************************************************************)
EXTENDS Cockpit, TraceViewsProofs, InsightsProofs

-----------------------------------------------------------------------------
(* The keyboard.                                                           *)
-----------------------------------------------------------------------------
(* The inductive invariant.  A draw and the key after it meet the same     *)
(* picture because of what the loop knows on its way there: a size it has  *)
(* read is that of the terminal until a Resize event waits, a picture that *)
(* is not to be redrawn is the one of now, and no key opens a question     *)
(* under the help or the help over a question.                             *)

(* The size that was read.                                                 *)
SizeRead ==
    at \in {"draw", "poll"} =>
        /\ ~resized => seen = size
        /\ seen = "large" => live_started

(* What is on the screen.                                                  *)
ScreenCurrent ==
    /\ at = "poll" => needs_redraw = FALSE
    /\ at # "left" /\ ~resized /\ ~needs_redraw => drawn = Picture

(* The help and a question are not open at once.                           *)
OneDialog == ~(show_help /\ pending_trace # NoDialog)

(* A recording is shown from the start.                                    *)
ReplayShown == screen = "replay" => live_started /\ count > 0

Loop == SizeRead /\ ScreenCurrent /\ OneDialog /\ ReplayShown
KeyboardInv == KeyboardTypeOK /\ Loop /\ AskedIsShown /\ StartedIsCleaned /\ QuitIsAsked

(* Who gets a key, read backwards.                                         *)
LEMMA GetsKey ==
    ASSUME KeyboardTypeOK
    PROVE  /\ Gets("live") \/ Gets("config") \/ Gets("replay") =>
                 /\ at = "poll" /\ seen = "large" /\ ~confirm_quit /\ ~show_help /\ pending_trace = NoDialog
           /\ \A s \in {"live", "config", "replay"}: Gets(s) => screen = s
           /\ Gets("quit") => at = "poll" /\ seen = "large" /\ confirm_quit
           /\ Gets("help") => at = "poll" /\ seen = "large" /\ show_help
           /\ Gets("trace") => at = "poll" /\ seen = "large" /\ ~show_help /\ pending_trace # NoDialog
           /\ Gets("input") => at = "poll" /\ seen = "large" /\ pending_trace = NoDialog /\ screen = "config"
  BY DEF KeyboardTypeOK, Gets, Handler, Sizes

(* What is drawn and what gets the key are the same dialog or screen.      *)
LEMMA SamePicture ==
    ASSUME OneDialog, seen = size
    PROVE  Handler = Picture
  BY DEF OneDialog, Handler, Picture

(* The invariant says it of the moment a key is read.                      *)
LEMMA Meeting == KeyboardInv => KeysMeetTheScreen
  <1> SUFFICES ASSUME KeyboardInv, at = "poll", ~resized PROVE drawn = Handler
    BY DEF KeysMeetTheScreen
  <1>1. drawn = Picture
    BY DEF KeyboardInv, Loop, ScreenCurrent
  <1>2. seen = size
    BY DEF KeyboardInv, Loop, SizeRead
  <1>3. QED BY <1>1, <1>2, SamePicture DEF KeyboardInv, Loop

LEMMA InitKeyboard == KeyboardInit => KeyboardInv
  <1> SUFFICES ASSUME KeyboardInit PROVE KeyboardInv
    OBVIOUS
  <1>1. PICK how \in {"live", "replay"}, n \in Nat:
            Starts(how, n) /\ (how = "replay" => n > 0)
    BY KeyboardAssumption DEF KeyboardInit
  <1>a. index \in Nat /\ count \in Nat /\ (count > 0 => index < count)
    BY <1>1 DEF Starts
  <1>b. live_started \in BOOLEAN
    BY <1>1 DEF Starts
  <1>2. KeyboardTypeOK
    BY <1>1, <1>a, <1>b, KeyboardAssumption DEF Starts, KeyboardTypeOK
  <1>3. Loop
    BY <1>1 DEF Starts, Loop, SizeRead, ScreenCurrent, OneDialog, ReplayShown
  <1>4. AskedIsShown /\ StartedIsCleaned /\ QuitIsAsked
    BY <1>1 DEF Starts, AskedIsShown, StartedIsCleaned, QuitIsAsked
  <1>5. QED BY <1>2, <1>3, <1>4 DEF KeyboardInv

-----------------------------------------------------------------------------
(* The steps of the loop.                                                  *)

(* The messages of the workers keep the types.                             *)
LEMMA DrainedTypes ==
    ASSUME KeyboardTypeOK, drain_worker_messages
    PROVE  busy' \subseteq TraceSources
  <1>1. busy \subseteq TraceSources
    BY DEF KeyboardTypeOK
  <1>2. busy' \in {busy} \cup {busy \cup {s} : s \in TraceSources} \cup {busy \ {s} : s \in TraceSources}
    BY DEF drain_worker_messages
  <1>3. QED BY <1>1, <1>2

LEMMA LookStep ==
    ASSUME KeyboardInv, look
    PROVE  KeyboardInv'
  <1> USE DEF look, KeyboardInv
  <1>a. busy' \subseteq TraceSources
    BY DrainedTypes
  <1>b. live_started' \in BOOLEAN /\ spawned' \in BOOLEAN /\ needs_redraw' \in BOOLEAN
    BY DEF start_live_app
  <1>1. KeyboardTypeOK'
    BY <1>a, <1>b DEF KeyboardTypeOK, dialogVars, viewVars
  <1>2. Picture' = Picture
    BY DEF Picture, dialogVars, viewVars
  <1>3. Loop'
    BY <1>2 DEF Loop, SizeRead, ScreenCurrent, OneDialog, ReplayShown, KeyboardTypeOK, start_live_app, dialogVars, viewVars
  <1>4. AskedIsShown'
    BY DEF AskedIsShown, dialogVars, viewVars
  <1>5. StartedIsCleaned' /\ QuitIsAsked'
    BY DEF StartedIsCleaned, QuitIsAsked, Loop, ReplayShown, start_live_app, viewVars, KeyboardTypeOK
  <1>6. QED BY <1>1, <1>3, <1>4, <1>5

LEMMA DrawStep ==
    ASSUME KeyboardInv, draw
    PROVE  KeyboardInv'
  <1> USE DEF draw, KeyboardInv
  <1>a. KeyboardTypeOK /\ at' = "poll" /\ needs_redraw' = FALSE
    OBVIOUS
  <1>b. UNCHANGED <<size, seen, resized, live_started, cleaned, left_by, dialogVars, viewVars, workVars>>
    OBVIOUS
  <1>1. KeyboardTypeOK'
    <2>1. UNCHANGED <<confirm_quit, show_help, pending_trace, input_open>> /\ UNCHANGED <<busy, spawned>>
      BY <1>b DEF dialogVars, workVars
    <2>2. UNCHANGED <<screen, index, count, trace_source, flow_view>>
      BY <1>b DEF viewVars
    <2> HIDE DEF draw, KeyboardInv
    <2>3. /\ size' \in Sizes /\ seen' \in Sizes /\ resized' \in BOOLEAN /\ live_started' \in BOOLEAN
          /\ cleaned' \in BOOLEAN
          /\ left_by' \in {"nothing", "key", "ctrl_c", "error"}
          /\ at' \in {"top", "draw", "poll", "left"} /\ needs_redraw' \in BOOLEAN
      BY <1>a, <1>b DEF KeyboardTypeOK
    <2>4. /\ confirm_quit' \in BOOLEAN /\ show_help' \in BOOLEAN /\ input_open' \in BOOLEAN
          /\ pending_trace' \in Pending \cup {NoDialog} /\ busy' \subseteq TraceSources /\ spawned' \in BOOLEAN
      BY <1>a, <2>1 DEF KeyboardTypeOK
    <2>5. /\ screen' \in {"live", "config", "replay"} /\ trace_source' \in TraceSources /\ flow_view' \in BOOLEAN
          /\ index' \in Nat /\ count' \in Nat /\ (count' > 0 => index' < count')
      BY <1>a, <2>2 DEF KeyboardTypeOK
    <2>6. QED BY <2>3, <2>4, <2>5, Zenon DEF KeyboardTypeOK
  <1>2. Picture' = Picture
    BY DEF Picture, dialogVars, viewVars
  <1>3. Loop'
    BY <1>2 DEF Loop, SizeRead, ScreenCurrent, OneDialog, ReplayShown, dialogVars, viewVars
  <1>4. AskedIsShown' /\ StartedIsCleaned' /\ QuitIsAsked'
    BY DEF AskedIsShown, StartedIsCleaned, QuitIsAsked, dialogVars, viewVars, workVars
  <1>5. QED BY <1>1, <1>3, <1>4

LEMMA EventStep ==
    ASSUME KeyboardInv, no_event \/ resize_event \/ resize
    PROVE  KeyboardInv'
  <1> USE DEF no_event, resize_event, resize, KeyboardInv
  <1>1. KeyboardTypeOK'
    <2>1. CASE no_event
      BY <2>1 DEF KeyboardTypeOK, loopStateVars, dialogVars, viewVars, workVars
    <2>2. CASE resize_event
      <3>1. resized' \in BOOLEAN /\ needs_redraw' \in BOOLEAN /\ at' = "top"
        BY <2>2
      <3>2. UNCHANGED <<size, seen, drawn, live_started, cleaned, left_by, dialogVars, viewVars, workVars>>
        BY <2>2
      <3>3. QED BY <3>1, <3>2 DEF KeyboardTypeOK, dialogVars, viewVars, workVars
    <2>3. CASE resize
      BY <2>3 DEF KeyboardTypeOK, dialogVars, viewVars, workVars
    <2>4. QED BY <2>1, <2>2, <2>3
  <1>2. ~resize => Picture' = Picture
    BY DEF Picture, loopStateVars, dialogVars, viewVars
  <1>3. Loop'
    BY <1>2 DEF Loop, SizeRead, ScreenCurrent, OneDialog, ReplayShown, loopStateVars, dialogVars, viewVars
  <1>4. AskedIsShown' /\ StartedIsCleaned' /\ QuitIsAsked'
    BY DEF AskedIsShown, StartedIsCleaned, QuitIsAsked, loopStateVars, dialogVars, viewVars, workVars
  <1>5. QED BY <1>1, <1>3, <1>4

(* A use of the terminal that fails ends the loop.                         *)
LEMMA FailStep ==
    ASSUME KeyboardInv, look_fails \/ draw_fails \/ poll_fails
    PROVE  KeyboardInv'
  <1> USE DEF KeyboardInv
  <1>1. /\ at # "left" /\ at' = "left" /\ left_by' = "error"
        /\ UNCHANGED <<size, seen, live_started, cleaned, needs_redraw, dialogVars, viewVars, spawned>>
    BY DEF look_fails, draw_fails, poll_fails, Fails, workVars
  <1>2. busy' \subseteq TraceSources
    BY DrainedTypes DEF look_fails, draw_fails, poll_fails, workVars, KeyboardTypeOK
  <1>3. resized' \in BOOLEAN
    BY DEF look_fails, draw_fails, poll_fails, KeyboardTypeOK
  <1>4. KeyboardTypeOK'
    BY <1>1, <1>2, <1>3 DEF KeyboardTypeOK, dialogVars, viewVars
  <1>5. Loop'
    BY <1>1 DEF Loop, SizeRead, ScreenCurrent, OneDialog, ReplayShown, dialogVars, viewVars
  <1>6. AskedIsShown' /\ StartedIsCleaned' /\ QuitIsAsked'
    BY <1>1 DEF AskedIsShown, StartedIsCleaned, QuitIsAsked, dialogVars, viewVars
  <1>7. QED BY <1>4, <1>5, <1>6

-----------------------------------------------------------------------------
(* The keys.  None of them draws: they change what is to be drawn and ask  *)
(* for a draw, or end the loop.                                            *)

(* A key that was handled leaves the loop at its top, with a draw to come. *)
LEMMA HandledLoop ==
    ASSUME KeyboardInv, at = "poll", Handled, OneDialog', ReplayShown'
    PROVE  Loop'
  BY DEF KeyboardInv, Handled, Loop, SizeRead, ScreenCurrent

(* The end of the loop by Ctrl-C, at the gate, or by the quit dialog.      *)
LEMMA LeavingStep ==
    ASSUME KeyboardInv, ctrl_c \/ gate_key \/ (Gets("quit") /\ begin_shutdown("key"))
    PROVE  KeyboardInv'
  <1> USE DEF KeyboardInv
  <1>1. at = "poll" /\ at' = "left" /\ UNCHANGED <<size, seen, resized, drawn, live_started, needs_redraw, dialogVars, viewVars, workVars>>
    BY DEF ctrl_c, gate_key, Gets, begin_shutdown, LeftAtOnce
  <1>2. /\ cleaned' \in BOOLEAN /\ (spawned => cleaned')
        /\ left_by' \in {"key", "ctrl_c"}
    BY DEF ctrl_c, gate_key, begin_shutdown, LeftAtOnce, StartedIsCleaned, KeyboardTypeOK
  <1>3. KeyboardTypeOK'
    BY <1>1, <1>2 DEF KeyboardTypeOK, dialogVars, viewVars, workVars
  <1>4. Loop'
    BY <1>1 DEF Loop, SizeRead, ScreenCurrent, OneDialog, ReplayShown, dialogVars, viewVars
  <1>5. AskedIsShown' /\ StartedIsCleaned'
    BY <1>1, <1>2 DEF AskedIsShown, StartedIsCleaned, dialogVars, viewVars, workVars
  <1>6. left_by' = "ctrl_c" \/ drawn \in {"quit", "gate"} \/ resized
    <2>1. ctrl_c => left_by' = "ctrl_c"
      BY DEF ctrl_c, begin_shutdown
    <2>2. ~resized => drawn = Handler
      BY <1>1, Meeting DEF KeysMeetTheScreen
    <2>3. gate_key => Handler = "gate"
      BY DEF gate_key, Handler
    <2>4. QED BY <2>1, <2>2, <2>3 DEF Gets
  <1>7. QuitIsAsked'
    BY <1>1, <1>6 DEF QuitIsAsked
  <1>8. QED BY <1>3, <1>4, <1>5, <1>7

(* A key of a dialog that does not end the loop.                           *)
LEMMA DialogStep ==
    ASSUME KeyboardInv, DialogKey
    PROVE  KeyboardInv'
  <1> USE DEF KeyboardInv
  <1>1. CASE Gets("quit") /\ begin_shutdown("key")
    BY <1>1, LeavingStep
  <1>2. CASE ~(Gets("quit") /\ begin_shutdown("key"))
    <2>1. at = "poll" /\ Handled
      BY <1>2, GetsKey DEF DialogKey, handle_quit_confirm, help_key, handle_trace_confirm, handle_config_input, open_help, request_quit
    <2>2. confirm_quit' \in BOOLEAN /\ show_help' \in BOOLEAN /\ input_open' \in BOOLEAN
      BY <1>2 DEF DialogKey, handle_quit_confirm, help_key, handle_trace_confirm, handle_config_input, open_help, request_quit, KeyboardTypeOK
    <2>3. UNCHANGED <<screen, index, count, flow_view>>
      BY <1>2 DEF DialogKey, handle_quit_confirm, help_key, handle_trace_confirm, handle_config_input, open_help, request_quit, execute_trace_action, viewVars
    <2>4. pending_trace' \in {NoDialog, pending_trace} /\ (pending_trace' # NoDialog => trace_source' = trace_source)
      BY <1>2 DEF DialogKey, handle_quit_confirm, help_key, handle_trace_confirm, handle_config_input, open_help, request_quit, execute_trace_action, viewVars
    <2>5. trace_source' \in TraceSources
      BY <1>2 DEF DialogKey, handle_quit_confirm, help_key, handle_trace_confirm, handle_config_input, open_help, request_quit, execute_trace_action, SourceStarted, viewVars, KeyboardTypeOK
    <2>6. busy' \subseteq TraceSources
      <3>1. CASE UNCHANGED busy
        BY <3>1 DEF KeyboardTypeOK
      <3>2. CASE handle_trace_confirm /\ ~UNCHANGED busy
        <4>1. pending_trace.on \subseteq TraceSources
          BY <3>2, GetsKey DEF handle_trace_confirm, KeyboardTypeOK, Pending
        <4>2. QED BY <3>2, <4>1 DEF handle_trace_confirm, execute_trace_action, workVars, KeyboardTypeOK
      <3>3. QED BY <1>2, <3>1, <3>2 DEF DialogKey, handle_quit_confirm, help_key, handle_config_input, open_help, request_quit, workVars
    <2>7. spawned' \in BOOLEAN /\ (spawned' => spawned \/ Gets("trace"))
      <3>1. UNCHANGED spawned \/ (spawned' = TRUE /\ Gets("trace"))
        BY <1>2 DEF DialogKey, handle_quit_confirm, help_key, handle_trace_confirm, handle_config_input, open_help, request_quit, execute_trace_action, workVars
      <3>2. CASE UNCHANGED spawned
        BY <3>2 DEF KeyboardTypeOK
      <3>3. CASE spawned' = TRUE /\ Gets("trace")
        BY <3>3
      <3>4. QED BY <3>1, <3>2, <3>3
    <2>8. show_help' => ~(pending_trace' # NoDialog)
      BY <1>2, GetsKey DEF DialogKey, handle_quit_confirm, help_key, handle_trace_confirm, handle_config_input, open_help, request_quit, execute_trace_action, Loop, OneDialog
    <2>9. UNCHANGED loopStateVars /\ at' = "top" /\ needs_redraw' = TRUE
      BY <2>1 DEF Handled
    <2>10. KeyboardTypeOK'
      BY <2>2, <2>3, <2>4, <2>5, <2>6, <2>7, <2>9 DEF KeyboardTypeOK, loopStateVars
    <2>11. Loop'
      BY <2>1, <2>3, <2>8, <2>9, HandledLoop DEF OneDialog, ReplayShown, Loop, loopStateVars
    <2>12. AskedIsShown'
      BY <2>3, <2>4 DEF AskedIsShown
    <2>13. StartedIsCleaned' /\ QuitIsAsked'
      BY <2>1, <2>3, <2>7, <2>9, GetsKey DEF StartedIsCleaned, QuitIsAsked, AskedIsShown, Loop, SizeRead, loopStateVars
    <2>14. QED BY <2>10, <2>11, <2>12, <2>13
  <1>3. QED BY <1>1, <1>2

(* A question is one about the sources it is asked of.                     *)
LEMMA Questions ==
    /\ \A s \in TraceSources: Question({s}) \in Pending /\ Question({s}).on = {s}
    /\ TraceSources # {} => Question(TraceSources) \in Pending /\ Question(TraceSources).on = TraceSources
  <1>1. ASSUME NEW sources \in (SUBSET TraceSources) \ {{}}
        PROVE  Question(sources) \in Pending /\ Question(sources).on = sources
    BY DEF Question, Pending
  <1>2. \A s \in TraceSources: {s} \in (SUBSET TraceSources) \ {{}}
    OBVIOUS
  <1>3. TraceSources # {} => TraceSources \in (SUBSET TraceSources) \ {{}}
    OBVIOUS
  <1>4. QED BY <1>1, <1>2, <1>3

(* A key of a screen; no dialog is open.                                   *)
LEMMA ScreenStep ==
    ASSUME KeyboardInv, ScreenKey
    PROVE  KeyboardInv'
  <1> USE DEF KeyboardInv
  <1>1. /\ at = "poll" /\ seen = "large" /\ pending_trace = NoDialog /\ ~confirm_quit /\ ~show_help
        /\ Handled
    BY GetsKey DEF ScreenKey, probe_or_install, request_source, request_all, toggle_flow_view, toggle_config, edit_config, replay_move, other_key
  <1>2. UNCHANGED <<confirm_quit, show_help>> /\ UNCHANGED busy
    BY DEF ScreenKey, probe_or_install, request_source, request_all, toggle_flow_view, toggle_config, edit_config, replay_move, other_key, dialogVars, workVars
  <1>3. input_open' \in BOOLEAN /\ flow_view' \in BOOLEAN
    BY DEF ScreenKey, probe_or_install, request_source, request_all, toggle_flow_view, toggle_config, edit_config, replay_move, other_key, dialogVars, viewVars, KeyboardTypeOK
  <1>4. spawned' \in BOOLEAN /\ (spawned' => spawned \/ screen = "live")
    <2>1. UNCHANGED spawned \/ (spawned' = TRUE /\ Gets("live"))
      BY DEF ScreenKey, probe_or_install, request_source, request_all, toggle_flow_view, toggle_config, edit_config, replay_move, other_key, workVars
    <2>2. CASE UNCHANGED spawned
      BY <2>2 DEF KeyboardTypeOK
    <2>3. CASE spawned' = TRUE /\ Gets("live")
      BY <2>3, GetsKey
    <2>4. QED BY <2>1, <2>2, <2>3
  <1>5. /\ screen' \in {"live", "config", "replay"}
        /\ (screen = "replay") = (screen' = "replay")
        /\ UNCHANGED count
    BY GetsKey DEF ScreenKey, probe_or_install, request_source, request_all, toggle_flow_view, toggle_config, edit_config, replay_move, other_key, viewVars, KeyboardTypeOK
  <1>6. index' \in Nat /\ (count > 0 => index' < count)
    <2>1. CASE UNCHANGED index
      BY <2>1 DEF KeyboardTypeOK
    <2>2. CASE replay_move
      <3>1. count > 0 /\ index \in Nat /\ count \in Nat /\ index < count
        BY <2>2, GetsKey DEF replay_move, Loop, ReplayShown, KeyboardTypeOK
      <3>2. QED BY <2>2, <3>1 DEF replay_move, Forward
    <2>3. QED BY <2>1, <2>2 DEF ScreenKey, probe_or_install, request_source, request_all, toggle_flow_view, toggle_config, edit_config, other_key, viewVars
  <1>7. /\ trace_source' \in TraceSources
        /\ pending_trace' \in Pending \cup {NoDialog}
        /\ AskedIsShown'
    <2>1. CASE UNCHANGED <<trace_source, pending_trace>>
      BY <1>1, <2>1 DEF AskedIsShown, KeyboardTypeOK
    <2>2. ASSUME NEW s \in TraceSources, request_source(s)
          PROVE  trace_source' \in TraceSources /\ pending_trace' \in Pending \cup {NoDialog} /\ AskedIsShown'
      <3>1. trace_source' = s /\ pending_trace' \in {NoDialog, Question({s})} /\ screen = "live" /\ screen' = screen
        BY <1>1, <2>2, GetsKey DEF request_source, SourceAfter
      <3>2. Question({s}) \in Pending /\ Question({s}).on = {s}
        BY Questions
      <3>3. QED BY <3>1, <3>2 DEF AskedIsShown
    <2>3. CASE request_all
      <3>1. UNCHANGED trace_source /\ pending_trace' = Question(TraceSources) /\ screen = "live" /\ screen' = screen
        BY <2>3, GetsKey DEF request_all, viewVars
      <3>2. Question(TraceSources) \in Pending /\ Question(TraceSources).on = TraceSources
        BY Questions, KeyboardAssumption
      <3>3. QED BY <3>1, <3>2 DEF AskedIsShown, KeyboardTypeOK
    <2>4. QED BY <2>1, <2>2, <2>3 DEF ScreenKey, probe_or_install, toggle_flow_view, toggle_config, edit_config, replay_move, other_key, dialogVars, viewVars
  <1>8. UNCHANGED loopStateVars /\ at' = "top" /\ needs_redraw' = TRUE
    BY <1>1 DEF Handled
  <1>9. KeyboardTypeOK'
    BY <1>2, <1>3, <1>4, <1>5, <1>6, <1>7, <1>8 DEF KeyboardTypeOK, loopStateVars
  <1>10. Loop'
    BY <1>1, <1>2, <1>5, <1>8, HandledLoop DEF OneDialog, ReplayShown, Loop, loopStateVars
  <1>11. StartedIsCleaned' /\ QuitIsAsked'
    BY <1>1, <1>4, <1>5, <1>8 DEF StartedIsCleaned, QuitIsAsked, Loop, SizeRead, loopStateVars
  <1>12. QED BY <1>7, <1>9, <1>10, <1>11

-----------------------------------------------------------------------------
LEMMA NextKeyboard == KeyboardInv /\ [KeyboardNext]_keyboardVars => KeyboardInv'
  <1> SUFFICES ASSUME KeyboardInv, [KeyboardNext]_keyboardVars PROVE KeyboardInv'
    OBVIOUS
  <1>1. CASE KeyboardNext
    <2>1. CASE look
      BY <2>1, LookStep
    <2>2. CASE draw
      BY <2>2, DrawStep
    <2>3. CASE no_event \/ resize_event \/ resize
      BY <2>3, EventStep
    <2>4. CASE ctrl_c \/ gate_key
      <3>1. ctrl_c \/ gate_key \/ (Gets("quit") /\ begin_shutdown("key"))
        BY <2>4
      <3>2. QED BY <3>1, LeavingStep
    <2>5. CASE DialogKey
      BY <2>5, DialogStep
    <2>6. CASE ScreenKey
      BY <2>6, ScreenStep
    <2>7. CASE look_fails \/ draw_fails \/ poll_fails
      BY <2>7, FailStep
    <2>8. QED BY <1>1, <2>1, <2>2, <2>3, <2>4, <2>5, <2>6, <2>7 DEF KeyboardNext
  <1>2. CASE UNCHANGED keyboardVars
    <2>1. KeyboardTypeOK'
      BY <1>2 DEF KeyboardInv, KeyboardTypeOK, keyboardVars, loopStateVars, dialogVars, viewVars, workVars
    <2>2. Loop'
      BY <1>2 DEF KeyboardInv, Loop, SizeRead, ScreenCurrent, OneDialog, ReplayShown, Picture, keyboardVars, loopStateVars, dialogVars, viewVars, workVars
    <2>3. AskedIsShown' /\ StartedIsCleaned' /\ QuitIsAsked'
      BY <1>2 DEF KeyboardInv, AskedIsShown, StartedIsCleaned, QuitIsAsked, keyboardVars, loopStateVars, dialogVars, viewVars, workVars
    <2>4. QED BY <2>1, <2>2, <2>3 DEF KeyboardInv
  <1>3. QED BY <1>1, <1>2

LEMMA KeyboardInvariant == KeyboardSpec => []KeyboardInv
  BY InitKeyboard, NextKeyboard, PTL DEF KeyboardSpec

(* The types, and that a recording shows one of its snapshots.             *)
THEOREM KeyboardTypes == KeyboardSpec => []KeyboardTypeOK
  <1>1. KeyboardInv => KeyboardTypeOK
    BY DEF KeyboardInv
  <1>2. QED BY <1>1, KeyboardInvariant, PTL

(* A key goes to the dialog or screen that the user sees, whatever the     *)
(* workers and the terminal do between a draw and the key (run_app, draw   *)
(* and handle_key).                                                        *)
THEOREM KeysMeet == KeyboardSpec => []KeysMeetTheScreen
  BY KeyboardInvariant, Meeting, PTL

(* A session that started workers ends without begin_shutdown only by the  *)
(* error exits of run_app: no key, on no screen, dialog or gate, skips it. *)
THEOREM Cleaned == KeyboardSpec => []StartedIsCleaned
  <1>1. KeyboardInv => StartedIsCleaned
    BY DEF KeyboardInv
  <1>2. QED BY <1>1, KeyboardInvariant, PTL

(* A question is asked over what it is about, and a key ends the session   *)
(* only by Ctrl-C or where the quit dialog or the gate was on the screen.  *)
THEOREM Asked == KeyboardSpec => []QuestionsAsked
  <1>1. KeyboardInv => QuestionsAsked
    BY DEF KeyboardInv, QuestionsAsked
  <1>2. QED BY <1>1, KeyboardInvariant, PTL

-----------------------------------------------------------------------------
(* The config screen.                                                      *)

(* The pass over the hosts that normalize_hosts is.                        *)
AddHost(clean, h) == IF h \in ToSet(clean) THEN clean ELSE Append(clean, h)
Pass == INSTANCE FoldTheorems WITH Step <- AddHost

Distinct(hosts) == \A i, j \in DOMAIN hosts: i # j => hosts[i] # hosts[j]

(* The rows that open an input line, and what is known of an open one.     *)
InputRows == {"admin_host", "osdtrace_url", "osdtrace_sha256", "add", "host"} \cup Counts
LineOK ==
    \/ input = NoInput
    \/ /\ input.row \in InputRows
       /\ input.row = "host" => selected > Len(FixedRows) /\ input.index = HostIndex(selected)

(* A save under way is of the draft, over a file that could be read.       *)
ReadableFile(f) == f = NoFile \/ IsConfigFile(f)
SaveUnderWay ==
    saving # NoSave =>
        /\ Valid(draft)
        /\ ReadableFile(saving.loaded)
        /\ saving.config = Saved(saving.loaded, draft)

(* The inductive invariant.  App and the draft hold usable configurations, *)
(* so that what a save makes of one (AtLeastOne) is the same again; the    *)
(* draft is of the profile that App runs, so that a save replaces this     *)
(* profile only; its clients are those of App, which are distinct, so that *)
(* the next start reads them as they are.                                  *)
EditorInv ==
    /\ EditorTypeOK
    /\ LineOK
    /\ Usable(app) /\ Usable(draft)
    /\ draft.profile = app.profile /\ draft.clients = app.clients /\ Distinct(app.clients)
    /\ StreamsMatch
    /\ CleanMeansLive
    /\ Restartable
    /\ SaveUnderWay

-----------------------------------------------------------------------------
(* Lists of hosts.                                                         *)

(* normalize_hosts keeps the hosts of a list, each once, and keeps a list  *)
(* of distinct hosts as it is.                                             *)
LEMMA NormalHosts ==
    ASSUME NEW S, NEW hosts \in Seq(S)
    PROVE  /\ normalize_hosts(hosts) \in Seq(S)
           /\ ToSet(normalize_hosts(hosts)) = ToSet(hosts)
           /\ Distinct(normalize_hosts(hosts))
           /\ Distinct(hosts) => normalize_hosts(hosts) = hosts
  <1>1. normalize_hosts(hosts) = Pass!Folded(<<>>, hosts)
    BY DEF normalize_hosts, AddHost, Pass!Folded, FoldLeft, MapThenFoldSet,
           Pass!MapThenFoldSet, Max, Pass!Greatest
  <1>2. PICK acc: /\ acc[0] = <<>>
                  /\ \A n \in 1 .. Len(hosts): acc[n] = AddHost(acc[n - 1], hosts[n])
                  /\ acc[Len(hosts)] = Pass!Folded(<<>>, hosts)
    BY Pass!Fold
  <1> DEFINE Good(c, n) ==
                 /\ c \in Seq(S)
                 /\ ToSet(c) = {hosts[i]: i \in 1 .. n}
                 /\ Distinct(c)
                 /\ Distinct(hosts) => Len(c) = n /\ \A i \in 1 .. n: c[i] = hosts[i]
             T == {n \in Nat: n <= Len(hosts) => Good(acc[n], n)}
  <1>3. 0 \in T
    <2>1. <<>> \in Seq(S) /\ Len(<<>>) = 0 /\ DOMAIN <<>> = {} /\ 1 .. 0 = {}
      OBVIOUS
    <2>2. ToSet(<<>>) = {} /\ {hosts[i]: i \in 1 .. 0} = {} /\ Distinct(<<>>)
      BY <2>1 DEF ToSet, Distinct
    <2>3. Good(<<>>, 0)
      BY <2>1, <2>2
    <2>4. QED BY <1>2, <2>3
  <1>4. ASSUME NEW n \in Nat, n \in T PROVE n + 1 \in T
    <2>1. SUFFICES ASSUME n + 1 <= Len(hosts) PROVE Good(acc[n + 1], n + 1)
      OBVIOUS
    <2> DEFINE c == acc[n]
               h == hosts[n + 1]
    <2>2. Len(hosts) \in Nat /\ n + 1 \in 1 .. Len(hosts) /\ h \in S
      BY <2>1
    <2>3. acc[n + 1] = AddHost(c, h)
      BY <1>2, <2>2
    <2>4. Good(c, n)
      BY <1>4, <2>2
    <2>5. {hosts[i]: i \in 1 .. (n + 1)} = {hosts[i]: i \in 1 .. n} \cup {h}
      OBVIOUS
    <2>6. h \in {hosts[i]: i \in 1 .. n} => ~Distinct(hosts)
      BY <2>2 DEF Distinct
    <2> HIDE DEF c, h
    <2>7. CASE h \in ToSet(c)
      BY <2>3, <2>4, <2>5, <2>6, <2>7 DEF AddHost
    <2>8. CASE h \notin ToSet(c)
      <3>1. acc[n + 1] = Append(c, h)
        BY <2>3, <2>8 DEF AddHost
      <3>2. Append(c, h) \in Seq(S) /\ Len(Append(c, h)) = Len(c) + 1
        BY <2>2, <2>4
      <3>3. ToSet(Append(c, h)) = ToSet(c) \cup {h}
        BY <2>2, <2>4, ToSetAppend
      <3>4. Distinct(Append(c, h))
        BY <2>2, <2>4, <2>8 DEF Distinct, ToSet
      <3>5. Distinct(hosts) => \A i \in 1 .. (n + 1): Append(c, h)[i] = hosts[i]
        BY <2>2, <2>4 DEF h
      <3>6. QED BY <2>4, <2>5, <3>1, <3>2, <3>3, <3>4, <3>5
    <2>9. QED BY <2>7, <2>8
  <1>5. Len(hosts) \in T
    <2> HIDE DEF T
    <2>1. Len(hosts) \in Nat
      OBVIOUS
    <2>2. QED BY <1>3, <1>4, <2>1, Pass!Induct
  <1>6. Good(normalize_hosts(hosts), Len(hosts))
    BY <1>1, <1>2, <1>5
  <1>7. ToSet(hosts) = {hosts[i]: i \in 1 .. Len(hosts)}
    BY DEF ToSet
  <1>8. QED BY <1>6, <1>7

(* A list without one of its rows.                                         *)
LEMMA RemovedHost ==
    ASSUME NEW S, NEW hosts \in Seq(S), NEW i \in 1 .. Len(hosts)
    PROVE  /\ RemoveAt(hosts, i) \in Seq(S)
           /\ Len(RemoveAt(hosts, i)) = Len(hosts) - 1
           /\ \A j \in DOMAIN hosts: j # i => hosts[j] \in ToSet(RemoveAt(hosts, i))
  <1> DEFINE a == SubSeq(hosts, 1, i - 1)
             b == SubSeq(hosts, i + 1, Len(hosts))
             c == a \o b
  <1>0. Len(hosts) \in Nat /\ DOMAIN hosts = 1 .. Len(hosts) /\ i \in Nat
    OBVIOUS
  <1>1. a \in Seq(S) /\ Len(a) = i - 1 /\ \A j \in 1 .. (i - 1): a[j] = hosts[j]
    <2>1. 1 \in 1 .. Len(hosts) + 1 /\ i - 1 \in (1 - 1) .. Len(hosts) /\ (i - 1) - 1 + 1 = i - 1
      BY <1>0
    <2>2. a \in Seq(S) /\ Len(a) = i - 1 /\ \A j \in 1 .. (i - 1): a[j] = hosts[1 + j - 1]
      BY <2>1, PartOf
    <2>3. QED BY <1>0, <2>2
  <1>2. b \in Seq(S) /\ Len(b) = Len(hosts) - i /\ \A j \in 1 .. (Len(hosts) - i): b[j] = hosts[i + j]
    <2>1. /\ i + 1 \in 1 .. Len(hosts) + 1 /\ Len(hosts) \in ((i + 1) - 1) .. Len(hosts)
          /\ Len(hosts) - (i + 1) + 1 = Len(hosts) - i
      BY <1>0
    <2>2. b \in Seq(S) /\ Len(b) = Len(hosts) - i /\ \A j \in 1 .. (Len(hosts) - i): b[j] = hosts[(i + 1) + j - 1]
      <3> DEFINE k == i + 1
                 n == Len(hosts)
      <3> HIDE DEF k, n
      <3>1. k \in 1 .. Len(hosts) + 1 /\ n \in (k - 1) .. Len(hosts)
        BY <2>1 DEF k, n
      <3>2. /\ SubSeq(hosts, k, n) \in Seq(S) /\ Len(SubSeq(hosts, k, n)) = n - k + 1
            /\ \A j \in 1 .. (n - k + 1): SubSeq(hosts, k, n)[j] = hosts[k + j - 1]
        BY <3>1, PartOf, Zenon
      <3>3. b = SubSeq(hosts, k, n) /\ n - k + 1 = Len(hosts) - i
        BY <2>1 DEF k, n
      <3>4. QED BY <3>2, <3>3 DEF k
    <2>3. \A j \in 1 .. (Len(hosts) - i): (i + 1) + j - 1 = i + j
      BY <1>0
    <2>4. QED BY <2>2, <2>3
  <1>3. RemoveAt(hosts, i) = c
    BY DEF RemoveAt
  <1> HIDE DEF a, b
  <1>4. c \in Seq(S) /\ Len(c) = Len(hosts) - 1 /\ DOMAIN c = 1 .. (Len(hosts) - 1)
    <2>1. c \in Seq(S) /\ Len(c) = Len(a) + Len(b)
      BY <1>1, <1>2, ConcatProperties
    <2>2. Len(a) + Len(b) = Len(hosts) - 1
      BY <1>0, <1>1, <1>2
    <2> HIDE DEF c
    <2>3. QED BY <2>1, <2>2
  <1>4a. \A j \in 1 .. Len(a) + Len(b): c[j] = IF j <= Len(a) THEN a[j] ELSE b[j - Len(a)]
    BY <1>1, <1>2, ConcatProperties
  <1>5. \A j \in 1 .. (i - 1): c[j] = hosts[j]
    <2> HIDE DEF c
    <2>1. QED BY <1>0, <1>1, <1>2, <1>4a
  <1>6. \A j \in (i + 1) .. Len(hosts): c[j - 1] = hosts[j]
    <2> HIDE DEF c
    <2>1. SUFFICES ASSUME NEW j \in (i + 1) .. Len(hosts) PROVE c[j - 1] = hosts[j]
      OBVIOUS
    <2>2. j - 1 \in 1 .. Len(a) + Len(b) /\ ~(j - 1 <= Len(a)) /\ (j - 1) - Len(a) = j - i
      BY <1>0, <1>1, <1>2
    <2>3. j - i \in 1 .. (Len(hosts) - i) /\ i + (j - i) = j
      BY <1>0
    <2>4. b[j - i] = hosts[j]
      BY <1>2, <2>3
    <2>5. QED BY <1>4a, <2>2, <2>4
  <1> HIDE DEF c
  <1>7. ASSUME NEW j \in DOMAIN hosts, j # i PROVE hosts[j] \in ToSet(c)
    <2>1. CASE j < i
      <3>1. j \in 1 .. (i - 1) /\ j \in DOMAIN c
        BY <1>0, <1>4, <2>1
      <3>2. QED BY <1>5, <3>1 DEF ToSet
    <2>2. CASE j > i
      <3>1. j \in (i + 1) .. Len(hosts) /\ j - 1 \in DOMAIN c
        BY <1>0, <1>4, <2>2
      <3>2. QED BY <1>6, <3>1 DEF ToSet
    <2>3. QED BY <1>0, <1>7, <2>1, <2>2
  <1>8. QED BY <1>3, <1>4, <1>7

-----------------------------------------------------------------------------
(* Drafts.                                                                 *)

LEMMA RowsOfScreen ==
    /\ Len(FixedRows) = 9
    /\ ToSet(FixedRows) = {"admin_host", "osdtrace_url", "osdtrace_sha256"} \cup Counts \cup Switches
    /\ \A i \in 1 .. 9: FixedRows[i] \in ToSet(FixedRows)
  <1>1. Len(FixedRows) = 9 /\ DOMAIN FixedRows = 1 .. 9
    BY DEF FixedRows
  <1>2. /\ FixedRows[1] = "admin_host" /\ FixedRows[2] = "refresh_secs" /\ FixedRows[3] = "trace_auto_start"
        /\ FixedRows[4] = "trace_window_secs" /\ FixedRows[5] = "trace_latency_ms"
        /\ FixedRows[6] = "trace_ttl_secs" /\ FixedRows[7] = "osdtrace_url"
        /\ FixedRows[8] = "osdtrace_sha256" /\ FixedRows[9] = "osdtrace_allow_unverified"
    BY DEF FixedRows
  <1>3. 1 .. 9 = {1, 2, 3, 4, 5, 6, 7, 8, 9}
    OBVIOUS
  <1>4. ToSet(FixedRows) = {FixedRows[i]: i \in {1, 2, 3, 4, 5, 6, 7, 8, 9}}
    BY <1>1, <1>3 DEF ToSet
  <1>5. QED BY <1>1, <1>2, <1>3, <1>4 DEF Counts, Switches

(* A valid configuration is applied as it is: raising its counts to one    *)
(* changes nothing.                                                        *)
LEMMA UsableCounts ==
    ASSUME NEW d, Usable(d)
    PROVE  d.count \in [Counts -> Nat] /\ AtLeastOne(d.count) = d.count
  <1>1. d \in Config /\ \A n \in Counts \ {"trace_latency_ms"}: d.count[n] > 0
    BY DEF Usable
  <1>2. d.count \in [Counts -> Nat]
    BY <1>1 DEF Config
  <1>3. QED BY <1>1, <1>2 DEF AtLeastOne

LEMMA ApplyingUsable == ASSUME NEW d, Usable(d) PROVE Applying(d) = d
  <1>1. [d EXCEPT !.count = d.count] = d
    BY DEF Usable, Config
  <1>2. QED BY <1>1, UsableCounts DEF Applying

(* What AtLeastOne makes of any counts.                                    *)
LEMMA RaisedCounts ==
    ASSUME NEW numbers, \A n \in Counts: numbers[n] \in Nat
    PROVE  /\ AtLeastOne(numbers) \in [Counts -> Nat]
           /\ \A n \in Counts \ {"trace_latency_ms"}: AtLeastOne(numbers)[n] > 0
  BY DEF AtLeastOne

(* What a start accepts is valid, and its clients are distinct.            *)
LEMMA ResolvedUsable ==
    ASSUME NEW f, f = NoFile \/ IsConfigFile(f), NEW cli, resolve_config(f, cli) # Broken
    PROVE  Usable(resolve_config(f, cli)) /\ Distinct(resolve_config(f, cli).clients)
  <1> DEFINE name == ProfileName(f, cli)
             p == IF name \in Known(f) THEN f.profiles[name] ELSE NoProfile
             r == Resolved(p, name, cli)
  <1>1. r \in Config /\ resolve_config(f, cli) = r
    BY DEF resolve_config
  <1>2. r.count \in [Counts -> Nat]
    BY <1>1 DEF Config
  <1>3. \A n \in Counts \ {"trace_latency_ms"}: r.count[n] # 0
    BY DEF Resolved, AtLeastOne
  <1>4. \A n \in Counts \ {"trace_latency_ms"}: r.count[n] > 0
    <2> HIDE DEF r
    <2> QED BY <1>2, <1>3
  <1>5. p.clients \in Seq(Words) \cup {Absent}
    <2>1. CASE name \in Known(f)
      <3>1. f # NoFile /\ name \in DOMAIN f.profiles
        BY <2>1 DEF Known
      <3>2. PICK names \in SUBSET Names: f.profiles \in [names -> Profiles]
        BY <3>1 DEF IsConfigFile
      <3>3. p \in Profiles
        BY <2>1, <3>1, <3>2
      <3>4. QED BY <3>3 DEF Profiles
    <2>2. CASE name \notin Known(f)
      BY <2>2 DEF NoProfile
    <2>3. QED BY <2>1, <2>2
  <1>6. OrElse(p.clients, <<>>) \in Seq(Words)
    BY <1>5 DEF OrElse
  <1>7. r.clients = normalize_hosts(OrElse(p.clients, <<>>))
    BY DEF Resolved
  <1>8. Distinct(r.clients)
    BY <1>6, <1>7, NormalHosts
  <1>9. QED BY <1>1, <1>4, <1>8 DEF Usable

(* The drafts that the keys save are valid, and are of the profile and the *)
(* clients of the draft before.                                            *)
DraftOf(d) == Usable(d) /\ d.profile = draft.profile /\ d.clients = draft.clients

(* The admin host is one of the hosts.                                     *)
AdminListed(d) == d.admin \in ToSet(d.hosts)

LEMMA DraftFields ==
    ASSUME NEW d, Usable(d)
    PROVE  /\ d = [profile |-> d.profile, admin |-> d.admin, hosts |-> d.hosts, clients |-> d.clients,
                   count |-> d.count, switch |-> d.switch, url |-> d.url, sum |-> d.sum]
           /\ d.profile \in Names /\ d.admin \in Dests
           /\ d.hosts \in Seq(Dests) /\ d.hosts # <<>> /\ d.clients \in Seq(Dests)
           /\ d.count \in [Counts -> Nat] /\ \A n \in Counts \ {"trace_latency_ms"}: d.count[n] > 0
           /\ d.switch \in [Switches -> BOOLEAN]
           /\ d.url \in Urls \cup {Blank} /\ d.sum \in Sums \cup {Blank}
  BY DEF Usable, Config

Draft(admin, hosts, numbers, switch, url, sum) ==
    [profile |-> draft.profile, admin |-> admin, hosts |-> hosts, clients |-> draft.clients,
     count |-> numbers, switch |-> switch, url |-> url, sum |-> sum]

LEMMA DraftMade ==
    ASSUME Usable(draft), NEW admin \in Dests, NEW hosts \in Seq(Dests), hosts # <<>>,
           NEW numbers \in [Counts -> Nat], \A n \in Counts \ {"trace_latency_ms"}: numbers[n] > 0,
           NEW switch \in [Switches -> BOOLEAN], NEW url \in Urls \cup {Blank}, NEW sum \in Sums \cup {Blank}
    PROVE  DraftOf(Draft(admin, hosts, numbers, switch, url, sum))
  BY DraftFields DEF DraftOf, Draft, Usable, Config

(* Lists of hosts that are normalized stay lists of hosts.                 *)
LEMMA NormalList ==
    ASSUME NEW hosts \in Seq(Dests), hosts # <<>>
    PROVE  normalize_hosts(hosts) \in Seq(Dests) /\ normalize_hosts(hosts) # <<>>
  <1> DEFINE clean == normalize_hosts(hosts)
  <1>1. clean \in Seq(Dests) /\ ToSet(clean) = ToSet(hosts)
    BY NormalHosts
  <1>2. 1 \in DOMAIN hosts
    OBVIOUS
  <1>3. hosts[1] \in ToSet(hosts)
    BY <1>2 DEF ToSet
  <1> HIDE DEF clean
  <1>4. clean # <<>>
    BY <1>1, <1>3 DEF ToSet
  <1>5. QED BY <1>1, <1>4 DEF clean

(* The fields after Enter.                                                 *)
HostsAfter(in, value) ==
    CASE in.row = "add" -> Append(draft.hosts, value)
      [] in.row = "host" -> [draft.hosts EXCEPT ![in.index] = value]
      [] OTHER -> draft.hosts
AdminAfter(in, value) ==
    IF in.row = "admin_host" \/ (in.row = "host" /\ draft.admin = draft.hosts[in.index])
    THEN value ELSE draft.admin
CountAfter(in, value) ==
    IF in.row \in Counts THEN AtLeastOne([draft.count EXCEPT ![in.row] = value]) ELSE draft.count

LEMMA AppliedFields ==
    ASSUME Usable(draft), NEW in, NEW value
    PROVE  Applied(in, value) =
              Draft(AdminAfter(in, value), normalize_hosts(HostsAfter(in, value)), CountAfter(in, value),
                    draft.switch, IF in.row = "osdtrace_url" THEN value ELSE draft.url,
                    IF in.row = "osdtrace_sha256" THEN value ELSE draft.sum)
  <1> DEFINE admin == AdminAfter(in, value)
             hosts == normalize_hosts(HostsAfter(in, value))
             numbers == CountAfter(in, value)
             url == IF in.row = "osdtrace_url" THEN value ELSE draft.url
             sum == IF in.row = "osdtrace_sha256" THEN value ELSE draft.sum
             d == [draft EXCEPT !.admin = admin, !.count = numbers, !.url = url, !.sum = sum, !.hosts = hosts]
  <1>1. Applied(in, value) = d
    BY DEF Applied, AdminAfter, HostsAfter, CountAfter
  <1> HIDE DEF admin, hosts, numbers, url, sum
  <1>2. draft \in Config
    BY DEF Usable
  <1>3. DOMAIN d = {"profile", "admin", "hosts", "clients", "count", "switch", "url", "sum"}
    BY <1>2 DEF Config
  <1>4. /\ d.profile = draft.profile /\ d.admin = admin /\ d.hosts = hosts /\ d.clients = draft.clients
        /\ d.count = numbers /\ d.switch = draft.switch /\ d.url = url /\ d.sum = sum
    BY <1>2 DEF Config
  <1>5. d = [field \in DOMAIN d |-> d[field]]
    OBVIOUS
  <1> HIDE DEF d
  <1>6. d = Draft(admin, hosts, numbers, draft.switch, url, sum)
    BY <1>3, <1>4, <1>5 DEF Draft
  <1>7. QED BY <1>1, <1>6 DEF admin, hosts, numbers, url, sum

(* The open host row is a row of the draft.                                *)
LEMMA OpenRow ==
    ASSUME EditorInv, input.row = "host"
    PROVE  input.index \in 1 .. Len(draft.hosts)
  <1>1. draft.hosts \in Seq(Dests)
    BY DraftFields DEF EditorInv
  <1>2. selected \in 1 .. (9 + Len(draft.hosts)) /\ input # NoInput
    BY RowsOfScreen DEF EditorInv, EditorTypeOK, Count, NoInput
  <1>3. selected > 9 /\ input.index = selected - 9
    BY <1>2, RowsOfScreen DEF EditorInv, LineOK, HostIndex
  <1>4. QED BY <1>1, <1>2, <1>3

(* The values of each row that a line accepts.                             *)
LEMMA AppliedDraft ==
    ASSUME EditorInv, input # NoInput, NEW value \in Typed[input.row], Accepts(input, value)
    PROVE  DraftOf(Applied(input, value)) /\ (input.row # "admin_host" /\ AdminListed(draft) => AdminListed(Applied(input, value)))
  <1> DEFINE hosts == HostsAfter(input, value)
             clean == normalize_hosts(hosts)
             admin == AdminAfter(input, value)
             numbers == CountAfter(input, value)
             url == IF input.row = "osdtrace_url" THEN value ELSE draft.url
             sum == IF input.row = "osdtrace_sha256" THEN value ELSE draft.sum
  <1>1. Usable(draft) /\ input.row \in InputRows
    BY DEF EditorInv, LineOK
  <1>2. draft.hosts \in Seq(Dests) /\ draft.hosts # <<>> /\ draft.admin \in Dests
    BY <1>1, DraftFields
  <1>3. input.row \in {"admin_host", "add", "host"} => value \in Dests
    BY DEF Accepts, Counts
  <1>4. hosts \in Seq(Dests) /\ hosts # <<>>
    <2>1. CASE input.row = "add"
      BY <1>2, <1>3, <2>1 DEF HostsAfter
    <2>2. CASE input.row = "host"
      <3>1. hosts = [draft.hosts EXCEPT ![input.index] = value]
        BY <2>2 DEF HostsAfter
      <3>2. QED BY <1>2, <1>3, <2>2, <3>1, OpenRow, ExceptSeq
    <2>3. CASE input.row \notin {"add", "host"}
      BY <1>2, <2>3 DEF HostsAfter
    <2>4. QED BY <2>1, <2>2, <2>3
  <1>5. admin \in Dests
    BY <1>2, <1>3 DEF AdminAfter
  <1>6. numbers \in [Counts -> Nat] /\ \A n \in Counts \ {"trace_latency_ms"}: numbers[n] > 0
    <2>1. CASE input.row \in Counts
      <3>1. value \in Nat
        BY <2>1 DEF Accepts, Counts
      <3>2. [draft.count EXCEPT ![input.row] = value] \in [Counts -> Nat]
        BY <1>1, <2>1, <3>1, DraftFields
      <3>3. QED BY <2>1, <3>2, RaisedCounts DEF CountAfter
    <2>2. CASE input.row \notin Counts
      BY <1>1, <2>2, DraftFields DEF CountAfter
    <2>3. QED BY <2>1, <2>2
  <1>7. url \in Urls \cup {Blank}
    BY <1>1, DraftFields, ConfigAssumption
  <1>8. sum \in Sums \cup {Blank}
    <2>1. input.row = "osdtrace_sha256" => value \in Sums \cup {Blank}
      BY DEF Accepts, Counts
    <2>2. QED BY <1>1, <2>1, DraftFields
  <1>9. Applied(input, value) = Draft(admin, clean, numbers, draft.switch, url, sum)
    BY <1>1, AppliedFields
  <1>10. clean \in Seq(Dests) /\ clean # <<>> /\ ToSet(clean) = ToSet(hosts)
    BY <1>4, NormalList, NormalHosts
  <1>11. draft.switch \in [Switches -> BOOLEAN]
    BY <1>1, DraftFields
  <1>12. DraftOf(Draft(admin, clean, numbers, draft.switch, url, sum))
    <2> HIDE DEF admin, clean, numbers, url, sum
    <2>1. QED BY <1>1, <1>5, <1>6, <1>7, <1>8, <1>10, <1>11, DraftMade
  <1>13. ASSUME input.row # "admin_host", AdminListed(draft) PROVE admin \in ToSet(hosts)
    <2>1. PICK j \in DOMAIN draft.hosts: draft.admin = draft.hosts[j]
      BY <1>13 DEF AdminListed, ToSet
    <2>2. CASE input.row = "add"
      <3>1. hosts = Append(draft.hosts, value) /\ admin = draft.admin
        BY <1>13, <2>2 DEF HostsAfter, AdminAfter
      <3>2. QED BY <1>2, <1>3, <1>13, <2>2, <3>1, ToSetAppend DEF AdminListed
    <2>3. CASE input.row = "host"
      <3>1. hosts = [draft.hosts EXCEPT ![input.index] = value] /\ input.index \in DOMAIN draft.hosts
        BY <1>2, <2>3, OpenRow DEF HostsAfter
      <3>2. DOMAIN hosts = DOMAIN draft.hosts /\ hosts[input.index] = value
            /\ (j # input.index => hosts[j] = draft.hosts[j])
        BY <3>1, <2>1
      <3>3. CASE draft.admin = draft.hosts[input.index]
        <4>1. admin = value
          BY <2>3, <3>3 DEF AdminAfter
        <4> HIDE DEF hosts, admin
        <4>2. QED BY <3>1, <3>2, <4>1 DEF ToSet
      <3>4. CASE draft.admin # draft.hosts[input.index]
        <4>1. admin = draft.admin /\ j # input.index
          BY <1>13, <2>1, <2>3, <3>4 DEF AdminAfter
        <4> HIDE DEF hosts, admin
        <4>2. QED BY <2>1, <3>1, <3>2, <4>1 DEF ToSet
      <3>5. QED BY <3>3, <3>4
    <2>4. CASE input.row \notin {"add", "host"}
      BY <1>13, <2>4 DEF HostsAfter, AdminAfter, AdminListed
    <2>5. QED BY <2>2, <2>3, <2>4
  <1>14. Applied(input, value).admin = admin /\ Applied(input, value).hosts = clean
    BY <1>9 DEF Draft
  <1> HIDE DEF hosts, clean, admin, numbers, url, sum
  <1>15. QED BY <1>9, <1>10, <1>12, <1>13, <1>14 DEF AdminListed

(* A deleted host row takes the admin host with it to the first host.      *)
LEMMA DeletedDraft ==
    ASSUME EditorInv, Selection(selected) = "host", Len(draft.hosts) > 1
    PROVE  /\ DraftOf(Deleted(HostIndex(selected)))
           /\ AdminListed(draft) => AdminListed(Deleted(HostIndex(selected)))
  <1> DEFINE i == HostIndex(selected)
             hosts == RemoveAt(draft.hosts, i)
             admin == IF draft.admin = draft.hosts[i] THEN hosts[1] ELSE draft.admin
             d == [draft EXCEPT !.hosts = hosts, !.admin = admin]
  <1>1. Usable(draft) /\ draft \in Config
    BY DEF EditorInv, Usable
  <1>2. draft.hosts \in Seq(Dests) /\ draft.admin \in Dests
    BY <1>1, DraftFields
  <1>3. selected \in 1 .. (9 + Len(draft.hosts)) /\ selected > 9
    <2>1. selected \in 1 .. (9 + Len(draft.hosts))
      BY RowsOfScreen DEF EditorInv, EditorTypeOK, Count
    <2>2. selected <= 9 => FixedRows[selected] # "host"
      <3>1. "host" \notin ToSet(FixedRows)
        BY RowsOfScreen DEF Counts, Switches
      <3>2. \A r \in 1 .. 9: FixedRows[r] # "host"
        BY RowsOfScreen, <3>1, Zenon
      <3>3. QED BY <1>2, <2>1, <3>2
    <2>3. QED BY <1>2, <2>1, <2>2, RowsOfScreen DEF Selection
  <1>4. i \in 1 .. Len(draft.hosts)
    BY <1>2, <1>3, RowsOfScreen DEF HostIndex
  <1>5. hosts \in Seq(Dests) /\ Len(hosts) = Len(draft.hosts) - 1
    BY <1>2, <1>4, RemovedHost
  <1>6. \A j \in DOMAIN draft.hosts: j # i => draft.hosts[j] \in ToSet(hosts)
    BY <1>2, <1>4, RemovedHost
  <1>7. Deleted(i) = d
    BY DEF Deleted
  <1> HIDE DEF i, hosts
  <1>8. hosts # <<>> /\ hosts[1] \in Dests /\ hosts[1] \in ToSet(hosts)
    <2>1. Len(draft.hosts) \in Nat
      BY <1>2
    <2>2. 1 \in DOMAIN hosts
      BY <1>5, <2>1
    <2>3. QED BY <1>5, <2>2 DEF ToSet
  <1>9. admin \in Dests
    BY <1>2, <1>8
  <1>10. AdminListed(draft) => admin \in ToSet(hosts)
    BY <1>6, <1>8 DEF AdminListed, ToSet
  <1> HIDE DEF admin
  <1>11. d \in Config /\ d.profile = draft.profile /\ d.clients = draft.clients
         /\ d.count = draft.count /\ d.hosts = hosts /\ d.admin = admin
    BY <1>1, <1>5, <1>8, <1>9 DEF Config
  <1>12. Usable(d)
    BY <1>1, <1>11 DEF Usable
  <1>13. DraftOf(d) /\ (AdminListed(draft) => AdminListed(d))
    BY <1>10, <1>11, <1>12 DEF DraftOf, AdminListed
  <1>14. QED BY <1>7, <1>13 DEF i

LEMMA SwitchedDraft ==
    ASSUME EditorInv, NEW row \in Switches
    PROVE  /\ DraftOf([draft EXCEPT !.switch[row] = ~@])
           /\ AdminListed(draft) => AdminListed([draft EXCEPT !.switch[row] = ~@])
  <1> DEFINE d == [draft EXCEPT !.switch[row] = ~@]
  <1>1. Usable(draft) /\ draft \in Config
    BY DEF EditorInv, Usable
  <1>2. draft.switch \in [Switches -> BOOLEAN]
    BY <1>1, DraftFields
  <1>3. [draft.switch EXCEPT ![row] = ~@] \in [Switches -> BOOLEAN]
    BY <1>2
  <1>4. d = [draft EXCEPT !.switch = [draft.switch EXCEPT ![row] = ~@]]
    OBVIOUS
  <1>5. d \in Config /\ d.profile = draft.profile /\ d.clients = draft.clients
        /\ d.count = draft.count /\ d.hosts = draft.hosts /\ d.admin = draft.admin
    <2> DEFINE switch == [draft.switch EXCEPT ![row] = ~@]
    <2>1. d = [draft EXCEPT !.switch = switch] /\ switch \in [Switches -> BOOLEAN]
      BY <1>3, <1>4
    <2> HIDE DEF switch, d
    <2>2. QED BY <1>1, <2>1 DEF Config
  <1> HIDE DEF d
  <1>6. Usable(d)
    BY <1>1, <1>5 DEF Usable
  <1>7. DraftOf(d) /\ (AdminListed(draft) => AdminListed(d))
    BY <1>5, <1>6 DEF DraftOf, AdminListed
  <1>8. QED BY <1>7 DEF d

LEMMA SameDraft ==
    ASSUME EditorInv
    PROVE  DraftOf(draft)
  BY DEF EditorInv, DraftOf

-----------------------------------------------------------------------------
(* Saving.                                                                 *)

(* What Saved makes of a file that could be read: the profile of the draft *)
(* is stored, and everything else is as it was.                            *)
LEMMA SavedFile ==
    ASSUME NEW f, ReadableFile(f), NEW d, Usable(d)
    PROVE  /\ IsConfigFile(Saved(f, d))
           /\ d.profile \in DOMAIN Saved(f, d).profiles
           /\ Saved(f, d).profiles[d.profile] = StoredProfile(d)
           /\ f # NoFile => HasOthersOf(Saved(f, d), f, d.profile)
  <1> DEFINE fresh == [default_profile |-> Absent, session_keep |-> Absent, profiles |-> <<>>]
             old == IF f = NoFile THEN fresh ELSE f
             p == StoredProfile(d)
             new == [old EXCEPT !.default_profile = OrElse(@, d.profile),
                                !.profiles = [n \in DOMAIN @ \cup {d.profile} |-> IF n = d.profile THEN p ELSE @[n]]]
  <1>1. Saved(f, d) = new
    BY DEF Saved
  <1>2. d.profile \in Names /\ p \in Profiles
    <2>1. /\ d.admin \in Words /\ d.hosts \in Seq(Words) /\ d.clients \in Seq(Words)
          /\ Optional(d.url) \in Words \cup {Absent} /\ Optional(d.sum) \in Words \cup {Absent}
      BY DraftFields, ConfigAssumption DEF Optional
    <2>2. AtLeastOne(d.count) \in [Counts -> Nat \cup {Absent}]
      BY UsableCounts, DraftFields
    <2>3. d.switch \in [Switches -> BOOLEAN \cup {Absent}] /\ d.profile \in Names
      BY DraftFields
    <2>4. QED BY <2>1, <2>2, <2>3 DEF StoredProfile, Profiles
  <1>3. PICK names \in SUBSET Names:
           old \in [default_profile: Names \cup {Absent}, session_keep: Nat \cup {Absent},
                    profiles: [names -> Profiles]]
    <2>1. CASE f = NoFile
      <3>1. <<>> \in [{} -> Profiles] /\ {} \in SUBSET Names
        OBVIOUS
      <3>2. fresh \in [default_profile: Names \cup {Absent}, session_keep: Nat \cup {Absent},
                       profiles: [{} -> Profiles]]
        BY <3>1
      <3>3. QED BY <2>1, <3>1, <3>2
    <2>2. CASE f # NoFile
      BY <2>2 DEF ReadableFile, IsConfigFile
    <2>3. QED BY <2>1, <2>2
  <1> HIDE DEF old, p
  <1>4. /\ DOMAIN old.profiles = names
        /\ [n \in names \cup {d.profile} |-> IF n = d.profile THEN p ELSE old.profiles[n]]
              \in [names \cup {d.profile} -> Profiles]
    BY <1>2, <1>3
  <1>5. new = [old EXCEPT !.default_profile = OrElse(old.default_profile, d.profile),
                          !.profiles = [n \in names \cup {d.profile} |-> IF n = d.profile THEN p ELSE old.profiles[n]]]
    BY <1>4
  <1>6. /\ new.default_profile = OrElse(old.default_profile, d.profile)
        /\ new.session_keep = old.session_keep
        /\ new.profiles = [n \in names \cup {d.profile} |-> IF n = d.profile THEN p ELSE old.profiles[n]]
        /\ new \in [default_profile: Names \cup {Absent}, session_keep: Nat \cup {Absent},
                    profiles: [names \cup {d.profile} -> Profiles]]
    BY <1>2, <1>3, <1>4, <1>5 DEF OrElse
  <1> HIDE DEF new
  <1>7. IsConfigFile(new)
    <2>1. names \cup {d.profile} \in SUBSET Names
      BY <1>2
    <2>2. QED BY <1>6, <2>1 DEF IsConfigFile
  <1>8. d.profile \in DOMAIN new.profiles /\ new.profiles[d.profile] = p
    BY <1>6
  <1>9. f # NoFile => old = f
    BY DEF old
  <1>10. f # NoFile =>
            /\ \A n \in DOMAIN f.profiles:
                  n # d.profile => n \in DOMAIN new.profiles /\ new.profiles[n] = f.profiles[n]
            /\ f.default_profile # Absent => new.default_profile = f.default_profile
            /\ new.session_keep = f.session_keep
    BY <1>4, <1>6, <1>9 DEF OrElse
  <1>11. f # NoFile => HasOthersOf(new, f, d.profile)
    BY <1>10 DEF HasOthersOf
  <1>12. QED BY <1>1, <1>7, <1>8, <1>11 DEF p

(* The next start reads what a save stored.                                *)
LEMMA StartAfterSave ==
    ASSUME NEW f, IsConfigFile(f), NEW d, Usable(d), Distinct(d.clients),
           d.profile \in DOMAIN f.profiles, f.profiles[d.profile] = StoredProfile(d)
    PROVE  resolve_config(f, Plain(d.profile)) = d
  <1> DEFINE cli == Plain(d.profile)
             p == StoredProfile(d)
             r == Resolved(p, d.profile, cli)
  <1>1. f # Broken /\ f # NoFile
    BY ConfigAssumption
  <1>2. /\ Absent \notin Names /\ Absent \notin Seq(Words) /\ Absent \notin Words /\ Absent \notin Nat
        /\ Absent \notin BOOLEAN /\ Dests \subseteq Words /\ Sums \subseteq Words /\ Urls \subseteq Words
        /\ Blank \in Words
    BY ConfigAssumption
  <1>3. cli.profile = d.profile /\ cli.hosts = Absent /\ cli.admin = Absent /\ cli.refresh = Absent
    BY DEF Plain
  <1>4. ProfileName(f, cli) = d.profile
    BY <1>2, <1>3, DraftFields DEF ProfileName
  <1>5. d.hosts \in Seq(Words) /\ d.clients \in Seq(Words)
    BY <1>2, DraftFields
  <1>6. r.profile = d.profile /\ r.hosts = d.hosts
    BY <1>2, <1>3, <1>5 DEF Resolved, OrElse, StoredProfile
  <1>7. r.admin = d.admin
    BY <1>2, <1>3, DraftFields DEF Resolved, OrElse, StoredProfile
  <1>8. r.clients = d.clients
    <2>1. OrElse(p.clients, <<>>) = d.clients
      BY <1>2, <1>5 DEF OrElse, StoredProfile
    <2>2. normalize_hosts(d.clients) = d.clients
      BY <1>5, NormalHosts
    <2>3. QED BY <2>1, <2>2 DEF Resolved
  <1>9. r.count = d.count
    <2>1. d.count \in [Counts -> Nat] /\ AtLeastOne(d.count) = d.count
      BY UsableCounts
    <2>2. p.count = d.count
      BY <2>1 DEF StoredProfile
    <2>3. [n \in Counts |-> OrElse(IF n = "refresh_secs" THEN cli.refresh ELSE Absent,
                                   OrElse(p.count[n], DefaultCount(n)))] = d.count
      BY <1>2, <1>3, <2>1, <2>2 DEF OrElse
    <2>4. QED BY <2>1, <2>3 DEF Resolved
  <1>10. r.switch = d.switch
    <2>1. d.switch \in [Switches -> BOOLEAN] /\ p.switch = d.switch
      BY DraftFields DEF StoredProfile
    <2>2. [s \in Switches |-> OrElse(p.switch[s], FALSE)] = d.switch
      BY <1>2, <2>1 DEF OrElse
    <2>3. QED BY <2>2 DEF Resolved
  <1>11. r.url = d.url /\ r.sum = d.sum
    BY <1>2, DraftFields DEF Resolved, OrElse, StoredProfile, Optional
  <1>12. r = d
    <2>1. r = [profile |-> r.profile, admin |-> r.admin, hosts |-> r.hosts, clients |-> r.clients,
               count |-> r.count, switch |-> r.switch, url |-> r.url, sum |-> r.sum]
      BY DEF Resolved
    <2> HIDE DEF r
    <2>2. QED BY <1>6, <1>7, <1>8, <1>9, <1>10, <1>11, <2>1, DraftFields
  <1>13. OrElse(cli.hosts, p.hosts) # <<>>
    BY <1>3, DraftFields DEF OrElse, StoredProfile
  <1>14. d.profile \in Known(f)
    BY <1>1 DEF Known
  <1> HIDE DEF r, p, cli
  <1>15. resolve_config(f, cli) = r
    BY <1>1, <1>4, <1>12, <1>13, <1>14 DEF resolve_config, Usable, r, p
  <1>16. QED BY <1>12, <1>15 DEF cli

(* persist_and_apply_config up to the load keeps the invariant, and leaves *)
(* the file alone.                                                         *)
LEMMA LoadKeepsInv ==
    ASSUME EditorInv, NEW d, DraftOf(d), NEW s \in Nat \ {0}, NEW changed \in BOOLEAN,
           changed = FALSE => d = draft,
           mode = "config", mode' = mode, input' = NoInput, saving = NoSave,
           persist_and_apply_config(d, s, changed)
    PROVE  EditorInv' /\ KeepsOthers /\ draft' = d
  <1>1. /\ Usable(d) /\ d \in Config /\ d.profile = app.profile /\ d.clients = app.clients
        /\ Distinct(d.clients) /\ app \in Config
    BY DEF EditorInv, DraftOf, Usable
  <1>2. DOMAIN d = DOMAIN app
    BY <1>1 DEF Config
  <1>3. selected' = Clamp(s, d) /\ selected' \in 1 .. Count(d)
    <2>1. Len(d.hosts) \in Nat
      BY <1>1, DraftFields
    <2>2. QED BY <2>1, RowsOfScreen DEF persist_and_apply_config, Clamp, Count
  <1>4. LineOK' /\ input'.row = "none"
    BY DEF LineOK, NoInput
  <1>5. /\ draft' = d /\ dirty' = (dirty \/ changed)
        /\ UNCHANGED <<app, streams, file, ours>>
    BY DEF persist_and_apply_config
  <1>6. saving' # NoSave =>
           /\ Valid(d) /\ ReadableFile(file)
           /\ saving' = [loaded |-> file, config |-> Saved(file, d)]
    BY DEF persist_and_apply_config, EditorInv, EditorTypeOK, ReadableFile
  <1>7. SaveUnderWay'
    <2>1. SUFFICES ASSUME saving' # NoSave
                   PROVE  Valid(draft') /\ ReadableFile(saving'.loaded) /\ saving'.config = Saved(saving'.loaded, draft')
      BY DEF SaveUnderWay, Valid, Usable, ReadableFile, IsConfigFile, Saved, StoredProfile
    <2>2. saving'.loaded = file /\ saving'.config = Saved(file, d)
      BY <1>6, <2>1
    <2>3. QED BY <1>5, <1>6, <2>1, <2>2
  <1>8. saving' # NoSave => IsConfigFile(saving'.config)
    <2>1. SUFFICES ASSUME saving' # NoSave PROVE IsConfigFile(saving'.config)
      OBVIOUS
    <2>2. saving'.config = Saved(file, d) /\ ReadableFile(file)
      BY <1>6, <2>1
    <2>3. QED BY <1>1, <2>2, SavedFile
  <1>9. EditorTypeOK'
    <2>1. (file \in {Broken, NoFile} \/ IsConfigFile(file))'
      BY <1>5 DEF EditorInv, EditorTypeOK, IsConfigFile
    <2>2. (selected \in 1 .. Count(draft))'
      BY <1>3, <1>5 DEF Count
    <2>3. mode' \in {"live", "config"} /\ app' \in Config /\ DOMAIN draft' = DOMAIN app'
      BY <1>1, <1>2, <1>5
    <2>4. dirty' \in BOOLEAN /\ ours' \in BOOLEAN
      BY <1>5 DEF EditorInv, EditorTypeOK
    <2>5. (saving # NoSave => mode = "config" /\ input = NoInput /\ IsConfigFile(saving.config))'
      BY <1>8 DEF IsConfigFile, NoInput
    <2>6. QED BY <1>4, <2>1, <2>2, <2>3, <2>4, <2>5 DEF EditorTypeOK
  <1>10. Usable(app)' /\ Usable(draft)' /\ StreamsMatch'
    BY <1>1, <1>5 DEF EditorInv, StreamsMatch, Usable, Polls
  <1>11. CleanMeansLive'
    <2>1. SUFFICES ASSUME ~dirty' PROVE draft' = app'
      BY DEF CleanMeansLive
    <2>2. ~dirty /\ changed = FALSE
      BY <1>5, <2>1
    <2>3. QED BY <1>5, <2>2 DEF EditorInv, CleanMeansLive
  <1>12. Restartable'
    <2>1. resolve_config(file, Plain(app.profile))' = resolve_config(file', Plain(app'.profile))
      OBVIOUS
    <2>2. QED BY <1>5, <2>1 DEF EditorInv, Restartable
  <1>13. KeepsOthers
    BY <1>5 DEF KeepsOthers
  <1>14. QED BY <1>1, <1>4, <1>5, <1>7, <1>9, <1>10, <1>11, <1>12, <1>13 DEF EditorInv

(* The end of a save keeps the invariant, whatever becomes of the write,   *)
(* and a write that succeeds keeps what the file held at the load.         *)
LEMMA WriteKeepsInv ==
    ASSUME EditorInv, write_config
    PROVE  /\ EditorInv' /\ KeepsOthers
           /\ draft' = draft
  <1>0. /\ saving # NoSave /\ saving' = NoSave /\ mode = "config" /\ input = NoInput
        /\ UNCHANGED <<mode, selected, input>>
    BY DEF write_config, EditorInv, EditorTypeOK
  <1>1. /\ Valid(draft) /\ Usable(draft) /\ draft \in Config /\ draft.profile = app.profile
        /\ draft.clients = app.clients /\ Distinct(draft.clients) /\ app \in Config
        /\ ReadableFile(saving.loaded) /\ saving.config = Saved(saving.loaded, draft)
    BY <1>0 DEF EditorInv, SaveUnderWay, Usable
  <1>2. LineOK' /\ input'.row = "none" /\ SaveUnderWay'
    BY <1>0 DEF LineOK, NoInput, SaveUnderWay
  <1>3. selected \in 1 .. Count(draft) /\ dirty \in BOOLEAN /\ ours \in BOOLEAN
    BY DEF EditorInv, EditorTypeOK
  <1>4. CASE /\ file' = saving.config
             /\ ours' = TRUE
             /\ app' = Applying(draft)
             /\ streams' = IF StreamsChanged(draft) THEN Polls(app') ELSE streams
             /\ draft' = app'
             /\ dirty' = FALSE
    <2>1. app' = draft /\ draft' = draft
      BY <1>1, <1>4, ApplyingUsable
    <2>2. Usable(app)' /\ Usable(draft)'
      BY <1>1, <2>1 DEF Usable
    <2>3. StreamsMatch'
      BY <1>4, <2>1 DEF EditorInv, StreamsMatch, StreamsChanged, Polls
    <2>4. /\ IsConfigFile(file') /\ draft.profile \in DOMAIN file'.profiles
          /\ file'.profiles[draft.profile] = StoredProfile(draft)
          /\ saving.loaded # NoFile => HasOthersOf(file', saving.loaded, draft.profile)
      BY <1>1, <1>4, SavedFile
    <2>5. resolve_config(file', Plain(app'.profile)) = app'
      BY <1>1, <2>1, <2>4, StartAfterSave
    <2>6. Restartable'
      <3>1. resolve_config(file, Plain(app.profile))' = resolve_config(file', Plain(app'.profile))
        OBVIOUS
      <3>2. QED BY <2>5, <3>1 DEF Restartable
    <2>7. KeepsOthers
      <3>1. SUFFICES ASSUME file = saving.loaded, file # NoFile
                     PROVE  file # Broken /\ HasOthersOf(file', file, app.profile)
        BY DEF KeepsOthers
      <3>2. IsConfigFile(file)
        BY <1>1, <3>1 DEF ReadableFile
      <3>3. file # Broken
        BY <3>2, ConfigAssumption
      <3>4. QED BY <1>1, <2>4, <3>1, <3>3
    <2>8. EditorTypeOK'
      <3>1. IsConfigFile(file)'
        BY <2>4 DEF IsConfigFile
      <3>2. (selected \in 1 .. Count(draft))'
        BY <1>0, <1>3, <2>1 DEF Count
      <3>3. mode' \in {"live", "config"} /\ app' \in Config /\ DOMAIN draft' = DOMAIN app'
        BY <1>0, <1>1, <2>1
      <3>4. QED BY <1>0, <1>2, <1>4, <3>1, <3>2, <3>3 DEF EditorTypeOK
    <2>9. CleanMeansLive'
      BY <2>1 DEF CleanMeansLive
    <2>10. QED BY <1>1, <1>2, <2>1, <2>2, <2>3, <2>6, <2>7, <2>8, <2>9 DEF EditorInv
  <1>5. CASE /\ file' \in {file, Broken} /\ ours' = (ours /\ file' = file)
             /\ UNCHANGED <<app, streams, draft, dirty>>
    <2>1. Usable(app)' /\ Usable(draft)' /\ StreamsMatch'
      BY <1>1, <1>5 DEF EditorInv, StreamsMatch, Usable, Polls
    <2>2. CleanMeansLive'
      BY <1>0, <1>5 DEF EditorInv, CleanMeansLive
    <2>3. Restartable'
      <3>1. SUFFICES ASSUME ours' PROVE (resolve_config(file, Plain(app.profile)) = app)'
        BY DEF Restartable
      <3>2. ours /\ file' = file
        BY <1>5, <3>1
      <3>3. resolve_config(file, Plain(app.profile)) = app
        BY <3>2 DEF EditorInv, Restartable
      <3>4. resolve_config(file, Plain(app.profile))' = resolve_config(file', Plain(app'.profile))
        OBVIOUS
      <3>5. QED BY <1>5, <3>2, <3>3, <3>4
    <2>4. KeepsOthers
      BY <1>5 DEF KeepsOthers
    <2>5. EditorTypeOK'
      <3>1. (file \in {Broken, NoFile} \/ IsConfigFile(file))'
        BY <1>5 DEF EditorInv, EditorTypeOK, IsConfigFile
      <3>2. (selected \in 1 .. Count(draft))'
        BY <1>0, <1>3, <1>5 DEF Count
      <3>3. mode' \in {"live", "config"} /\ app' \in Config /\ DOMAIN draft' = DOMAIN app'
        BY <1>0, <1>1, <1>5 DEF Config
      <3>4. dirty' \in BOOLEAN /\ ours' \in BOOLEAN
        BY <1>3, <1>5
      <3>5. QED BY <1>0, <1>2, <3>1, <3>2, <3>3, <3>4 DEF EditorTypeOK
    <2>6. QED BY <1>1, <1>2, <1>5, <2>1, <2>2, <2>3, <2>4, <2>5 DEF EditorInv
  <1>6. QED BY <1>4, <1>5 DEF write_config

(* The same for the keys that leave App, the streams and the file alone.   *)
LEMMA QuietKeepsInv ==
    ASSUME EditorInv, UNCHANGED <<app, streams, file, ours, saving>>, saving = NoSave,
           mode' \in {"live", "config"},
           selected' \in 1 .. Count(draft'), LineOK', dirty' \in BOOLEAN,
           \/ UNCHANGED <<draft, dirty>> /\ (mode' = "config" => mode = "config")
           \/ draft' = Applying(app)
    PROVE  EditorInv' /\ KeepsOthers
  <1>1. Usable(app) /\ Usable(draft)
    BY DEF EditorInv
  <1>2. Usable(draft') /\ draft' \in {draft, app}
    BY <1>1, ApplyingUsable
  <1>3. Usable(app)' /\ Usable(draft)' /\ StreamsMatch' /\ KeepsOthers /\ SaveUnderWay'
    BY <1>1, <1>2 DEF EditorInv, StreamsMatch, Polls, Usable, KeepsOthers, SaveUnderWay
  <1>4. Restartable'
    <2>1. resolve_config(file, Plain(app.profile))' = resolve_config(file', Plain(app'.profile))
      OBVIOUS
    <2>2. QED BY <2>1 DEF EditorInv, Restartable
  <1>5. /\ draft'.profile = app'.profile /\ draft'.clients = app'.clients /\ Distinct(app.clients)'
        /\ DOMAIN draft' = DOMAIN app'
    BY <1>2 DEF EditorInv, EditorTypeOK, Distinct
  <1>6. CleanMeansLive'
    <2>1. CASE UNCHANGED <<draft, dirty>> /\ (mode' = "config" => mode = "config")
      BY <2>1 DEF EditorInv, CleanMeansLive
    <2>2. CASE draft' = Applying(app)
      BY <1>1, <2>2, ApplyingUsable DEF CleanMeansLive
    <2>3. QED BY <2>1, <2>2
  <1>7. EditorTypeOK'
    <2>1. (file \in {Broken, NoFile} \/ IsConfigFile(file))'
      BY DEF EditorInv, EditorTypeOK, IsConfigFile
    <2>2. /\ input'.row \in ToSet(FixedRows) \cup {"none", "add", "host"}
          /\ input'.row = "host" => input'.index = HostIndex(selected')
      <3>1. InputRows \subseteq ToSet(FixedRows) \cup {"add", "host"}
        BY RowsOfScreen DEF InputRows
      <3>2. QED BY <3>1 DEF LineOK, NoInput
    <2>3. (selected \in 1 .. Count(draft))'
      BY DEF Count
    <2>4. app' \in Config /\ ours' \in BOOLEAN
      BY DEF EditorInv, EditorTypeOK
    <2>5. (input.row = "host" => input.index = HostIndex(selected))'
      BY <2>2 DEF HostIndex
    <2>6. QED BY <1>5, <2>1, <2>2, <2>3, <2>4, <2>5 DEF EditorTypeOK
  <1>8. QED BY <1>3, <1>4, <1>5, <1>6, <1>7 DEF EditorInv

(* And for a step of another part.                                         *)
LEMMA StutterKeepsInv ==
    ASSUME EditorInv, UNCHANGED editorVars
    PROVE  EditorInv' /\ KeepsOthers
  <1>1. UNCHANGED <<mode, app, streams, file, ours, saving, draft, selected, input, dirty>>
    BY DEF editorVars
  <1>2. EditorTypeOK'
    BY <1>1 DEF EditorInv, EditorTypeOK, IsConfigFile, Count, HostIndex, NoInput
  <1>3. LineOK' /\ Usable(app)' /\ Usable(draft)' /\ Distinct(app.clients)'
    BY <1>1 DEF EditorInv, LineOK, Usable, Distinct, HostIndex
  <1>4. StreamsMatch' /\ CleanMeansLive' /\ SaveUnderWay'
    BY <1>1 DEF EditorInv, StreamsMatch, Polls, CleanMeansLive, SaveUnderWay, Valid, Usable, ReadableFile, IsConfigFile
  <1>5. Restartable'
    <2>1. resolve_config(file, Plain(app.profile))' = resolve_config(file', Plain(app'.profile))
      OBVIOUS
    <2>2. QED BY <1>1, <2>1 DEF EditorInv, Restartable
  <1>6. draft'.profile = app'.profile /\ draft'.clients = app'.clients
    BY <1>1 DEF EditorInv
  <1>7. QED BY <1>1, <1>2, <1>3, <1>4, <1>5, <1>6 DEF EditorInv, KeepsOthers

-----------------------------------------------------------------------------
LEMMA InitEditor == EditorInit => EditorInv
  <1> SUFFICES ASSUME EditorInit PROVE EditorInv
    OBVIOUS
  <1>1. PICK cli \in CommandLines: resolve_config(file, cli) # Broken /\ app = resolve_config(file, cli)
    BY DEF EditorInit
  <1>2. file \in {Broken, NoFile} \/ IsConfigFile(file)
    BY ConfigAssumption DEF EditorInit
  <1>3. file # Broken
    BY <1>1 DEF resolve_config
  <1>4. Usable(app) /\ Distinct(app.clients)
    BY <1>1, <1>2, <1>3, ResolvedUsable
  <1>5. draft = app /\ app \in Config
    BY <1>4, ApplyingUsable DEF EditorInit, Usable
  <1>6. selected \in 1 .. Count(draft)
    <2>1. Len(draft.hosts) \in Nat
      BY <1>4, <1>5, DraftFields
    <2>2. QED BY <2>1, RowsOfScreen DEF Count, EditorInit
  <1>7. LineOK /\ input.row = "none"
    BY DEF EditorInit, LineOK, NoInput
  <1>8. EditorTypeOK
    BY <1>2, <1>5, <1>6, <1>7 DEF EditorInit, EditorTypeOK
  <1>9. SaveUnderWay /\ StreamsMatch /\ CleanMeansLive /\ Restartable
    BY <1>4, <1>5 DEF EditorInit, SaveUnderWay, StreamsMatch, CleanMeansLive, Restartable
  <1>10. QED BY <1>4, <1>5, <1>7, <1>8, <1>9 DEF EditorInv

(* What AdminFollowsHosts says of a step.                                  *)
AdminStep ==
    (mode = "config" /\ mode' = "config" /\ input.row # "admin_host" /\ AdminListed(draft))
        => AdminListed(draft')

(* One step from a state of the invariant.                                 *)
StepOK == EditorInv' /\ KeepsOthers /\ AdminStep

LEMMA SaveStep ==
    ASSUME EditorInv, NEW d, DraftOf(d), NEW s \in Nat \ {0}, NEW changed \in BOOLEAN,
           changed = FALSE => d = draft,
           input.row # "admin_host" /\ AdminListed(draft) => AdminListed(d),
           mode = "config", mode' = mode, input' = NoInput, saving = NoSave,
           persist_and_apply_config(d, s, changed)
    PROVE  StepOK
  <1>1. EditorInv' /\ KeepsOthers /\ draft' = d
    BY LoadKeepsInv
  <1>2. QED BY <1>1 DEF StepOK, AdminStep, AdminListed

(* The rows of an open line.                                               *)
LEMMA SelectedRow ==
    ASSUME EditorInv
    PROVE  /\ selected \in Nat \ {0} /\ Len(draft.hosts) \in Nat
           /\ selected \in 1 .. (9 + Len(draft.hosts)) /\ Count(draft) = 9 + Len(draft.hosts)
           /\ Selection(selected) \in InputRows \cup Switches
           /\ Selection(selected) = "host" => selected > Len(FixedRows)
  <1>1. Len(draft.hosts) \in Nat
    BY DraftFields DEF EditorInv
  <1>2. selected \in 1 .. (9 + Len(draft.hosts)) /\ Count(draft) = 9 + Len(draft.hosts)
    BY RowsOfScreen DEF EditorInv, EditorTypeOK, Count
  <1>3. CASE selected <= 9
    <2>1. selected \in 1 .. 9
      BY <1>1, <1>2, <1>3
    <2>2. Selection(selected) \in {"admin_host", "osdtrace_url", "osdtrace_sha256"} \cup Counts \cup Switches
      BY <1>3, <2>1, RowsOfScreen DEF Selection
    <2>3. QED BY <1>1, <1>2, <2>2 DEF InputRows, Counts, Switches
  <1>4. CASE selected > 9
    <2>1. Selection(selected) = "host"
      BY <1>1, <1>2, <1>4, RowsOfScreen DEF Selection
    <2>2. QED BY <1>1, <1>2, <1>4, <2>1, RowsOfScreen DEF InputRows
  <1>5. QED BY <1>1, <1>2, <1>3, <1>4

LEMMA QuietStep ==
    ASSUME EditorInv, UNCHANGED <<app, streams, file, ours, saving>>, saving = NoSave,
           mode' \in {"live", "config"},
           selected' \in 1 .. Count(draft'), LineOK', dirty' \in BOOLEAN,
           \/ UNCHANGED <<draft, dirty>> /\ (mode' = "config" => mode = "config")
           \/ draft' = Applying(app) /\ mode = "live"
    PROVE  StepOK
  <1>1. EditorInv' /\ KeepsOthers
    BY QuietKeepsInv
  <1>2. QED BY <1>1 DEF StepOK, AdminStep, AdminListed

LEMMA NextEditor == EditorInv /\ [EditorNext]_editorVars => StepOK
  <1> SUFFICES ASSUME EditorInv, [EditorNext]_editorVars
               PROVE  StepOK
    OBVIOUS
  <1>0. /\ mode \in {"live", "config"} /\ dirty \in BOOLEAN /\ selected \in 1 .. Count(draft) /\ LineOK
        /\ mode = "live" \/ input # NoInput => saving = NoSave
    BY DEF EditorInv, EditorTypeOK
  <1>1. CASE open_config_editor
    <2>1. draft' = app /\ Usable(app)
      BY <1>1, ApplyingUsable DEF open_config_editor, EditorInv
    <2>2. Len(draft'.hosts) \in Nat
      BY <2>1, DraftFields
    <2>3. selected' \in 1 .. Count(draft')
      BY <1>1, <2>2, RowsOfScreen DEF open_config_editor, Count
    <2>4. LineOK'
      BY <1>1 DEF open_config_editor, LineOK
    <2>5. QED BY <1>0, <1>1, <2>3, <2>4, QuietStep DEF open_config_editor
  <1>2. CASE leave
    <2>1. selected' \in 1 .. Count(draft') /\ LineOK'
      BY <1>0, <1>2 DEF leave, LineOK, HostIndex, InScreen
    <2>2. QED BY <1>0, <1>2, <2>1, QuietStep DEF leave, InScreen
  <1>3. CASE select_prev \/ select_next
    <2>1. PICK s: select(s) /\ s \in 1 .. Count(draft)
      <3>1. CASE select_prev
        BY <3>1, SelectedRow DEF select_prev
      <3>2. CASE select_next
        BY <3>2, SelectedRow DEF select_next, Clamp
      <3>3. QED BY <1>3, <3>1, <3>2
    <2>2. selected' \in 1 .. Count(draft') /\ LineOK'
      BY <2>1 DEF select, LineOK, InScreen
    <2>3. QED BY <1>0, <2>1, <2>2, QuietStep DEF select, InScreen
  <1>4. CASE add_host
    <2>1. selected' \in 1 .. Count(draft') /\ LineOK'
      BY <1>0, <1>4 DEF add_host, start_input, LineOK, InputRows
    <2>2. QED BY <1>0, <1>4, <2>1, QuietStep DEF add_host, start_input, InScreen
  <1>5. CASE start_edit_selected_config
    <2> DEFINE row == Selection(selected)
               in == [row |-> row, index |-> IF row = "host" THEN HostIndex(selected) ELSE 0]
               d == [draft EXCEPT !.switch[row] = ~@]
    <2>1. CASE row \notin Switches /\ start_input(in)
      <3>1. input' = in /\ selected' = selected /\ draft' = draft
        BY <2>1 DEF start_input
      <3>2. row \in InputRows /\ (row = "host" => selected > Len(FixedRows))
        BY <2>1, SelectedRow
      <3>3. in.row = row /\ (row = "host" => in.index = HostIndex(selected))
        OBVIOUS
      <3> HIDE DEF row, in
      <3>4. selected' \in 1 .. Count(draft') /\ LineOK'
        BY <1>0, <3>1, <3>2, <3>3 DEF LineOK, HostIndex
      <3>5. QED BY <1>0, <2>1, <3>4, QuietStep DEF start_input, InScreen
    <2>2. CASE /\ InScreen /\ row \in Switches
               /\ persist_and_apply_config(d, selected, TRUE)
               /\ UNCHANGED <<mode, input>>
      <3>1. DraftOf(d) /\ (AdminListed(draft) => AdminListed(d))
        BY <2>2, SwitchedDraft
      <3>2. mode = "config" /\ mode' = mode /\ input' = NoInput /\ saving = NoSave
        BY <2>2 DEF InScreen
      <3>3. selected \in Nat \ {0}
        BY SelectedRow
      <3> HIDE DEF d
      <3>4. QED BY <2>2, <3>1, <3>2, <3>3, SaveStep
    <2>3. QED BY <1>5, <2>1, <2>2 DEF start_edit_selected_config
  <1>6. CASE delete_selected_config_host
    <2> DEFINE d == Deleted(HostIndex(selected))
    <2>1. DraftOf(d) /\ (AdminListed(draft) => AdminListed(d))
      BY <1>6, DeletedDraft DEF delete_selected_config_host
    <2>2. mode = "config" /\ mode' = mode /\ input' = NoInput /\ saving = NoSave
      BY <1>6 DEF delete_selected_config_host, InScreen
    <2>3. persist_and_apply_config(d, selected, TRUE) /\ selected \in Nat \ {0}
      BY <1>6, SelectedRow DEF delete_selected_config_host
    <2> HIDE DEF d
    <2>4. QED BY <2>1, <2>2, <2>3, SaveStep
  <1>7. CASE save
    <2>1. mode = "config" /\ mode' = mode /\ input' = NoInput /\ saving = NoSave
          /\ persist_and_apply_config(draft, selected, FALSE)
      BY <1>7 DEF save, InScreen
    <2>2. DraftOf(draft) /\ selected \in Nat \ {0}
      BY SameDraft, SelectedRow
    <2>3. QED BY <2>1, <2>2, SaveStep
  <1>8. CASE cancel_input
    <2>1. selected' \in 1 .. Count(draft') /\ LineOK'
      BY <1>0, <1>8 DEF cancel_input, LineOK
    <2>2. QED BY <1>0, <1>8, <2>1, QuietStep DEF cancel_input
  <1>9. CASE finish_config_input
    <2>1. PICK value \in Typed[input.row]:
             Accepts(input, value) /\ persist_and_apply_config(Applied(input, value), SelectedAfter(input), TRUE)
      BY <1>9 DEF finish_config_input
    <2> DEFINE d == Applied(input, value)
    <2>2. mode = "config" /\ mode' = mode /\ input' = NoInput /\ input # NoInput /\ saving = NoSave
      BY <1>0, <1>9 DEF finish_config_input
    <2>3. DraftOf(d) /\ (input.row # "admin_host" /\ AdminListed(draft) => AdminListed(d))
      BY <2>1, <2>2, AppliedDraft
    <2>4. SelectedAfter(input) \in Nat \ {0}
      BY SelectedRow, RowsOfScreen DEF SelectedAfter
    <2> HIDE DEF d
    <2>5. persist_and_apply_config(d, SelectedAfter(input), TRUE)
      BY <2>1 DEF d
    <2>6. QED BY <2>2, <2>3, <2>4, <2>5, SaveStep
  <1>10. CASE others_write
    <2>1. file' \in {Broken, NoFile} \/ IsConfigFile(file')
      BY <1>10, ConfigAssumption DEF others_write
    <2>2. UNCHANGED <<mode, app, streams, saving, draft, selected, input, dirty>> /\ ours' = FALSE
      BY <1>10 DEF others_write
    <2>3. (file \in {Broken, NoFile} \/ IsConfigFile(file))'
      BY <2>1 DEF IsConfigFile
    <2>4. EditorTypeOK'
      <3>1. (selected \in 1 .. Count(draft))'
        BY <1>0, <2>2 DEF Count
      <3>2. (input.row = "host" => input.index = HostIndex(selected))'
        BY <2>2 DEF EditorInv, EditorTypeOK, HostIndex
      <3>3. (saving # NoSave => mode = "config" /\ input = NoInput /\ IsConfigFile(saving.config))'
        BY <2>2 DEF EditorInv, EditorTypeOK, IsConfigFile
      <3>4. QED BY <2>2, <2>3, <3>1, <3>2, <3>3 DEF EditorInv, EditorTypeOK
    <2>5. LineOK'
      BY <1>0, <2>2 DEF LineOK, HostIndex
    <2>6. Usable(app)' /\ Usable(draft)' /\ Distinct(app.clients)' /\ SaveUnderWay'
      BY <2>2 DEF EditorInv, Usable, Distinct, SaveUnderWay, Valid, ReadableFile, IsConfigFile
    <2>7. StreamsMatch' /\ CleanMeansLive' /\ Restartable'
      BY <2>2 DEF EditorInv, StreamsMatch, Polls, CleanMeansLive, Restartable
    <2>8. KeepsOthers /\ AdminStep
      BY <2>2 DEF KeepsOthers, AdminStep
    <2>9. draft'.profile = app'.profile /\ draft'.clients = app'.clients
      BY <2>2 DEF EditorInv
    <2>10. QED BY <2>4, <2>5, <2>6, <2>7, <2>8, <2>9 DEF EditorInv, StepOK
  <1>11. CASE UNCHANGED editorVars
    BY <1>11, StutterKeepsInv DEF StepOK, AdminStep, AdminListed, editorVars
  <1>12. CASE write_config
    BY <1>12, WriteKeepsInv DEF StepOK, AdminStep, AdminListed
  <1>13. QED BY <1>1, <1>2, <1>3, <1>4, <1>5, <1>6, <1>7, <1>8, <1>9, <1>10, <1>11, <1>12
         DEF EditorNext, EditorKeys

(* The invariant of every reachable state of the config screen.            *)
THEOREM EditorInvariant == EditorSpec => []EditorInv
  <1>1. EditorInv /\ [EditorNext]_editorVars => EditorInv'
    BY NextEditor DEF StepOK
  <1>2. QED BY InitEditor, <1>1, PTL DEF EditorSpec

(* The types of the screen, and its bounds: the selection stays on a row   *)
(* of the draft when rows come and go, and an open host line is that row.  *)
THEOREM EditorTypes == EditorSpec => []EditorTypeOK
  BY EditorInvariant, PTL DEF EditorInv

(* A draft of a profile with a name can always be saved: neither           *)
(* apply_editor_input nor the start lets anything else in that             *)
(* validate_config_draft refuses.                                          *)
THEOREM DraftsSave == EditorSpec => []DraftSaves
  <1>1. EditorInv => DraftSaves
    BY DEF EditorInv, DraftSaves, Valid
  <1>2. QED BY EditorInvariant, <1>1, PTL

(* The next start with the profile finds in the saved file what App runs   *)
(* with (save_profile_config against resolve_config), until others write.  *)
THEOREM Restarts == EditorSpec => []Restartable
  BY EditorInvariant, PTL DEF EditorInv

(* The ssh streams run with the hosts, admin host and interval that App    *)
(* shows (persist_and_apply_config), after any keys, failed saves and      *)
(* writes of others.                                                       *)
THEOREM Streams == EditorSpec => []StreamsMatch
  BY EditorInvariant, PTL DEF EditorInv

(* A draft that the screen does not mark as changed is what App runs with. *)
THEOREM Clean == EditorSpec => []CleanMeansLive
  BY EditorInvariant, PTL DEF EditorInv

(* The load and the write of a save are two steps, and others write at any *)
(* time; a save loses another profile, the default or session_keep, or     *)
(* replaces a file that does not parse, only if that came between its own  *)
(* load and write.                                                         *)
THEOREM Others == EditorSpec => OthersKept
  <1>1. EditorInv /\ [EditorNext]_editorVars => [KeepsOthers]_editorVars
    BY NextEditor DEF StepOK
  <1>2. QED BY EditorInvariant, <1>1, PTL DEF EditorSpec, OthersKept

(* An added, renamed or deleted host row leaves the admin host in the list *)
(* (apply_editor_input, delete_selected_config_host): only the admin row   *)
(* takes it out.                                                           *)
THEOREM AdminFollows == EditorSpec => AdminFollowsHosts
  <1>1. EditorInv /\ [EditorNext]_editorVars =>
           [(/\ mode = "config" /\ mode' = "config" /\ input.row # "admin_host"
             /\ draft.admin \in ToSet(draft.hosts))
            => draft'.admin \in ToSet(draft'.hosts)]_editorVars
    BY NextEditor DEF StepOK, AdminStep, AdminListed
  <1>2. QED BY EditorInvariant, <1>1, PTL DEF EditorSpec, AdminFollowsHosts

-----------------------------------------------------------------------------
(* The panels.                                                             *)

(* The part of the type invariant that the properties rest on, with the    *)
(* types of what the environment sets.                                     *)
PanelsInv ==
    /\ PanelsTypeOK
    /\ event_log_height \in Int
    /\ total \in [Lists -> 0 .. UsizeMax]
    /\ terminal_height \in Nat

USE PanelsAssumption

-----------------------------------------------------------------------------
(* Arithmetic of the clamps.                                               *)

LEMMA WithinBounds ==
    ASSUME NEW x \in Int, NEW low \in Int, NEW high \in Int, low <= high
    PROVE  /\ Within(x, low, high) \in low .. high
           /\ x \in low .. high => Within(x, low, high) = x
  BY DEF Within, Least, Most

(* The list that the keys scroll is one that is drawn.                     *)
LEMMA FocusedList == PanelsInv => focused_scroll_mut \in Lists
  BY DEF PanelsInv, PanelsTypeOK, focused_scroll_mut, Lists

(* A counter within the view moves the first line drawn by one, whether it *)
(* counts from the first line or from the last.                            *)
LEMMA OneLine ==
    ASSUME NEW last \in Nat, last <= UsizeMax, NEW c \in 0 .. last, NEW delta \in {1, -1}
    PROVE  /\ Least(scroll_with_delta(c, delta), last) = Within(Least(c, last) + delta, 0, last)
           /\ last - Least(scroll_with_delta(c, -delta), last)
                = Within((last - Least(c, last)) + delta, 0, last)
  <1>1. Least(c, last) = c
    BY DEF Least
  <1>2. CASE delta = 1
    BY <1>1, <1>2 DEF scroll_with_delta, Within, Least, Most
  <1>3. CASE delta = -1
    BY <1>1, <1>3 DEF scroll_with_delta, Within, Least, Most
  <1>4. QED BY <1>2, <1>3

-----------------------------------------------------------------------------
LEMMA InitPanels == PanelsInit => PanelsInv
  <1> SUFFICES ASSUME PanelsInit PROVE PanelsInv
    OBVIOUS
  <1>1. focused_panel \in Focuses /\ terminal_height \in Nat
    BY DEF PanelsInit, Focuses
  <1>2. stacks \in BOOLEAN
    BY DEF PanelsInit
  <1>3. flow_shown \in BOOLEAN
    BY DEF PanelsInit
  <1>4. scroll \in [Lists -> 0 .. UsizeMax] /\ total \in [Lists -> 0 .. UsizeMax]
    BY DEF PanelsInit
  <1>5. /\ overview_offset \in -6 .. 12 /\ insights_offset \in -5 .. 12
        /\ event_log_height >= EVENT_LOG_MIN_HEIGHT /\ event_log_height \in Int
    BY DEF PanelsInit, EVENT_LOG_DEFAULT_HEIGHT, EVENT_LOG_MIN_HEIGHT
  <1>6. QED BY <1>1, <1>2, <1>3, <1>4, <1>5 DEF PanelsInv, PanelsTypeOK

(* A key that sets the counter of the focused panel keeps the types.       *)
LEMMA SetScroll ==
    ASSUME PanelsInv, NEW value \in 0 .. UsizeMax, set_focused_panel_scroll(value)
    PROVE  PanelsInv'
  BY FocusedList DEF set_focused_panel_scroll, heightVars, PanelsInv, PanelsTypeOK

LEMMA Deltas ==
    ASSUME NEW c \in 0 .. UsizeMax, NEW delta \in Int
    PROVE  scroll_with_delta(c, delta) \in 0 .. UsizeMax
  BY DEF scroll_with_delta, Within, Least, Most

LEMMA ScrollTypes ==
    ASSUME PanelsInv, NEW delta \in {1, -1, Page, -Page}, scroll_focused_panel(delta)
    PROVE  PanelsInv'
  <1>1. scroll[focused_scroll_mut] \in 0 .. UsizeMax
    BY FocusedList DEF PanelsInv, PanelsTypeOK
  <1>2. delta \in Int /\ -delta \in Int
    OBVIOUS
  <1>3. QED BY <1>1, <1>2, Deltas, SetScroll DEF scroll_focused_panel

LEMMA FocusTypes ==
    ASSUME PanelsInv, NEW delta \in {1, -1}, focus_next_panel(delta)
    PROVE  PanelsInv'
  <1>1. next_panel(focused_panel, delta, stacks) \in Focuses
    <2> DEFINE panels == focusable_panels(stacks)
               k == CHOOSE n \in DOMAIN panels: panels[n] = focused_panel
               i == k + delta
               next == IF i > 5 THEN 1 ELSE IF i < 1 THEN 5 ELSE i
    <2>1. Len(panels) = 5 /\ DOMAIN panels = 1 .. 5 /\ \A n \in 1 .. 5: panels[n] \in Focuses
      BY DEF focusable_panels, Focuses
    <2>2. \E n \in 1 .. 5: panels[n] = focused_panel
      <3>1. focused_panel \in Focuses
        BY DEF PanelsInv, PanelsTypeOK
      <3>2. CASE stacks
        <4>1. panels = <<"osds", "nodes", "insights", "trace", "logs">>
          BY <3>2 DEF focusable_panels
        <4>2. /\ panels[1] = "osds" /\ panels[2] = "nodes" /\ panels[3] = "insights"
              /\ panels[4] = "trace" /\ panels[5] = "logs"
          BY <4>1
        <4>3. QED BY <3>1, <4>2 DEF Focuses
      <3>3. CASE ~stacks
        <4>1. panels = <<"osds", "insights", "trace", "logs", "nodes">>
          BY <3>3 DEF focusable_panels
        <4>2. /\ panels[1] = "osds" /\ panels[2] = "insights" /\ panels[3] = "trace"
              /\ panels[4] = "logs" /\ panels[5] = "nodes"
          BY <4>1
        <4>3. QED BY <3>1, <4>2 DEF Focuses
      <3>4. QED BY <3>2, <3>3
    <2>3. k \in 1 .. 5
      <3> HIDE DEF panels
      <3> QED BY <2>1, <2>2
    <2>4. next \in 1 .. 5
      <3> HIDE DEF k
      <3> QED BY <2>3
    <2>5. next_panel(focused_panel, delta, stacks) = panels[next]
      BY <2>1 DEF next_panel
    <2>6. QED
      <3> HIDE DEF panels, next
      <3> QED BY <2>1, <2>4, <2>5
  <1>2. QED BY <1>1 DEF focus_next_panel, heightVars, PanelsInv, PanelsTypeOK

LEMMA OffsetTypes ==
    ASSUME NEW delta \in {1, -1}
    PROVE  /\ \A offset \in -6 .. 12: Offset(offset, delta, -6) \in -6 .. 12
           /\ \A offset \in -5 .. 12: Offset(offset, delta, -5) \in -5 .. 12
  BY DEF Offset, Within, Least, Most

LEMMA LogTypes ==
    ASSUME PanelsInv, NEW delta \in {1, -1}
    PROVE  /\ adjust_event_log_height(delta) \in Int
           /\ adjust_event_log_height(delta) >= EVENT_LOG_MIN_HEIGHT
           /\ adjust_event_log_height(delta)
                 <= Most(terminal_height - EVENT_LOG_RESERVED_ROWS, EVENT_LOG_MIN_HEIGHT)
  BY DEF PanelsInv, PanelsTypeOK, adjust_event_log_height, Within, Least, Most,
         EVENT_LOG_MIN_HEIGHT, EVENT_LOG_RESERVED_ROWS

LEMMA ResizeTypes ==
    ASSUME PanelsInv, NEW delta \in {1, -1}, resize_focused_panel(delta)
    PROVE  PanelsInv'
  <1>0. overview_offset \in -6 .. 12 /\ insights_offset \in -5 .. 12
    BY DEF PanelsInv, PanelsTypeOK
  <1>1. overview_offset' \in -6 .. 12
    <2> DEFINE d == IF focused_panel = "trace" THEN -delta ELSE delta
    <2>0. d \in {1, -1}
      OBVIOUS
    <2>1. Offset(overview_offset, d, -6) \in -6 .. 12
      <3> HIDE DEF d
      <3> QED BY <1>0, <2>0, OffsetTypes
    <2>2. QED BY <1>0, <2>1 DEF resize_focused_panel
  <1>2. insights_offset' \in -5 .. 12
    <2>1. Offset(insights_offset, delta, -5) \in -5 .. 12
      BY <1>0, OffsetTypes
    <2>2. QED BY <1>0, <2>1 DEF resize_focused_panel
  <1>3. event_log_height' \in Int /\ event_log_height' >= EVENT_LOG_MIN_HEIGHT
    BY LogTypes DEF resize_focused_panel, PanelsInv, PanelsTypeOK
  <1>4. UNCHANGED <<focused_panel, stacks, flow_shown, scroll, total, terminal_height>>
    BY DEF resize_focused_panel
  <1>5. QED BY <1>1, <1>2, <1>3, <1>4 DEF PanelsInv, PanelsTypeOK

LEMMA NextPanels == PanelsInv /\ [PanelsNext]_panelsVars => PanelsInv'
  <1> SUFFICES ASSUME PanelsInv, [PanelsNext]_panelsVars PROVE PanelsInv'
    OBVIOUS
  <1>1. ASSUME NEW delta \in {1, -1}, focus_next_panel(delta) \/ resize_focused_panel(delta)
        PROVE  PanelsInv'
    BY <1>1, FocusTypes, ResizeTypes
  <1>2. ASSUME NEW delta \in {1, -1, Page, -Page}, scroll_focused_panel(delta)
        PROVE  PanelsInv'
    BY <1>2, ScrollTypes
  <1>3. CASE Home \/ End
    BY <1>3, SetScroll DEF Home, End
  <1>4. CASE flow_key
    BY <1>4 DEF flow_key, heightVars, PanelsInv, PanelsTypeOK, Lists
  <1>5. CASE list_changes
    BY <1>5 DEF list_changes, heightVars, PanelsInv, PanelsTypeOK
  <1>6. CASE terminal_changes
    BY <1>6 DEF terminal_changes, heightVars, PanelsInv, PanelsTypeOK
  <1>7. CASE UNCHANGED panelsVars
    BY <1>7 DEF panelsVars, heightVars, PanelsInv, PanelsTypeOK
  <1>8. QED BY <1>1, <1>2, <1>3, <1>4, <1>5, <1>6, <1>7 DEF PanelsNext

(* A resize of the event log is drawn as it was set.                       *)
LEMMA HeightDrawn == PanelsInv /\ [PanelsNext]_panelsVars => LogHeightIsDrawn
  <1> SUFFICES ASSUME PanelsInv, [PanelsNext]_panelsVars, event_log_height' # event_log_height
               PROVE  event_log_height_for(terminal_height', event_log_height') = event_log_height'
    BY DEF LogHeightIsDrawn
  <1>1. PICK delta \in {1, -1}: resize_focused_panel(delta)
    BY DEF PanelsNext, panelsVars, heightVars, focus_next_panel, scroll_focused_panel,
           set_focused_panel_scroll, Home, End, flow_key, list_changes, terminal_changes
  <1>2. event_log_height' = adjust_event_log_height(delta) /\ terminal_height' = terminal_height
    BY <1>1 DEF resize_focused_panel
  <1>3. QED BY <1>2, LogTypes
    DEF event_log_height_for, Least, Most, EVENT_LOG_MIN_HEIGHT, EVENT_LOG_RESERVED_ROWS,
        PanelsInv, PanelsTypeOK

(* An arrow moves the view of the focused list by a line.                  *)
LEMMA ArrowMoves == PanelsInv => ArrowsScroll
  <1> SUFFICES ASSUME PanelsInv, NEW delta \in {1, -1}, scroll_focused_panel(delta)
               PROVE  LET list == focused_scroll_mut
                          last == Most(total[list] - Rows, 0)
                      IN scroll[list] <= last =>
                            FirstLine(list)' = Within(FirstLine(list) + delta, 0, last)
    BY DEF ArrowsScroll
  <1> DEFINE list == focused_scroll_mut
             last == Most(total[list] - Rows, 0)
             c == scroll[list]
  <1>1. list \in Lists /\ c \in 0 .. UsizeMax /\ total[list] \in 0 .. UsizeMax
    BY FocusedList DEF PanelsInv, PanelsTypeOK
  <1>2. last \in Nat /\ last <= UsizeMax
    BY <1>1 DEF Most
  <1>3. SUFFICES ASSUME c <= last
                 PROVE  FirstLine(list)' = Within(FirstLine(list) + delta, 0, last)
    OBVIOUS
  <1>4. UNCHANGED <<focused_panel, flow_shown, total>>
    BY DEF scroll_focused_panel, set_focused_panel_scroll
  <1>5. list' = list /\ last' = last
    BY <1>4 DEF focused_scroll_mut
  <1>6. scroll'[list] = scroll_with_delta(c, IF focused_panel = "logs" THEN -delta ELSE delta)
    BY <1>1 DEF scroll_focused_panel, set_focused_panel_scroll, PanelsInv, PanelsTypeOK
  <1>7. list = "logs" <=> focused_panel = "logs"
    BY DEF focused_scroll_mut
  <1>8. c \in 0 .. last
    BY <1>1, <1>2, <1>3
  <1>9. /\ Least(scroll_with_delta(c, delta), last) = Within(Least(c, last) + delta, 0, last)
        /\ last - Least(scroll_with_delta(c, -delta), last)
              = Within((last - Least(c, last)) + delta, 0, last)
    BY <1>2, <1>8, OneLine
  <1>10. /\ FirstLine(list) = IF list = "logs" THEN last - Least(c, last) ELSE Least(c, last)
         /\ FirstLine(list)' = IF list = "logs" THEN last - Least(scroll'[list], last)
                               ELSE Least(scroll'[list], last)
    BY <1>5 DEF FirstLine, View
  <1> HIDE DEF list, last, c
  <1>11. QED BY <1>6, <1>7, <1>9, <1>10

-----------------------------------------------------------------------------
(* The types of the panels' state, for every bound.                        *)
THEOREM PanelsTypes == PanelsSpec => []PanelsTypeOK
  <1>1. PanelsInv => PanelsTypeOK
    BY DEF PanelsInv
  <1>2. QED BY <1>1, InitPanels, NextPanels, PTL DEF PanelsSpec

(* What an arrow or a resize key does shows: the event log, which counts   *)
(* from its end, included.                                                 *)
THEOREM KeysAreSeen == PanelsSpec => KeysShow
  <1>1. PanelsInv /\ [PanelsNext]_panelsVars => [LogHeightIsDrawn /\ ArrowsScroll]_panelsVars
    BY HeightDrawn, ArrowMoves
  <1>2. QED BY <1>1, InitPanels, NextPanels, PTL DEF PanelsSpec, KeysShow

-----------------------------------------------------------------------------
(* The cockpit: what holds of a part alone holds of it in the whole.       *)

LEMMA PartsStep ==
    ASSUME [CockpitNext]_cockpitVars
    PROVE  /\ [EditorNext]_editorVars /\ [KeyboardNext]_keyboardVars /\ [PanelsNext]_panelsVars
           /\ [FlowNext]_flowVars /\ [SeriesNext]_seriesVars /\ [InsightsNext]_insightsVars
           /\ UNCHANGED part /\ (part # "insights" => UNCHANGED insightsVars)
  <1>1. CASE UNCHANGED cockpitVars
    BY <1>1 DEF cockpitVars
  <1>2. CASE CockpitNext
    BY <1>2 DEF CockpitNext
  <1>3. QED BY <1>1, <1>2

(* No part reads or changes a variable of another: in every behavior of    *)
(* the main loop's parts together, each behaves as its own specification   *)
(* says, so that the theorems about it hold there; only the rules that are *)
(* read on any evidence, in "verdicts", start elsewhere than the insights. *)
THEOREM CockpitIsItsParts ==
    CockpitSpec => /\ EditorSpec /\ KeyboardSpec /\ PanelsSpec /\ FlowSpec /\ SeriesSpec
                   /\ part # "verdicts" => InsightsSpec
  <1>1. CockpitInit => EditorInit /\ KeyboardInit /\ PanelsInit /\ FlowInit /\ SeriesInit
    BY DEF CockpitInit, EditorStarts, KeyboardStarts, PanelsStarts, SeriesStarts
  <1>2. CockpitInit /\ part # "verdicts" => InsightsInit
    BY DEF CockpitInit, InsightsStarts
  <1>3. CockpitSpec => EditorSpec
    <2>1. [CockpitNext]_cockpitVars => [EditorNext]_editorVars
      BY PartsStep
    <2>2. QED BY <1>1, <2>1, PTL DEF CockpitSpec, EditorSpec
  <1>4. CockpitSpec => KeyboardSpec
    <2>1. [CockpitNext]_cockpitVars => [KeyboardNext]_keyboardVars
      BY PartsStep
    <2>2. QED BY <1>1, <2>1, PTL DEF CockpitSpec, KeyboardSpec
  <1>5. CockpitSpec => PanelsSpec
    <2>1. [CockpitNext]_cockpitVars => [PanelsNext]_panelsVars
      BY PartsStep
    <2>2. QED BY <1>1, <2>1, PTL DEF CockpitSpec, PanelsSpec
  <1>6. CockpitSpec => FlowSpec
    <2>1. [CockpitNext]_cockpitVars => [FlowNext]_flowVars
      BY PartsStep
    <2>2. QED BY <1>1, <2>1, PTL DEF CockpitSpec, FlowSpec
  <1>7. CockpitSpec => SeriesSpec
    <2>1. [CockpitNext]_cockpitVars => [SeriesNext]_seriesVars
      BY PartsStep
    <2>2. QED BY <1>1, <2>1, PTL DEF CockpitSpec, SeriesSpec
  <1>8. CockpitSpec => (part # "verdicts" => InsightsSpec)
    <2>1. [CockpitNext]_cockpitVars => [InsightsNext]_insightsVars
      BY PartsStep
    <2>2. QED BY <1>2, <2>1, PTL DEF CockpitSpec, InsightsSpec
  <1>9. QED BY <1>3, <1>4, <1>5, <1>6, <1>7, <1>8

(* The rules are read without a history.                                   *)
LEMMA VerdictsRest == CockpitSpec /\ part = "verdicts" => []InsightsTypeOK
  <1> DEFINE Rest == part = "verdicts" /\ insight_history = <<>>
  <1>1. CockpitInit /\ part = "verdicts" => Rest
    BY DEF CockpitInit, InsightsStarts, VerdictsInit
  <1>2. Rest /\ [CockpitNext]_cockpitVars => Rest'
    BY PartsStep DEF insightsVars
  <1>3. Rest => InsightsTypeOK
    BY InsightsAssumption DEF InsightsTypeOK
  <1>4. QED BY <1>1, <1>2, <1>3, PTL DEF CockpitSpec

(* The types of all parts, in every behavior of the whole.                 *)
THEOREM CockpitTypes == CockpitSpec => []TypesOK
  <1>1. CockpitSpec => []InsightsTypeOK
    <2>1. part # "verdicts" \/ part = "verdicts"
      OBVIOUS
    <2>2. QED BY <2>1, CockpitIsItsParts, VerdictsRest, HistoryTypes, PTL
  <1>2. CockpitSpec => []EditorTypeOK /\ []KeyboardTypeOK /\ []PanelsTypeOK /\ []SeriesTypeOK
    BY CockpitIsItsParts, EditorTypes, KeyboardTypes, PanelsTypes, SeriesTypes, PTL
  <1>3. EditorTypeOK /\ KeyboardTypeOK /\ PanelsTypeOK /\ SeriesTypeOK /\ InsightsTypeOK => TypesOK
    BY DEF TypesOK
  <1>4. QED BY <1>1, <1>2, <1>3, PTL
=============================================================================
