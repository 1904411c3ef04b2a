------------------------------- MODULE Panels -------------------------------
(***************************************************************************)
(* The panels of the dashboard: which one has the focus, where each is     *)
(* scrolled to, and the heights that the resize keys set (main.rs), with   *)
(* what draw makes of the counters (ui.rs, util.rs).  The list that a      *)
(* panel shows and the size of the terminal change at any time.            *)
(***************************************************************************)
EXTENDS Integers, Sequences

CONSTANTS
    UsizeMax,     \* usize::MAX
    Page,         \* the lines of Page Up and Page Down
    Rows,         \* the rows of a panel
    Lengths,      \* the lengths that the lists may have
    Heights,      \* the heights that the terminal may have
    MaxPresses    \* bound: the keys, and changes of a list, that are followed

ASSUME PanelsAssumption ==
    /\ Page \in Nat \ {0} /\ Rows \in Nat \ {0} /\ MaxPresses \in Nat
    /\ UsizeMax \in Nat /\ Lengths \subseteq 0 .. UsizeMax
    /\ Heights \subseteq Nat /\ Heights # {}

Focuses == {"osds", "nodes", "insights", "trace", "logs"}
Lists == Focuses \cup {"flow"}

EVENT_LOG_MIN_HEIGHT == 3
EVENT_LOG_DEFAULT_HEIGHT == 6
EVENT_LOG_RESERVED_ROWS == 10

VARIABLES
    focused_panel, stacks, \* stacks: overview_stacks_nodes_osds
    flow_shown,            \* flow_view
    scroll,                \* nodes_scroll ... logs_scroll, flow_scroll
    total,                 \* the lengths of the lists
    terminal_height, event_log_height, overview_offset, insights_offset,
    presses                \* keys and changes of a list so far

heightVars == <<event_log_height, overview_offset, insights_offset>>
panelsVars == <<focused_panel, stacks, flow_shown, scroll, total, terminal_height, heightVars, presses>>

Least(a, b) == IF a < b THEN a ELSE b
Most(a, b) == IF a > b THEN a ELSE b
Within(x, low, high) == Least(Most(x, low), high)

-----------------------------------------------------------------------------
(* What is drawn.                                                          *)

(* clamp_top_scroll, clamp_bottom_scroll: how far a list is scrolled, the  *)
(* event log from its end, and the first of its lines that is drawn.       *)
View(list) == Least(scroll[list], Most(total[list] - Rows, 0))
FirstLine(list) ==
    IF list = "logs" THEN Most(total[list] - Rows, 0) - View(list) ELSE View(list)

event_log_height_for(height, preferred) ==
    Least(Most(preferred, EVENT_LOG_MIN_HEIGHT),
          Most(height - EVENT_LOG_RESERVED_ROWS, EVENT_LOG_MIN_HEIGHT))

-----------------------------------------------------------------------------
(* The focus.                                                              *)

focusable_panels(stacked) ==
    IF stacked THEN <<"osds", "nodes", "insights", "trace", "logs">>
    ELSE <<"osds", "insights", "trace", "logs", "nodes">>

next_panel(panel, delta, stacked) ==
    LET panels == focusable_panels(stacked)
        i == (CHOOSE k \in DOMAIN panels: panels[k] = panel) + delta
    IN panels[IF i > Len(panels) THEN 1 ELSE IF i < 1 THEN Len(panels) ELSE i]

(* The list that the focus scrolls.                                        *)
focused_scroll_mut == IF focused_panel = "trace" /\ flow_shown THEN "flow" ELSE focused_panel

Key == presses < MaxPresses /\ presses' = presses + 1

focus_next_panel(delta) ==
    /\ Key
    /\ focused_panel' = next_panel(focused_panel, delta, stacks)
    /\ UNCHANGED <<stacks, flow_shown, scroll, total, terminal_height, heightVars>>

-----------------------------------------------------------------------------
(* Scrolling.  The event log counts from its end.                          *)

(* The addition of a usize without saturation.                             *)
scroll_with_delta_fault(current, delta) == current + delta

scroll_with_delta(current, delta) == Within(current + delta, 0, UsizeMax)

set_focused_panel_scroll(value) ==
    /\ Key
    /\ scroll' = [scroll EXCEPT ![focused_scroll_mut] = value]
    /\ UNCHANGED <<focused_panel, stacks, flow_shown, total, terminal_height, heightVars>>

(* The event log is scrolled like the others.                              *)
scroll_focused_panel_fault(delta) ==
    set_focused_panel_scroll(scroll_with_delta(scroll[focused_scroll_mut], delta))

scroll_focused_panel(delta) ==
    set_focused_panel_scroll(
        scroll_with_delta(scroll[focused_scroll_mut], IF focused_panel = "logs" THEN -delta ELSE delta))

Home == set_focused_panel_scroll(IF focused_panel = "logs" THEN UsizeMax ELSE 0)
End == set_focused_panel_scroll(IF focused_panel = "logs" THEN 0 ELSE UsizeMax)

(* m, and o and s in the flow view.                                        *)
flow_key ==
    /\ Key
    /\ flow_shown' \in BOOLEAN /\ (flow_shown' = flow_shown => flow_shown)
    /\ scroll' = [scroll EXCEPT !["flow"] = 0]
    /\ UNCHANGED <<focused_panel, stacks, total, terminal_height, heightVars>>

-----------------------------------------------------------------------------
(* Resizing.                                                               *)

adjust_event_log_height(delta) ==
    Within(event_log_height + delta, EVENT_LOG_MIN_HEIGHT,
           Most(terminal_height - EVENT_LOG_RESERVED_ROWS, EVENT_LOG_MIN_HEIGHT))

Offset(offset, delta, low) == Within(offset + delta, low, 12)

resize_focused_panel(delta) ==
    /\ Key
    /\ \/ /\ focused_panel = "logs"
          /\ event_log_height' = adjust_event_log_height(delta)
          /\ UNCHANGED <<overview_offset, insights_offset>>
       \/ /\ focused_panel \in {"osds", "nodes", "trace"}
          /\ overview_offset' = Offset(overview_offset, IF focused_panel = "trace" THEN -delta ELSE delta, -6)
          /\ UNCHANGED <<event_log_height, insights_offset>>
       \/ /\ focused_panel = "insights"
          /\ insights_offset' = Offset(insights_offset, delta, -5)
          /\ UNCHANGED <<event_log_height, overview_offset>>
    /\ UNCHANGED <<focused_panel, stacks, flow_shown, scroll, total, terminal_height>>

-----------------------------------------------------------------------------
(* A list grows, shrinks or is cleared.                                    *)
list_changes ==
    /\ Key
    /\ \E list \in Lists, n \in Lengths: total' = [total EXCEPT ![list] = n]
    /\ UNCHANGED <<focused_panel, stacks, flow_shown, scroll, terminal_height, heightVars>>

(* The terminal is resized.                                                *)
terminal_changes ==
    /\ terminal_height' \in Heights
    /\ stacks' \in BOOLEAN
    /\ UNCHANGED <<focused_panel, flow_shown, scroll, total, heightVars, presses>>

PanelsInit ==
    /\ focused_panel = "osds" /\ stacks \in BOOLEAN /\ flow_shown = FALSE
    /\ scroll = [l \in Lists |-> 0]
    /\ total = [l \in Lists |-> 0]
    /\ terminal_height \in Heights
    /\ event_log_height = EVENT_LOG_DEFAULT_HEIGHT
    /\ overview_offset = 0 /\ insights_offset = 0
    /\ presses = 0

PanelsNext ==
    \/ \E delta \in {1, -1}: focus_next_panel(delta) \/ resize_focused_panel(delta)
    \/ \E delta \in {1, -1, Page, -Page}: scroll_focused_panel(delta)
    \/ Home \/ End \/ flow_key \/ list_changes \/ terminal_changes

PanelsSpec == PanelsInit /\ [][PanelsNext]_panelsVars

-----------------------------------------------------------------------------
(* Types and ranges of the counters.                                       *)
PanelsTypeOK ==
    /\ focused_panel \in Focuses /\ stacks \in BOOLEAN /\ flow_shown \in BOOLEAN
    /\ scroll \in [Lists -> 0 .. UsizeMax]
    /\ overview_offset \in -6 .. 12 /\ insights_offset \in -5 .. 12
    /\ event_log_height >= EVENT_LOG_MIN_HEIGHT

(* A resize key on the event log sets a height that is drawn as it is, so  *)
(* that the next key in the other direction shows.  It clamps by the       *)
(* height that run_app read, draw by the area of the frame.                *)
LogHeightIsDrawn ==
    event_log_height' # event_log_height =>
        event_log_height_for(terminal_height', event_log_height') = event_log_height'

(* Up, Down, j and k move what the focused panel shows by one line in      *)
(* their direction, up to its ends, although the event log counts from its *)
(* end; a counter beyond the view, as End and a list that shrinks leave    *)
(* it, comes back first.                                                   *)
ArrowsScroll ==
    \A delta \in {1, -1}: scroll_focused_panel(delta) =>
        LET list == focused_scroll_mut
            last == Most(total[list] - Rows, 0)
        IN scroll[list] <= last => FirstLine(list)' = Within(FirstLine(list) + delta, 0, last)

(* What a key does shows.                                                  *)
KeysShow == [][LogHeightIsDrawn /\ ArrowsScroll]_panelsVars
=============================================================================
