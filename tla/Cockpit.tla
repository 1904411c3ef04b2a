------------------------------- MODULE Cockpit ------------------------------
(***************************************************************************)
(* The parts of the TUI that the main loop alone works on: the keyboard,   *)
(* the config screen, the panels, and the views of flow, trace series and  *)
(* insights.  No variable of one is read by another, so that a behaviour   *)
(* of the whole is a behaviour of each: here, one behaviour is that of the *)
(* part that the first state chooses, and the others rest.  "verdicts" is  *)
(* the rules of the insights alone, on evidence that does not change.      *)
(***************************************************************************)
EXTENDS ConfigEditor, Keyboard, Panels, Flow, TraceSeries, Insights

CONSTANT SomeEvidence \* what "verdicts" reads the rules on

VARIABLE part

cockpitVars == <<part, editorVars, keyboardVars, panelsVars, flowVars, seriesVars, insightsVars>>

(* A part starts anywhere when it is chosen, and else rests in one of its  *)
(* initial states.                                                         *)
EditorStarts == EditorInit /\ (part # "editor" => file = NoFile /\ app.hosts = DefaultHosts)
KeyboardStarts == KeyboardInit /\ (part # "keyboard" => screen = "live" /\ size = "small")
PanelsStarts == PanelsInit /\ (part # "panels" => terminal_height = Min(Heights) /\ stacks = FALSE)
SeriesStarts == SeriesInit /\ (part # "series" => trace_window = Min(Windows) /\ trace_ttl = Min(Ttls))

VerdictsInit ==
    /\ evidence \in SomeEvidence
    /\ insight_history = <<>> /\ captured = <<>>
    /\ second = 0 /\ clock_set = FALSE

InsightsStarts == IF part = "verdicts" THEN VerdictsInit ELSE InsightsInit

CockpitInit ==
    /\ part \in {"editor", "keyboard", "panels", "flow", "series", "insights", "verdicts"}
    /\ EditorStarts /\ KeyboardStarts /\ PanelsStarts /\ FlowInit /\ SeriesStarts /\ InsightsStarts

CockpitNext ==
    /\ UNCHANGED part
    /\ \/ part = "editor" /\ EditorNext
          /\ UNCHANGED <<keyboardVars, panelsVars, flowVars, seriesVars, insightsVars>>
       \/ part = "keyboard" /\ KeyboardNext
          /\ UNCHANGED <<editorVars, panelsVars, flowVars, seriesVars, insightsVars>>
       \/ part = "panels" /\ PanelsNext
          /\ UNCHANGED <<editorVars, keyboardVars, flowVars, seriesVars, insightsVars>>
       \/ part = "flow" /\ FlowNext
          /\ UNCHANGED <<editorVars, keyboardVars, panelsVars, seriesVars, insightsVars>>
       \/ part = "series" /\ SeriesNext
          /\ UNCHANGED <<editorVars, keyboardVars, panelsVars, flowVars, insightsVars>>
       \/ part = "insights" /\ InsightsNext
          /\ UNCHANGED <<editorVars, keyboardVars, panelsVars, flowVars, seriesVars>>

CockpitSpec == CockpitInit /\ [][CockpitNext]_cockpitVars

-----------------------------------------------------------------------------
(* The types of all parts.                                                 *)
TypesOK ==
    EditorTypeOK /\ KeyboardTypeOK /\ PanelsTypeOK /\ SeriesTypeOK /\ InsightsTypeOK
=============================================================================
