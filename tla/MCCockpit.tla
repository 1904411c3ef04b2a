------------------------------ MODULE MCCockpit -----------------------------
(* The parts of the TUI's main loop, each on its small instance.           *)
EXTENDS MCConfigEditor, MCFlow, MCTraceSeries, MCInsights, Cockpit

CONSTANTS osdtrace, kfstrace, radostrace
=============================================================================
