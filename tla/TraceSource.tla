---------------------------- MODULE TraceSource -----------------------------
(***************************************************************************)
(* What a client trace source promises the operator: one run after the     *)
(* other. A run starts from idle only, with an empty view; it is idle      *)
(* again exactly when its last remote runner has reported; and the view    *)
(* never holds a line of a run that is over. Several sources may step at   *)
(* once (the a key, a config change, quitting).                            *)
(***************************************************************************)
EXTENDS Naturals

CONSTANT ClientSources

VARIABLE run    (* per source: its phase, the number of its latest run,    *)
                (* runners of that run unreported, runs whose lines show   *)

Phases == {"idle", "running", "stopping"}
TypeOK == run \in [ClientSources -> [phase : Phases, id : Nat, out : Nat, shown : SUBSET Nat]]

Init == run = [s \in ClientSources |-> [phase |-> "idle", id |-> 0, out |-> 0, shown |-> {}]]

(* The steps of one source, from the record r to the record q.             *)
Start(r, q) ==
    /\ r.phase = "idle"
    /\ q.phase = "running" /\ q.id > r.id /\ q.out > 0 /\ q.shown = {}

Stop(r, q) == r.phase = "running" /\ q = [r EXCEPT !.phase = "stopping"]

Show(r, q) == r.phase # "idle" /\ q = [r EXCEPT !.shown = {r.id}]

Clear(r, q) == q = [r EXCEPT !.shown = {}]

Report(r, q) ==
    /\ r.out > 0
    /\ q = [r EXCEPT !.out = @ - 1, !.phase = IF r.out = 1 THEN "idle" ELSE @]

Step(r, q) == Start(r, q) \/ Stop(r, q) \/ Show(r, q) \/ Clear(r, q) \/ Report(r, q)

Next ==
    /\ DOMAIN run' = ClientSources
    /\ \A s \in ClientSources : run'[s] = run[s] \/ Step(run[s], run'[s])

Spec == Init /\ [][Next]_run
=============================================================================
