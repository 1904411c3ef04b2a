---------------------------- MODULE RemoteRunner ----------------------------
(***************************************************************************)
(* The osdtrace runner on one remote host: the shell script that the TUI   *)
(* installs and runs there over ssh (src/runner.rs), its children, and the *)
(* pidfile cleanup (src/util.rs) that a later install and a stop run over  *)
(* other ssh connections. One action per command of a script; a signal or  *)
(* another process may come between any two.                               *)
(*                                                                         *)
(* Processes keep their identity: the start time that the cleanup compares *)
(* tells a process from a later one with its pid.                          *)
(*                                                                         *)
(* A definition named X_fault is X with a plausible mistake in it. Nothing *)
(* uses it; it documents which property notices the mistake.               *)
(***************************************************************************)
EXTENDS Naturals, FiniteSets

CONSTANTS
    Sessions,   (* the runs that are started on this host                  *)
    Names,      (* safe_session_id of their ids                            *)
    Name,       (* [Sessions -> Names]: equal for runs of one second       *)
    Watched,    (* those with watch_connection: the TUI's, not the lab's   *)
    Stops       (* the sessions a stop's cleanup may be sent for           *)

ASSUME NameOfSession == Name \in [Sessions -> Names]
ASSUME SetsOfSessions == Watched \subseteq Sessions /\ Stops \subseteq Sessions

NoFile == "absent"
Empty == "empty"
ASSUME FileContents == NoFile \notin Sessions /\ Empty \notin Sessions

(* The script's place: the command it runs next. Before "opening" it is    *)
(* the sh of the ssh command that installs it.                             *)
Installing == {"cleaning", "writing", "launching"}
Bare == {"opening", "writing_pid", "trapping"}
Trapped == {"starting", "watching", "watched", "checking", "timing", "timed",
            "tracing", "traced", "reporting", "waiting", "exiting"}
CleaningUp == {"stop_ttl", "stop_watcher", "stop_tracer", "reaping", "removing", "unlinking"}
Finished == {"exited", "killed"}
Places == {"none"} \cup Installing \cup Bare \cup Trapped \cup CleaningUp \cup Finished
Alive == Bare \cup Trapped \cup CleaningUp

Children == {"watcher", "ttl", "tracer"}
Processes == Sessions \X (Children \cup {"runner"})
Kid(s, k) == <<s, k>>

(* The cleanup of each install, and of a stop of each session.             *)
Cleaners == [of : Sessions, by : {"install", "stop"}]
CleanerPlaces == {"idle", "listed", "terming", "killing", "unlinking", "done"}
Cleaner == [at : CleanerPlaces, todo : SUBSET Names, name : Names \cup {NoFile},
            targets : SUBSET Processes, left : SUBSET Processes]

VARIABLES
    connected,  (* the ssh connection of a session: "none", "open",        *)
                (* "closed": as its end on this host is                    *)
    runner,     (* the place of the runner                                 *)
    term,       (* the runners with a TERM to be trapped                   *)
    knows,      (* the children whose pid the script has stored            *)
    alive,      (* the children that run                                   *)
    ending,     (* the tracers that were sent a TERM                       *)
    pidfile,    (* per name: absent, empty, or the session in it           *)
    script,     (* the names whose script file exists                      *)
    cleaner     (* the cleanups                                            *)

procVars == <<runner, term, knows, alive, ending>>
fileVars == <<pidfile, script>>
vars == <<connected, procVars, fileVars, cleaner>>

Idle == [at |-> "idle", todo |-> {}, name |-> NoFile, targets |-> {}, left |-> {}]

Init ==
    /\ connected = [s \in Sessions |-> "none"]
    /\ runner = [s \in Sessions |-> "none"]
    /\ term = {}
    /\ knows = [s \in Sessions |-> {}]
    /\ alive = {}
    /\ ending = {}
    /\ pidfile = [n \in Names |-> NoFile]
    /\ script = {}
    /\ cleaner = [c \in Cleaners |-> Idle]

-----------------------------------------------------------------------------
(* Signals. A watcher and a TTL sleeper die of a TERM, osdtrace ends some  *)
(* time after it, and a runner takes the trap when it has set one.         *)

AfterTerm(S) ==
    /\ alive' = alive \ {p \in S : p[2] \in {"watcher", "ttl"}}
    /\ ending' = ending \cup {p[1] : p \in {q \in S \cap alive : q[2] = "tracer"}}
TermRunner_fault(s) ==
    /\ term' = IF runner[s] \in Trapped \cup CleaningUp THEN term \cup {s} ELSE term
    /\ runner' = IF runner[s] \in Bare THEN [runner EXCEPT ![s] = "killed"] ELSE runner
TermRunner(s) ==
    /\ term' = IF runner[s] \in Trapped THEN term \cup {s} ELSE term
    /\ runner' = IF runner[s] \in Bare \cup CleaningUp
                 THEN [runner EXCEPT ![s] = "killed"] ELSE runner

-----------------------------------------------------------------------------
(* trace_runner_install_command and trace_runner_script.                   *)

(* A command of the script: a trapped runner with a TERM runs cleanup()    *)
(* instead.                                                                *)
Command(s, from, to) ==
    /\ runner[s] = from
    /\ s \notin term
    /\ runner' = [runner EXCEPT ![s] = to]
    /\ UNCHANGED <<connected, term, cleaner>>

(* The ssh command starts; the stale cleanup comes first.                  *)
install(s) ==
    /\ runner[s] = "none"
    /\ connected' = [connected EXCEPT ![s] = "open"]
    /\ runner' = [runner EXCEPT ![s] = "cleaning"]
    /\ cleaner' = [cleaner EXCEPT ![[of |-> s, by |-> "install"]] =
                      [Idle EXCEPT !.at = "listed", !.todo = {n \in Names : pidfile[n] # NoFile}]]
    /\ UNCHANGED <<term, knows, alive, ending, fileVars>>

cleaned(s) ==
    /\ cleaner[[of |-> s, by |-> "install"]].at = "done"
    /\ Command(s, "cleaning", "writing")
    /\ UNCHANGED <<knows, alive, ending, fileVars>>

write_script(s) ==
    /\ Command(s, "writing", "launching")
    /\ script' = script \cup {Name[s]}
    /\ UNCHANGED <<knows, alive, ending, pidfile>>

(* An echo to a connection that is gone kills a shell with SIGPIPE: dash   *)
(* at once, bash after the EXIT trap.                                      *)
HungUp(s) == connected[s] = "closed"
Says(s, from, to) ==
    \/ Command(s, from, to)
    \/ HungUp(s) /\ Command(s, from, "killed")
    \/ HungUp(s) /\ from \in Trapped /\ Command(s, from, "exiting")

(* An echo, and the exec of a script that must still be there.             *)
launch(s) ==
    /\ Says(s, "launching", IF Name[s] \in script THEN "opening" ELSE "killed")
    /\ UNCHANGED <<knows, alive, ending, fileVars>>

(* printf > "$pidfile" creates the file and then writes to it, whoever     *)
(* removed it in between.                                                  *)
open_pidfile(s) ==
    /\ Command(s, "opening", "writing_pid")
    /\ pidfile' = [pidfile EXCEPT ![Name[s]] = Empty]
    /\ UNCHANGED <<knows, alive, ending, script>>

write_pidfile(s) ==
    /\ Command(s, "writing_pid", "trapping")
    /\ pidfile' = [pidfile EXCEPT ![Name[s]] = IF @ = Empty THEN s ELSE @]
    /\ UNCHANGED <<knows, alive, ending, script>>

set_trap(s) ==
    /\ Command(s, "trapping", "starting")
    /\ UNCHANGED <<knows, alive, ending, fileVars>>

echo(s) ==
    /\ \/ Says(s, "starting", IF s \in Watched THEN "watching" ELSE "checking")
       \/ Says(s, "reporting", "waiting")
    /\ UNCHANGED <<knows, alive, ending, fileVars>>

(* A child is started in the background, and then its pid is stored.       *)
Spawns(s, from, to, k) ==
    /\ Command(s, from, to)
    /\ alive' = alive \cup {Kid(s, k)}
    /\ UNCHANGED <<knows, ending, fileVars>>
Stores(s, from, to, k) ==
    /\ Command(s, from, to)
    /\ knows' = [knows EXCEPT ![s] = @ \cup {k}]
    /\ UNCHANGED <<alive, ending, fileVars>>

start_watcher(s) == Spawns(s, "watching", "watched", "watcher")
store_watcher(s) == Stores(s, "watched", "checking", "watcher")

(* sudo -n and osdtrace are there, or the script says what is not.         *)
check(s) ==
    /\ Command(s, "checking", "timing") \/ Says(s, "checking", "exiting")
    /\ UNCHANGED <<knows, alive, ending, fileVars>>

start_ttl(s) == Spawns(s, "timing", "timed", "ttl")
store_ttl(s) == Stores(s, "timed", "tracing", "ttl")
start_tracer(s) == Spawns(s, "tracing", "traced", "tracer")
store_tracer(s) == Stores(s, "traced", "reporting", "tracer")

(* wait "$trace_pid" returns; the script forgets the pid and says so.      *)
tracer_waited(s) ==
    /\ Kid(s, "tracer") \notin alive
    /\ Says(s, "waiting", "exiting")
    /\ knows' = [knows EXCEPT ![s] = @ \ {"tracer"}]
    /\ UNCHANGED <<alive, ending, fileVars>>

(* cleanup(), on a trapped TERM or on exit. It resets the traps first.     *)
enter_cleanup(s) ==
    /\ \/ s \in term /\ runner[s] \in Trapped
       \/ runner[s] = "exiting"
    /\ runner' = [runner EXCEPT ![s] = "stop_ttl"]
    /\ term' = term \ {s}
    /\ UNCHANGED <<connected, knows, alive, ending, fileVars, cleaner>>

Terms(s, from, to, k) ==
    /\ Command(s, from, to)
    /\ AfterTerm(IF k \in knows[s] THEN {Kid(s, k)} ELSE {})
    /\ UNCHANGED <<knows, fileVars>>
stop_ttl(s) == Terms(s, "stop_ttl", "stop_watcher", "ttl")
stop_watcher(s) == Terms(s, "stop_watcher", "stop_tracer", "watcher")
stop_tracer_fault(s) == Terms(s, "stop_tracer", "removing", "tracer")
stop_tracer(s) == Terms(s, "stop_tracer", "reaping", "tracer")

reap_tracer(s) ==
    /\ "tracer" \in knows[s] => Kid(s, "tracer") \notin alive
    /\ Command(s, "reaping", "removing")
    /\ UNCHANGED <<knows, alive, ending, fileVars>>

remove_script(s) ==
    /\ Command(s, "removing", "unlinking")
    /\ script' = script \ {Name[s]}
    /\ UNCHANGED <<knows, alive, ending, pidfile>>

remove_pidfile(s) ==
    /\ Command(s, "unlinking", "exited")
    /\ pidfile' = [pidfile EXCEPT ![Name[s]] = NoFile]
    /\ UNCHANGED <<knows, alive, ending, script>>

-----------------------------------------------------------------------------
(* The children, and the connection.                                       *)

(* The end of the ssh client, or of the network, closes the script's stdin *)
(* and the reading end of its output.                                      *)
close(s) ==
    /\ connected[s] = "open"
    /\ connected' = [connected EXCEPT ![s] = "closed"]
    /\ UNCHANGED <<procVars, fileVars, cleaner>>

(* The connection watcher reads the end of stdin.                          *)
Watches_fault(s) == FALSE
Watches(s) == connected[s] = "closed"
watcher_ends(s) ==
    /\ Kid(s, "watcher") \in alive
    /\ Watches(s)
    /\ alive' = alive \ {Kid(s, "watcher")}
    /\ TermRunner(s)
    /\ UNCHANGED <<connected, knows, ending, fileVars, cleaner>>

ttl_expires_fault(s) ==
    /\ Kid(s, "ttl") \in alive
    /\ alive' = alive \ {Kid(s, "ttl")}
    /\ UNCHANGED <<connected, runner, term, knows, ending, fileVars, cleaner>>
(* The TTL expires; the echo before the kill needs a reader.               *)
ttl_expires(s) ==
    /\ Kid(s, "ttl") \in alive
    /\ alive' = alive \ {Kid(s, "ttl")}
    /\ TermRunner(s) \/ (HungUp(s) /\ UNCHANGED <<runner, term>>)
    /\ UNCHANGED <<connected, knows, ending, fileVars, cleaner>>

(* osdtrace ends after a TERM, or by itself.                               *)
tracer_ends(s) ==
    /\ Kid(s, "tracer") \in alive
    /\ alive' = alive \ {Kid(s, "tracer")}
    /\ ending' = ending \ {s}
    /\ UNCHANGED <<connected, runner, term, knows, fileVars, cleaner>>

-----------------------------------------------------------------------------
(* trace_runner_cleanup_for_glob and cephlens_cleanup_pidfile.             *)

Runs(p) == IF p[2] = "runner" THEN runner[p[1]] \in Alive ELSE p \in alive
Tree(s) == {p \in {s} \X (Children \cup {"runner"}) : Runs(p) /\ runner[s] \in Alive}

(* A stop's cleanup ssh starts: it knows the pidfile's name. The TUI has   *)
(* ended the session's own ssh, or does so now.                            *)
stop(s) ==
    LET c == [of |-> s, by |-> "stop"]
    IN /\ s \in Stops
       /\ connected[s] # "none"
       /\ cleaner[c].at = "idle"
       /\ cleaner' = [cleaner EXCEPT ![c] = [Idle EXCEPT !.at = "listed", !.todo = {Name[s]}]]
       /\ UNCHANGED <<connected, procVars, fileVars>>

(* The next pidfile of the loop is looked at: skipped when it is gone,     *)
(* and without effect on a process when it names none that is a runner.    *)
look(c, n) ==
    /\ cleaner[c].at = "listed"
    /\ n \in cleaner[c].todo
    /\ LET tree == IF pidfile[n] \in Sessions THEN Tree(pidfile[n]) ELSE {}
           rest == [cleaner[c] EXCEPT !.todo = @ \ {n}]
       IN cleaner' = [cleaner EXCEPT ![c] =
              IF pidfile[n] = NoFile THEN rest
              ELSE [rest EXCEPT !.at = IF tree = {} THEN "unlinking" ELSE "terming",
                                !.name = n, !.targets = tree, !.left = tree]]
    /\ UNCHANGED <<connected, procVars, fileVars>>

(* TERM to each process of the tree, the runner first.                     *)
Strikes(c, from, p) ==
    /\ cleaner[c].at = from
    /\ p \in cleaner[c].left
    /\ (\E q \in cleaner[c].left : q[2] = "runner") => p[2] = "runner"
    /\ cleaner' = [cleaner EXCEPT ![c].left = @ \ {p}]
term_target(c, p) ==
    /\ Strikes(c, "terming", p)
    /\ IF p[2] = "runner" THEN TermRunner(p[1]) /\ UNCHANGED <<alive, ending>>
                          ELSE AfterTerm({p}) /\ UNCHANGED <<runner, term>>
    /\ UNCHANGED <<connected, knows, fileVars>>

(* sleep 1                                                                 *)
grace_ends_fault(c) ==
    /\ cleaner[c].at = "terming" /\ cleaner[c].left = {}
    /\ cleaner' = [cleaner EXCEPT ![c].at = "unlinking"]
    /\ UNCHANGED <<connected, procVars, fileVars>>
grace_ends(c) ==
    /\ cleaner[c].at = "terming" /\ cleaner[c].left = {}
    /\ cleaner' = [cleaner EXCEPT ![c].at = "killing", ![c].left = cleaner[c].targets]
    /\ UNCHANGED <<connected, procVars, fileVars>>

kill_target(c, p) ==
    /\ Strikes(c, "killing", p)
    /\ IF p[2] = "runner"
       THEN /\ runner' = IF runner[p[1]] \in Alive THEN [runner EXCEPT ![p[1]] = "killed"] ELSE runner
            /\ UNCHANGED <<alive, ending>>
       ELSE /\ alive' = alive \ {p}
            /\ ending' = IF p[2] = "tracer" THEN ending \ {p[1]} ELSE ending
            /\ UNCHANGED runner
    /\ UNCHANGED <<connected, term, knows, fileVars>>

kill_ends(c) ==
    /\ cleaner[c].at = "killing" /\ cleaner[c].left = {}
    /\ cleaner' = [cleaner EXCEPT ![c].at = "unlinking"]
    /\ UNCHANGED <<connected, procVars, fileVars>>

unlink(c) ==
    /\ cleaner[c].at = "unlinking"
    /\ pidfile' = [pidfile EXCEPT ![cleaner[c].name] = NoFile]
    /\ script' = script \ {cleaner[c].name}
    /\ cleaner' = [cleaner EXCEPT ![c].at = "listed", ![c].name = NoFile, ![c].targets = {}]
    /\ UNCHANGED <<connected, procVars>>

loop_ends(c) ==
    /\ cleaner[c].at = "listed" /\ cleaner[c].todo = {}
    /\ cleaner' = [cleaner EXCEPT ![c].at = "done"]
    /\ UNCHANGED <<connected, procVars, fileVars>>

-----------------------------------------------------------------------------
Script(s) ==
    \/ cleaned(s)
    \/ write_script(s)
    \/ launch(s)
    \/ open_pidfile(s)
    \/ write_pidfile(s)
    \/ set_trap(s)
    \/ echo(s)
    \/ start_watcher(s)
    \/ store_watcher(s)
    \/ check(s)
    \/ start_ttl(s)
    \/ store_ttl(s)
    \/ start_tracer(s)
    \/ store_tracer(s)
    \/ tracer_waited(s)
    \/ enter_cleanup(s)
    \/ stop_ttl(s)
    \/ stop_watcher(s)
    \/ stop_tracer(s)
    \/ reap_tracer(s)
    \/ remove_script(s)
    \/ remove_pidfile(s)

Cleanup(c) ==
    \/ \E n \in Names : look(c, n)
    \/ \E p \in Processes : term_target(c, p)
    \/ grace_ends(c)
    \/ \E p \in Processes : kill_target(c, p)
    \/ kill_ends(c)
    \/ unlink(c)
    \/ loop_ends(c)

Next ==
    \/ \E s \in Sessions :
           \/ install(s)
           \/ Script(s)
           \/ close(s)
           \/ watcher_ends(s)
           \/ ttl_expires(s)
           \/ tracer_ends(s)
           \/ stop(s)
    \/ \E c \in Cleaners : Cleanup(c)

Spec == Init /\ [][Next]_vars

(* The host runs its processes, time passes, and osdtrace obeys a TERM.    *)
Fairness ==
    /\ \A s \in Sessions :
           /\ WF_vars(Script(s))
           /\ WF_vars(watcher_ends(s))
           /\ WF_vars(ttl_expires(s))
           /\ WF_vars(s \in ending /\ tracer_ends(s))
    /\ \A c \in Cleaners : WF_vars(Cleanup(c))
FairSpec == Spec /\ Fairness

-----------------------------------------------------------------------------
(* What the properties are stated with.                                    *)

TypeOK ==
    /\ connected \in [Sessions -> {"none", "open", "closed"}]
    /\ runner \in [Sessions -> Places]
    /\ term \in SUBSET {s \in Sessions : runner[s] \in Trapped \cup {"killed"}}
    /\ knows \in [Sessions -> SUBSET Children]
    /\ alive \in SUBSET (Sessions \X Children)
    /\ ending \in SUBSET Sessions
    /\ pidfile \in [Names -> Sessions \cup {NoFile, Empty}]
    /\ script \in SUBSET Names
    /\ cleaner \in [Cleaners -> Cleaner]

OwnName(s) == \A t \in Sessions : Name[t] = Name[s] => t = s
Tracing(s) == Kid(s, "tracer") \in alive
Targeted(p) == \E c \in Cleaners : p \in cleaner[c].targets

(* A runner that gets to the end of its own cleanup leaves neither its     *)
(* files nor a process it knew of, whatever signals, closed connections    *)
(* and cleanups of others came meanwhile.                                  *)
CleanExit ==
    \A s \in Sessions :
        runner[s] = "exited" =>
            /\ \A k \in knows[s] : Kid(s, k) \notin alive
            /\ pidfile[Name[s]] # s
            /\ OwnName(s) => Name[s] \notin script

(* A cleanup that removes a pidfile has ended every process of the tree it *)
(* listed, also a runner killed half way through its own cleanup().        *)
CleanedTree ==
    \A c \in Cleaners :
        cleaner[c].at = "unlinking" => \A p \in cleaner[c].targets : ~Runs(p)

(* README.md:277, runners "watch the SSH connection and remove their       *)
(* tracer process tree and runner files when that connection closes": a    *)
(* runner that got to the end of its cleanup() leaves no tracer, unless it *)
(* is ending or a cleanup is about to end it.                              *)
TreeRemoved ==
    \A s \in Sessions :
        runner[s] = "exited" /\ Tracing(s) =>
            s \in ending \/ Targeted(Kid(s, "tracer"))

(* README.md:277, the connection watcher: once the connection is closed,   *)
(* however far the script had got, the runner ends.                        *)
ClosedEnds == \A s \in Watched : (connected[s] = "closed") ~> (runner[s] \in Finished)

(* README.md:280, "TTL expiry remains the fallback": a watched runner that *)
(* has started its tracer ends though its connection stays open for ever.  *)
(* (One that is not watched may lose its connection, and then the sleeper  *)
(* dies of the line it prints before it can tell the runner.)              *)
TtlEnds == \A s \in Watched : (runner[s] = "waiting") ~> (runner[s] \in Finished)
=============================================================================
