------------------------ MODULE RemoteRunnerProofs --------------------------
(***************************************************************************)
(* Theorems about RemoteRunner, for any sessions with any names.           *)
(***************************************************************************)
EXTENDS RemoteRunner, TLAPS

-----------------------------------------------------------------------------
(* The types.                                                              *)

RunnerType ==
    /\ connected \in [Sessions -> {"none", "open", "closed"}]
    /\ runner \in [Sessions -> Places]
    /\ term \in SUBSET {s \in Sessions : runner[s] \in Trapped \cup {"killed"}}
ChildType ==
    /\ knows \in [Sessions -> SUBSET Children]
    /\ alive \in SUBSET (Sessions \X Children)
    /\ ending \in SUBSET Sessions
FileType ==
    /\ pidfile \in [Names -> Sessions \cup {NoFile, Empty}]
    /\ script \in SUBSET Names
CleanerType == cleaner \in [Cleaners -> Cleaner]

LEMMA TypeParts == TypeOK <=> RunnerType /\ ChildType /\ FileType /\ CleanerType
  BY DEF TypeOK, RunnerType, ChildType, FileType, CleanerType
LEMMA NextTypeParts == RunnerType' /\ ChildType' /\ FileType' /\ CleanerType' => TypeOK'
  BY DEF TypeOK, RunnerType, ChildType, FileType, CleanerType

(* A command of the script leaves a pending TERM to a trapped runner.      *)
LEMMA CommandType ==
    ASSUME RunnerType, CleanerType, NEW s \in Sessions, NEW from, NEW to \in Places,
           Command(s, from, to)
    PROVE  RunnerType' /\ CleanerType'
  BY DEF RunnerType, CleanerType, Command

LEMMA SaysType ==
    ASSUME RunnerType, CleanerType, NEW s \in Sessions, NEW from, NEW to \in Places,
           Says(s, from, to)
    PROVE  RunnerType' /\ CleanerType'
  <1>1. {"killed", "exiting"} \subseteq Places
    BY DEF Places, Trapped, Finished
  <1>2. QED BY <1>1, CommandType DEF Says

(* A TERM is pending only where a trap is set.                             *)
LEMMA TermRunnerType ==
    ASSUME RunnerType, NEW s \in Sessions, TermRunner(s), UNCHANGED connected
    PROVE  RunnerType'
  <1>1. "killed" \in Places
    BY DEF Places, Finished
  <1>2. Trapped \cap (Bare \cup CleaningUp) = {}
    BY DEF Trapped, Bare, CleaningUp
  <1>3. QED BY <1>1, <1>2 DEF RunnerType, TermRunner

LEMMA InitType == Init => TypeOK
  <1> SUFFICES ASSUME Init PROVE TypeOK
    OBVIOUS
  <1>1. "none" \in Places
    BY DEF Places
  <1>2. Idle \in Cleaner
    BY DEF Idle, Cleaner, CleanerPlaces
  <1>3. QED BY <1>1, <1>2 DEF Init, TypeOK

(* The commands of the script, up to the start of osdtrace's children.     *)
LEMMA InstallType ==
    ASSUME TypeOK, NEW s \in Sessions, install(s)
    PROVE  TypeOK'
  <1>1. "cleaning" \in Places
    BY DEF Places, Installing
  <1>2. [of |-> s, by |-> "install"] \in Cleaners
    BY DEF Cleaners
  <1>3. [Idle EXCEPT !.at = "listed", !.todo = {n \in Names : pidfile[n] # NoFile}] \in Cleaner
    BY DEF Idle, Cleaner, CleanerPlaces
  <1>4. s \notin term
    BY DEF install, TypeOK, Trapped
  <1>5. RunnerType'
    BY <1>1, <1>4 DEF install, TypeOK, RunnerType
  <1>6. CleanerType'
    BY <1>2, <1>3 DEF install, TypeOK, CleanerType
  <1>7. ChildType' /\ FileType'
    BY TypeParts DEF install, ChildType, FileType, fileVars
  <1>8. QED BY <1>5, <1>6, <1>7, NextTypeParts

LEMMA ScriptType ==
    ASSUME TypeOK, NEW s \in Sessions, Script(s)
    PROVE  TypeOK'
  <1>1. RunnerType /\ ChildType /\ FileType /\ CleanerType
    BY TypeParts
  <1>2. /\ {"writing", "launching", "opening", "killed", "writing_pid", "trapping",
            "starting", "watching", "checking", "watched", "waiting", "exiting",
            "timing", "timed", "tracing", "traced", "reporting", "stop_ttl",
            "stop_watcher", "stop_tracer", "reaping", "removing", "unlinking",
            "exited"} \subseteq Places
        /\ {"watcher", "ttl", "tracer"} = Children
    BY DEF Places, Installing, Bare, Trapped, CleaningUp, Finished, Children
  <1>3. Name[s] \in Names
    BY NameOfSession
  <1>4. CASE cleaned(s)
    BY <1>1, <1>2, <1>4, CommandType, NextTypeParts DEF cleaned, ChildType, FileType, fileVars
  <1>5. CASE write_script(s)
    BY <1>1, <1>2, <1>3, <1>5, CommandType, NextTypeParts DEF write_script, ChildType, FileType
  <1>6. CASE launch(s)
    <2>1. (IF Name[s] \in script THEN "opening" ELSE "killed") \in Places
      BY <1>2
    <2>2. QED BY <1>1, <1>6, <2>1, SaysType, NextTypeParts DEF launch, ChildType, FileType, fileVars
  <1>7. CASE open_pidfile(s)
    BY <1>1, <1>2, <1>3, <1>7, CommandType, NextTypeParts DEF open_pidfile, ChildType, FileType
  <1>8. CASE write_pidfile(s)
    BY <1>1, <1>2, <1>3, <1>8, CommandType, NextTypeParts DEF write_pidfile, ChildType, FileType
  <1>9. CASE set_trap(s)
    BY <1>1, <1>2, <1>9, CommandType, NextTypeParts DEF set_trap, ChildType, FileType, fileVars
  <1>10. CASE echo(s)
    <2>1. (IF s \in Watched THEN "watching" ELSE "checking") \in Places
      BY <1>2
    <2>2. RunnerType' /\ CleanerType'
      BY <1>1, <1>2, <1>10, <2>1, SaysType DEF echo
    <2>3. QED BY <1>1, <1>10, <2>2, NextTypeParts DEF echo, ChildType, FileType, fileVars
  <1>11. ASSUME NEW from, NEW to \in Places, NEW k \in Children,
                Spawns(s, from, to, k) \/ Stores(s, from, to, k) \/ Terms(s, from, to, k)
         PROVE  TypeOK'
    <2>1. RunnerType' /\ CleanerType'
      BY <1>1, <1>11, CommandType DEF Spawns, Stores, Terms
    <2>2. CASE Spawns(s, from, to, k)
      BY <1>1, <2>1, <2>2, NextTypeParts DEF Spawns, Kid, ChildType, FileType, fileVars
    <2>3. CASE Stores(s, from, to, k)
      BY <1>1, <2>1, <2>3, NextTypeParts DEF Stores, ChildType, FileType, fileVars
    <2>4. CASE Terms(s, from, to, k)
      <3>1. alive' \subseteq alive /\ ending' \subseteq ending \cup {s}
        BY <2>4 DEF Terms, AfterTerm, Kid
      <3>2. QED BY <1>1, <2>1, <2>4, <3>1, NextTypeParts DEF Terms, ChildType, FileType, fileVars
    <2>5. QED BY <1>11, <2>2, <2>3, <2>4
  <1>12. CASE \/ start_watcher(s) \/ store_watcher(s) \/ start_ttl(s) \/ store_ttl(s)
              \/ start_tracer(s) \/ store_tracer(s)
              \/ stop_ttl(s) \/ stop_watcher(s) \/ stop_tracer(s)
    BY <1>2, <1>11, <1>12 DEF start_watcher, store_watcher, start_ttl, store_ttl,
       start_tracer, store_tracer, stop_ttl, stop_watcher, stop_tracer
  <1>13. CASE check(s)
    <2>1. RunnerType' /\ CleanerType'
      BY <1>1, <1>2, <1>13, CommandType, SaysType DEF check
    <2>2. QED BY <1>1, <1>13, <2>1, NextTypeParts DEF check, ChildType, FileType, fileVars
  <1>14. CASE tracer_waited(s)
    <2>1. RunnerType' /\ CleanerType'
      BY <1>1, <1>2, <1>14, SaysType DEF tracer_waited
    <2>2. QED BY <1>1, <1>14, <2>1, NextTypeParts DEF tracer_waited, ChildType, FileType, fileVars
  <1>15. CASE enter_cleanup(s)
    BY <1>1, <1>2, <1>15, NextTypeParts
    DEF enter_cleanup, RunnerType, ChildType, FileType, CleanerType, fileVars
  <1>16. CASE reap_tracer(s)
    BY <1>1, <1>2, <1>16, CommandType, NextTypeParts DEF reap_tracer, ChildType, FileType, fileVars
  <1>17. CASE remove_script(s)
    BY <1>1, <1>2, <1>17, CommandType, NextTypeParts DEF remove_script, ChildType, FileType
  <1>18. CASE remove_pidfile(s)
    BY <1>1, <1>2, <1>3, <1>18, CommandType, NextTypeParts DEF remove_pidfile, ChildType, FileType
  <1>19. QED
    BY <1>4, <1>5, <1>6, <1>7, <1>8, <1>9, <1>10, <1>12, <1>13, <1>14, <1>15, <1>16, <1>17,
       <1>18 DEF Script

(* The connection and the children, and a stop's ssh.                      *)
LEMMA OtherType ==
    ASSUME TypeOK, NEW s \in Sessions,
           close(s) \/ watcher_ends(s) \/ ttl_expires(s) \/ tracer_ends(s) \/ stop(s)
    PROVE  TypeOK'
  <1>1. RunnerType /\ ChildType /\ FileType /\ CleanerType
    BY TypeParts
  <1>2. CASE close(s)
    BY <1>1, <1>2, NextTypeParts
    DEF close, RunnerType, ChildType, FileType, CleanerType, procVars, fileVars
  <1>3. CASE watcher_ends(s)
    <2>1. RunnerType'
      BY <1>1, <1>3, TermRunnerType DEF watcher_ends
    <2>2. QED BY <1>1, <1>3, <2>1, NextTypeParts
              DEF watcher_ends, ChildType, FileType, CleanerType, fileVars
  <1>4. CASE ttl_expires(s)
    <2>1. RunnerType'
      BY <1>1, <1>4, TermRunnerType DEF ttl_expires, RunnerType
    <2>2. QED BY <1>1, <1>4, <2>1, NextTypeParts
              DEF ttl_expires, ChildType, FileType, CleanerType, fileVars
  <1>5. CASE tracer_ends(s)
    BY <1>1, <1>5, NextTypeParts
    DEF tracer_ends, RunnerType, ChildType, FileType, CleanerType, fileVars
  <1>6. CASE stop(s)
    <2>1. [of |-> s, by |-> "stop"] \in Cleaners /\ Name[s] \in Names
      BY NameOfSession DEF Cleaners
    <2>2. [Idle EXCEPT !.at = "listed", !.todo = {Name[s]}] \in Cleaner
      BY <2>1 DEF Idle, Cleaner, CleanerPlaces
    <2>3. CleanerType'
      BY <1>1, <1>6, <2>1, <2>2 DEF stop, CleanerType
    <2>4. QED BY <1>1, <1>6, <2>3, NextTypeParts
              DEF stop, RunnerType, ChildType, FileType, procVars, fileVars
  <1>7. QED BY <1>2, <1>3, <1>4, <1>5, <1>6

LEMMA CleanupType ==
    ASSUME TypeOK, NEW c \in Cleaners, Cleanup(c)
    PROVE  TypeOK'
  <1>1. RunnerType /\ ChildType /\ FileType /\ CleanerType
    BY TypeParts
  <1>2. cleaner[c] \in Cleaner
    BY <1>1 DEF CleanerType
  <1>3. ASSUME UNCHANGED <<connected, procVars, fileVars>>, CleanerType'
        PROVE  TypeOK'
    BY <1>1, <1>3, NextTypeParts DEF RunnerType, ChildType, FileType, procVars, fileVars
  <1>4. ASSUME NEW n \in Names, look(c, n)
        PROVE  TypeOK'
    <2> DEFINE tree == IF pidfile[n] \in Sessions THEN Tree(pidfile[n]) ELSE {}
               rest == [cleaner[c] EXCEPT !.todo = @ \ {n}]
    <2>1. tree \in SUBSET Processes
      BY DEF Tree, Processes
    <2>2. rest \in Cleaner
      BY <1>2 DEF Cleaner
    <2>3. [rest EXCEPT !.at = IF tree = {} THEN "unlinking" ELSE "terming",
                       !.name = n, !.targets = tree, !.left = tree] \in Cleaner
      <3> HIDE DEF rest, tree
      <3>1. QED BY <2>1, <2>2 DEF Cleaner, CleanerPlaces
    <2>4. CleanerType'
      BY <1>1, <1>4, <2>2, <2>3 DEF look, CleanerType
    <2>5. QED BY <1>3, <1>4, <2>4 DEF look
  <1>5. ASSUME NEW p \in Processes, NEW from, Strikes(c, from, p)
        PROVE  CleanerType'
    BY <1>1, <1>2, <1>5 DEF Strikes, CleanerType, Cleaner
  <1>6. ASSUME NEW p \in Processes, term_target(c, p)
        PROVE  TypeOK'
    <2>1. CleanerType' /\ FileType'
      BY <1>1, <1>5, <1>6 DEF term_target, FileType, fileVars
    <2>2. p[1] \in Sessions /\ (p[2] # "runner" => p \in Sessions \X Children)
      BY DEF Processes
    <2>3. RunnerType'
      BY <1>1, <1>6, <2>2, TermRunnerType DEF term_target, RunnerType
    <2>4. ChildType'
      <3>1. CASE p[2] = "runner"
        BY <1>1, <1>6, <3>1 DEF term_target, ChildType
      <3>2. CASE p[2] # "runner"
        <4>1. alive' \subseteq alive /\ ending' \subseteq ending \cup {p[1]} /\ UNCHANGED knows
          BY <1>6, <3>2 DEF term_target, AfterTerm
        <4>2. QED BY <1>1, <2>2, <4>1 DEF ChildType
      <3>3. QED BY <3>1, <3>2
    <2>5. QED BY <2>1, <2>3, <2>4, NextTypeParts
  <1>7. CASE grace_ends(c) \/ kill_ends(c) \/ loop_ends(c)
    <2>1. CleanerType'
      BY <1>1, <1>2, <1>7 DEF grace_ends, kill_ends, loop_ends, CleanerType, Cleaner, CleanerPlaces
    <2>2. QED BY <1>3, <1>7, <2>1 DEF grace_ends, kill_ends, loop_ends
  <1>8. ASSUME NEW p \in Processes, kill_target(c, p)
        PROVE  TypeOK'
    <2>1. CleanerType' /\ FileType'
      BY <1>1, <1>5, <1>8 DEF kill_target, FileType, fileVars
    <2>2. ChildType'
      BY <1>1, <1>8 DEF kill_target, ChildType
    <2>3. RunnerType'
      <3>1. "killed" \in Places
        BY DEF Places, Finished
      <3>2. QED BY <1>1, <1>8, <3>1 DEF kill_target, RunnerType
    <2>4. QED BY <2>1, <2>2, <2>3, NextTypeParts
  <1>9. CASE unlink(c)
    <2>1. cleaner[c].name \in Names \cup {NoFile}
      BY <1>2 DEF Cleaner
    <2>2. FileType'
      BY <1>1, <1>9, <2>1 DEF unlink, FileType
    <2>3. CleanerType'
      BY <1>1, <1>2, <1>9 DEF unlink, CleanerType, Cleaner, CleanerPlaces
    <2>4. QED BY <1>1, <1>9, <2>2, <2>3, NextTypeParts
              DEF unlink, RunnerType, ChildType, procVars
  <1>10. QED BY <1>4, <1>6, <1>7, <1>8, <1>9 DEF Cleanup

(* The types hold for any number of sessions, of any names.                *)
THEOREM TypeCorrect == Spec => []TypeOK
  <1>1. TypeOK /\ UNCHANGED vars => TypeOK'
    BY TypeParts, NextTypeParts DEF vars, procVars, fileVars, RunnerType, ChildType, FileType, CleanerType
  <1>2. TypeOK /\ Next => TypeOK'
    BY InstallType, ScriptType, OtherType, CleanupType DEF Next
  <1>3. QED BY <1>1, <1>2, InitType, PTL DEF Spec

-----------------------------------------------------------------------------
(* What a runner at the end of its own cleanup() leaves.                   *)

(* The places of cleanup() after a command of it.                          *)
AfterTtl == {"stop_watcher", "stop_tracer", "reaping", "removing", "unlinking", "exited"}
AfterWatcher == {"stop_tracer", "reaping", "removing", "unlinking", "exited"}
AfterTracer == {"removing", "unlinking", "exited"}
AfterScript == {"unlinking", "exited"}

Gone(s, k) == k \in knows[s] => Kid(s, k) \notin alive
CleanUpTo(s) ==
    /\ runner[s] \in AfterTtl => Gone(s, "ttl")
    /\ runner[s] \in AfterWatcher => Gone(s, "watcher")
    /\ runner[s] \in AfterTracer => Gone(s, "tracer")
    /\ runner[s] \in AfterScript /\ OwnName(s) => Name[s] \notin script
    /\ runner[s] = "exited" => pidfile[Name[s]] # s
CleanInv == \A s \in Sessions : CleanUpTo(s)

(* A step that neither moves a runner nor gives it anything new.           *)
LEMMA CleanKept ==
    ASSUME NEW s \in Sessions, CleanUpTo(s), runner'[s] \in {runner[s], "killed"},
           knows'[s] = knows[s],
           \A k \in Children : Kid(s, k) \in alive' => Kid(s, k) \in alive,
           OwnName(s) /\ Name[s] \in script' => Name[s] \in script,
           pidfile'[Name[s]] = s => pidfile[Name[s]] = s
    PROVE  CleanUpTo(s)'
  <1>1. "killed" \notin AfterTtl \cup AfterWatcher \cup AfterTracer \cup AfterScript
    BY DEF AfterTtl, AfterWatcher, AfterTracer, AfterScript
  <1>2. \A k \in Children : Gone(s, k) => Gone(s, k)'
    BY DEF Gone, Kid
  <1>3. {"ttl", "watcher", "tracer"} = Children
    BY DEF Children
  <1>4. runner'[s] \in AfterScript /\ OwnName(s) => Name[s] \notin script'
    BY <1>1 DEF CleanUpTo
  <1>5. QED BY <1>1, <1>2, <1>3, <1>4 DEF CleanUpTo, OwnName

(* A runner that is not in cleanup() yet has nothing to show.              *)
LEMMA CleanEarly ==
    ASSUME NEW s \in Sessions, runner'[s] \notin AfterTtl
    PROVE  CleanUpTo(s)'
  BY DEF CleanUpTo, AfterTtl, AfterWatcher, AfterTracer, AfterScript

(* A step of a script leaves the other sessions what they have cleaned.    *)
LEMMA CleanOthers ==
    ASSUME TypeOK, NEW s \in Sessions, NEW t \in Sessions, t # s, CleanUpTo(s),
           Script(t)
    PROVE  CleanUpTo(s)'
  <1>1. runner'[s] = runner[s]
    BY DEF TypeOK, Script, cleaned, write_script, launch, open_pidfile, write_pidfile,
       set_trap, echo, start_watcher, store_watcher, check, start_ttl, store_ttl,
       start_tracer, store_tracer, tracer_waited, enter_cleanup, stop_ttl, stop_watcher,
       stop_tracer, reap_tracer, remove_script, remove_pidfile, Spawns, Stores, Terms,
       Says, Command
  <1>2. knows'[s] = knows[s]
    BY DEF TypeOK, Script, cleaned, write_script, launch, open_pidfile, write_pidfile,
       set_trap, echo, start_watcher, store_watcher, check, start_ttl, store_ttl,
       start_tracer, store_tracer, tracer_waited, enter_cleanup, stop_ttl, stop_watcher,
       stop_tracer, reap_tracer, remove_script, remove_pidfile, Spawns, Stores, Terms
  <1>3. \A k \in Children : Kid(s, k) \in alive' => Kid(s, k) \in alive
    BY DEF Kid, Script, cleaned, write_script, launch, open_pidfile, write_pidfile,
       set_trap, echo, start_watcher, store_watcher, check, start_ttl, store_ttl,
       start_tracer, store_tracer, tracer_waited, enter_cleanup, stop_ttl, stop_watcher,
       stop_tracer, reap_tracer, remove_script, remove_pidfile, Spawns, Stores, Terms,
       AfterTerm
  <1>4. script' \subseteq script \cup {Name[t]}
    BY DEF Script, cleaned, write_script, launch, open_pidfile, write_pidfile,
       set_trap, echo, start_watcher, store_watcher, check, start_ttl, store_ttl,
       start_tracer, store_tracer, tracer_waited, enter_cleanup, stop_ttl, stop_watcher,
       stop_tracer, reap_tracer, remove_script, remove_pidfile, Spawns, Stores, Terms,
       fileVars
  <1>5. OwnName(s) /\ Name[s] \in script' => Name[s] \in script
    BY <1>4 DEF OwnName
  <1>6. \E v \in {NoFile, Empty, t} :
            pidfile' = pidfile \/ pidfile' = [pidfile EXCEPT ![Name[t]] = v]
    BY DEF TypeOK, Script, cleaned, write_script, launch, open_pidfile, write_pidfile,
       set_trap, echo, start_watcher, store_watcher, check, start_ttl, store_ttl,
       start_tracer, store_tracer, tracer_waited, enter_cleanup, stop_ttl, stop_watcher,
       stop_tracer, reap_tracer, remove_script, remove_pidfile, Spawns, Stores, Terms,
       fileVars
  <1>7. pidfile'[Name[s]] = s => pidfile[Name[s]] = s
    BY <1>6, NameOfSession, FileContents DEF TypeOK
  <1>8. QED BY <1>1, <1>2, <1>3, <1>5, <1>7, CleanKept

(* The script itself: each command of cleanup() adds its part.             *)
LEMMA CleanScript ==
    ASSUME TypeOK, NEW s \in Sessions, CleanUpTo(s), Script(s)
    PROVE  CleanUpTo(s)'
  <1>1. ASSUME NEW from, NEW to, to \notin AfterTtl, Command(s, from, to) \/ Says(s, from, to)
        PROVE  CleanUpTo(s)'
    <2>1. "killed" \notin AfterTtl /\ "exiting" \notin AfterTtl
      BY DEF AfterTtl
    <2>2. runner'[s] \notin AfterTtl
      BY <1>1, <2>1 DEF Says, Command, TypeOK
    <2>3. QED BY <2>2, CleanEarly
  <1>2. {"writing", "launching", "opening", "killed", "writing_pid", "trapping", "starting",
         "watching", "checking", "watched", "waiting", "exiting", "timing", "timed", "tracing",
         "traced", "reporting", "stop_ttl"} \cap AfterTtl = {}
    BY DEF AfterTtl
  <1>3. CASE cleaned(s) \/ write_script(s) \/ open_pidfile(s) \/ write_pidfile(s) \/ set_trap(s)
    BY <1>1, <1>2, <1>3 DEF cleaned, write_script, open_pidfile, write_pidfile, set_trap
  <1>4. CASE launch(s) \/ echo(s) \/ check(s) \/ tracer_waited(s)
    BY <1>1, <1>2, <1>4 DEF launch, echo, check, tracer_waited
  <1>5. CASE \/ start_watcher(s) \/ store_watcher(s) \/ start_ttl(s) \/ store_ttl(s)
             \/ start_tracer(s) \/ store_tracer(s)
    BY <1>1, <1>2, <1>5 DEF start_watcher, store_watcher, start_ttl, store_ttl,
       start_tracer, store_tracer, Spawns, Stores
  <1>6. CASE enter_cleanup(s)
    BY <1>2, <1>6, CleanEarly DEF enter_cleanup, TypeOK
  <1>7. ASSUME NEW k \in {"ttl", "watcher"}, NEW from, NEW to, Terms(s, from, to, k)
        PROVE  /\ Gone(s, k)'
               /\ \A j \in Children : Gone(s, j) => Gone(s, j)'
    BY <1>7 DEF Terms, AfterTerm, Gone, Kid
  <1>8. CASE stop_ttl(s)
    <2>1. runner[s] = "stop_ttl" /\ runner'[s] = "stop_watcher"
      BY <1>8 DEF stop_ttl, Terms, Command, TypeOK
    <2>2. QED BY <1>7, <1>8, <2>1
              DEF stop_ttl, CleanUpTo, AfterWatcher, AfterTracer, AfterScript
  <1>9. CASE stop_watcher(s)
    <2>1. runner[s] = "stop_watcher" /\ runner'[s] = "stop_tracer"
      BY <1>9 DEF stop_watcher, Terms, Command, TypeOK
    <2>2. "ttl" \in Children
      BY DEF Children
    <2>3. QED BY <1>7, <1>9, <2>1, <2>2
              DEF stop_watcher, CleanUpTo, AfterTtl, AfterTracer, AfterScript
  <1>10. CASE stop_tracer(s)
    <2>1. runner[s] = "stop_tracer" /\ runner'[s] = "reaping"
      BY <1>10 DEF stop_tracer, Terms, Command, TypeOK
    <2>2. Gone(s, "ttl")' /\ Gone(s, "watcher")'
      BY <1>10, <2>1
      DEF stop_tracer, Terms, AfterTerm, Gone, Kid, CleanUpTo, AfterTtl, AfterWatcher
    <2>3. QED BY <2>1, <2>2 DEF CleanUpTo, AfterTracer, AfterScript
  <1>11. CASE reap_tracer(s)
    <2>1. runner[s] = "reaping" /\ runner'[s] = "removing"
      BY <1>11 DEF reap_tracer, Command, TypeOK
    <2>2. Gone(s, "tracer")' /\ Gone(s, "ttl")' /\ Gone(s, "watcher")'
      BY <1>11, <2>1 DEF reap_tracer, Gone, CleanUpTo, AfterTtl, AfterWatcher
    <2>3. QED BY <2>1, <2>2 DEF CleanUpTo, AfterScript
  <1>12. CASE remove_script(s)
    <2>1. runner[s] = "removing" /\ runner'[s] = "unlinking"
      BY <1>12 DEF remove_script, Command, TypeOK
    <2>2. Gone(s, "tracer")' /\ Gone(s, "ttl")' /\ Gone(s, "watcher")'
      BY <1>12, <2>1 DEF remove_script, Gone, CleanUpTo, AfterTtl, AfterWatcher, AfterTracer
    <2>3. QED BY <1>12, <2>1, <2>2 DEF remove_script, CleanUpTo
  <1>13. CASE remove_pidfile(s)
    <2>1. runner[s] = "unlinking" /\ runner'[s] = "exited"
      BY <1>13 DEF remove_pidfile, Command, TypeOK
    <2>2. Gone(s, "tracer")' /\ Gone(s, "ttl")' /\ Gone(s, "watcher")'
      BY <1>13, <2>1 DEF remove_pidfile, Gone, CleanUpTo, AfterTtl, AfterWatcher, AfterTracer
    <2>3. pidfile'[Name[s]] # s
      BY <1>13, NameOfSession, FileContents DEF remove_pidfile, TypeOK
    <2>4. OwnName(s) => Name[s] \notin script'
      BY <1>13, <2>1 DEF remove_pidfile, CleanUpTo, AfterScript
    <2>5. QED BY <2>1, <2>2, <2>3, <2>4 DEF CleanUpTo, OwnName
  <1>14. QED
    BY <1>3, <1>4, <1>5, <1>6, <1>8, <1>9, <1>10, <1>11, <1>12, <1>13 DEF Script

(* The environment and the cleanups of others.                             *)
LEMMA CleanElse ==
    ASSUME TypeOK, NEW s \in Sessions, NEW t \in Sessions, CleanUpTo(s),
           \/ install(t) \/ close(t) \/ watcher_ends(t) \/ ttl_expires(t)
           \/ tracer_ends(t) \/ stop(t)
           \/ \E c \in Cleaners : Cleanup(c)
    PROVE  CleanUpTo(s)'
  <1>1. CASE install(t)
    <2>1. UNCHANGED <<knows, alive, script, pidfile>>
      BY <1>1 DEF install, fileVars
    <2>2. CASE t = s
      BY <1>1, <2>2, CleanEarly DEF install, AfterTtl, TypeOK
    <2>3. CASE t # s
      BY <1>1, <2>1, <2>3, CleanKept DEF install, TypeOK
    <2>4. QED BY <2>2, <2>3
  <1>2. CASE close(t) \/ stop(t)
    BY <1>2, CleanKept DEF close, stop, procVars, fileVars
  <1>3. CASE watcher_ends(t) \/ ttl_expires(t) \/ tracer_ends(t)
    <2>1. UNCHANGED <<knows, script, pidfile>> /\ alive' \subseteq alive
      BY <1>3 DEF watcher_ends, ttl_expires, tracer_ends, fileVars
    <2>2. runner'[s] \in {runner[s], "killed"}
      BY <1>3 DEF watcher_ends, ttl_expires, tracer_ends, TermRunner, TypeOK
    <2>3. QED BY <2>1, <2>2, CleanKept
  <1>4. ASSUME NEW c \in Cleaners, Cleanup(c)
        PROVE  CleanUpTo(s)'
    <2>1. UNCHANGED knows /\ alive' \subseteq alive /\ script' \subseteq script
      BY <1>4 DEF Cleanup, look, term_target, grace_ends, kill_target, kill_ends, unlink,
         loop_ends, AfterTerm, procVars, fileVars
    <2>2. runner'[s] \in {runner[s], "killed"}
      BY <1>4 DEF Cleanup, look, term_target, grace_ends, kill_target, kill_ends, unlink,
         loop_ends, TermRunner, TypeOK, procVars
    <2>3. pidfile' = pidfile \/ pidfile' = [pidfile EXCEPT ![cleaner[c].name] = NoFile]
      BY <1>4 DEF Cleanup, look, term_target, grace_ends, kill_target, kill_ends, unlink,
         loop_ends, fileVars
    <2>4. pidfile'[Name[s]] = s => pidfile[Name[s]] = s
      BY <2>3, NameOfSession, FileContents DEF TypeOK
    <2>5. QED BY <2>1, <2>2, <2>4, CleanKept
  <1>5. QED BY <1>1, <1>2, <1>3, <1>4

(* A runner that gets to the end of its own cleanup() leaves neither its   *)
(* files nor a process it knew of, whatever runs, signals, closed          *)
(* connections and cleanups came meanwhile.                                *)
THEOREM ExitIsClean == Spec => []CleanExit
  <1>1. Init => CleanInv
    BY DEF Init, CleanInv, CleanUpTo, AfterTtl, AfterWatcher, AfterTracer, AfterScript
  <1>2. TypeOK /\ CleanInv /\ [Next]_vars => CleanInv'
    <2> SUFFICES ASSUME TypeOK, CleanInv, [Next]_vars, NEW s \in Sessions
                 PROVE  CleanUpTo(s)'
      BY DEF CleanInv
    <2>1. CleanUpTo(s)
      BY DEF CleanInv
    <2>2. CASE UNCHANGED vars
      BY <2>1, <2>2, CleanKept DEF vars, procVars, fileVars
    <2>3. CASE Next
      BY <2>1, <2>3, CleanOthers, CleanScript, CleanElse DEF Next
    <2>4. QED BY <2>2, <2>3
  <1>3. CleanInv /\ TypeOK => CleanExit
    <2> SUFFICES ASSUME CleanInv, TypeOK, NEW s \in Sessions, runner[s] = "exited"
                 PROVE  /\ \A k \in knows[s] : Kid(s, k) \notin alive
                        /\ pidfile[Name[s]] # s
                        /\ OwnName(s) => Name[s] \notin script
      BY DEF CleanExit
    <2>1. \A k \in Children : Gone(s, k)
      BY DEF CleanInv, CleanUpTo, AfterTtl, AfterWatcher, AfterTracer, Children
    <2>2. knows[s] \subseteq Children
      BY DEF TypeOK
    <2>3. QED BY <2>1, <2>2 DEF Gone, CleanInv, CleanUpTo, AfterScript
  <1>4. QED BY <1>1, <1>2, <1>3, TypeCorrect, PTL DEF Spec

-----------------------------------------------------------------------------
(* What a cleanup from another connection leaves. A process that it has    *)
(* ended does not come back: the script starts each child once, and is     *)
(* past that place when the child is listed.                               *)

Before(k) ==
    {"none"} \cup Installing \cup
    (IF k = "runner" THEN {} ELSE
     Bare \cup {"starting", "watching"} \cup
     (IF k = "watcher" THEN {} ELSE
      {"watched", "checking", "timing"} \cup (IF k = "ttl" THEN {} ELSE {"timed", "tracing"})))
Born(p) == runner[p[1]] \notin Before(p[2])
BornInv ==
    /\ \A p \in alive : Born(p)
    /\ \A c \in Cleaners : \A p \in cleaner[c].targets : Born(p)
Struck(c) ==
    /\ cleaner[c].at = "killing" =>
           \A p \in cleaner[c].targets \ cleaner[c].left : ~Runs(p)
    /\ cleaner[c].at = "unlinking" => \A p \in cleaner[c].targets : ~Runs(p)

(* The script never goes back before the start of a child, and stops.      *)
LEMMA Forward ==
    ASSUME TypeOK, NEW s \in Sessions, Script(s), NEW k \in Children \cup {"runner"},
           runner[s] \notin Before(k)
    PROVE  runner'[s] \notin Before(k)
  <1>1. ASSUME NEW from, NEW to, Command(s, from, to)
        PROVE  runner[s] = from /\ runner'[s] = to
    BY <1>1 DEF Command, TypeOK
  <1>2. ASSUME NEW from, NEW to, Says(s, from, to)
        PROVE  runner[s] = from /\ runner'[s] \in {to, "killed", "exiting"}
    BY <1>1, <1>2 DEF Says
  <1>3. CASE cleaned(s) \/ write_script(s) \/ launch(s) \/ open_pidfile(s) \/ write_pidfile(s)
    BY <1>1, <1>2, <1>3
    DEF cleaned, write_script, launch, open_pidfile, write_pidfile, Before, Installing, Bare
  <1>4. CASE set_trap(s) \/ echo(s) \/ start_watcher(s) \/ store_watcher(s) \/ check(s)
    BY <1>1, <1>2, <1>4
    DEF set_trap, echo, start_watcher, store_watcher, check, Spawns, Stores, Before,
        Installing, Bare
  <1>5. CASE start_ttl(s) \/ store_ttl(s) \/ start_tracer(s) \/ store_tracer(s)
             \/ tracer_waited(s)
    BY <1>1, <1>2, <1>5
    DEF start_ttl, store_ttl, start_tracer, store_tracer, tracer_waited, Spawns, Stores,
        Before, Installing, Bare
  <1>6. CASE enter_cleanup(s)
    BY <1>6 DEF enter_cleanup, TypeOK, Before, Installing, Bare
  <1>7. CASE \/ stop_ttl(s) \/ stop_watcher(s) \/ stop_tracer(s) \/ reap_tracer(s)
             \/ remove_script(s) \/ remove_pidfile(s)
    BY <1>1, <1>7
    DEF stop_ttl, stop_watcher, stop_tracer, reap_tracer, remove_script, remove_pidfile,
        Terms, Before, Installing, Bare
  <1>8. QED BY <1>3, <1>4, <1>5, <1>6, <1>7 DEF Script

(* No step takes a process back before its start.                          *)
LEMMA BornKept ==
    ASSUME TypeOK, [Next]_vars, NEW p \in Processes, Born(p)
    PROVE  Born(p)'
  <1>1. p[1] \in Sessions /\ p[2] \in Children \cup {"runner"}
    BY DEF Processes
  <1>2. "killed" \notin Before(p[2]) /\ "none" \in Before(p[2])
    BY DEF Before, Installing, Bare
  <1>3. CASE runner'[p[1]] \in {runner[p[1]], "killed"}
    BY <1>2, <1>3 DEF Born
  <1>4. ASSUME NEW s \in Sessions, Script(s)
        PROVE  Born(p)'
    <2>1. CASE s = p[1]
      BY <1>1, <1>4, <2>1, Forward DEF Born
    <2>2. CASE s # p[1]
      <3>1. runner'[p[1]] = runner[p[1]]
        BY <1>1, <1>4, <2>2
        DEF TypeOK, Script, cleaned, write_script, launch, open_pidfile, write_pidfile,
            set_trap, echo, start_watcher, store_watcher, check, start_ttl, store_ttl,
            start_tracer, store_tracer, tracer_waited, enter_cleanup, stop_ttl, stop_watcher,
            stop_tracer, reap_tracer, remove_script, remove_pidfile, Spawns, Stores, Terms,
            Says, Command
      <3>2. QED BY <1>3, <3>1
    <2>3. QED BY <2>1, <2>2
  <1>5. ASSUME NEW s \in Sessions,
               install(s) \/ close(s) \/ watcher_ends(s) \/ ttl_expires(s) \/ tracer_ends(s)
               \/ stop(s)
        PROVE  runner'[p[1]] \in {runner[p[1]], "killed"} \/ runner[p[1]] = "none"
    BY <1>1, <1>5 DEF TypeOK, install, close, watcher_ends, ttl_expires, tracer_ends, stop,
       TermRunner, procVars
  <1>6. ASSUME NEW c \in Cleaners, Cleanup(c)
        PROVE  runner'[p[1]] \in {runner[p[1]], "killed"}
    BY <1>1, <1>6 DEF TypeOK, Cleanup, look, term_target, grace_ends, kill_target, kill_ends,
       unlink, loop_ends, TermRunner, procVars
  <1>7. CASE UNCHANGED vars
    BY <1>3, <1>7 DEF vars, procVars
  <1>8. QED BY <1>2, <1>3, <1>4, <1>5, <1>6, <1>7 DEF Next, Born

(* A process that has been started and runs no more never runs again.      *)
LEMMA DeadKept ==
    ASSUME TypeOK, [Next]_vars, NEW p \in Processes, Born(p), ~Runs(p)
    PROVE  ~Runs(p)'
  <1>1. p[1] \in Sessions /\ p = Kid(p[1], p[2])
    BY DEF Processes, Kid
  <1>2. CASE p[2] = "runner"
    <2>1. runner[p[1]] \in Finished
      BY <1>1, <1>2 DEF Born, Runs, Before, TypeOK, Places, Alive
    <2>2. {"exited", "killed"} \cap (Installing \cup Alive \cup {"none"}) = {}
          /\ Finished = {"exited", "killed"}
      BY DEF Finished, Alive, Installing, Bare, Trapped, CleaningUp
    <2>3. ASSUME NEW s \in Sessions, Script(s)
          PROVE  runner'[p[1]] = runner[p[1]]
      BY <1>1, <2>1, <2>2, <2>3
      DEF TypeOK, Script, cleaned, write_script, launch, open_pidfile, write_pidfile,
          set_trap, echo, start_watcher, store_watcher, check, start_ttl, store_ttl,
          start_tracer, store_tracer, tracer_waited, enter_cleanup, stop_ttl, stop_watcher,
          stop_tracer, reap_tracer, remove_script, remove_pidfile, Spawns, Stores, Terms,
          Says, Command, Trapped
    <2>4. ASSUME NEW s \in Sessions,
                 install(s) \/ close(s) \/ watcher_ends(s) \/ ttl_expires(s)
                 \/ tracer_ends(s) \/ stop(s)
          PROVE  runner'[p[1]] \in {runner[p[1]], "killed"}
      BY <1>1, <2>1, <2>2, <2>4 DEF TypeOK, install, close, watcher_ends, ttl_expires,
         tracer_ends, stop, TermRunner, procVars
    <2>5. ASSUME NEW c \in Cleaners, Cleanup(c)
          PROVE  runner'[p[1]] \in {runner[p[1]], "killed"}
      BY <1>1, <2>5 DEF TypeOK, Cleanup, look, term_target, grace_ends, kill_target,
         kill_ends, unlink, loop_ends, TermRunner, procVars
    <2>6. runner'[p[1]] \in Finished
      BY <2>1, <2>2, <2>3, <2>4, <2>5 DEF Next, vars, procVars
    <2>7. QED BY <1>2, <2>2, <2>6 DEF Runs
  <1>3. CASE p[2] # "runner"
    <2>1. p \notin alive
      BY <1>3 DEF Runs
    <2>2. ASSUME NEW s \in Sessions, Script(s)
          PROVE  p \notin alive'
      <3>1. ASSUME NEW from, NEW to, NEW k \in Children, Spawns(s, from, to, k),
                   from \in Before(k)
            PROVE  p \notin alive'
        <4>1. runner[s] = from
          BY <3>1 DEF Spawns, Command
        <4>2. p # Kid(s, k)
          BY <3>1, <4>1 DEF Born, Kid
        <4>3. QED BY <2>1, <3>1, <4>2 DEF Spawns
      <3>2. /\ {"watcher", "ttl", "tracer"} = Children
            /\ "watching" \in Before("watcher")
            /\ "timing" \in Before("ttl")
            /\ "tracing" \in Before("tracer")
        BY DEF Children, Before
      <3>3. CASE start_watcher(s) \/ start_ttl(s) \/ start_tracer(s)
        BY <3>1, <3>2, <3>3 DEF start_watcher, start_ttl, start_tracer
      <3>4. CASE ~(start_watcher(s) \/ start_ttl(s) \/ start_tracer(s))
        BY <2>1, <2>2, <3>4
        DEF Script, cleaned, write_script, launch, open_pidfile, write_pidfile, set_trap, echo,
            store_watcher, check, store_ttl, store_tracer, tracer_waited, enter_cleanup,
            stop_ttl, stop_watcher, stop_tracer, reap_tracer, remove_script, remove_pidfile,
            Stores, Terms, AfterTerm
      <3>5. QED BY <3>3, <3>4
    <2>3. ASSUME NEW s \in Sessions,
                 install(s) \/ close(s) \/ watcher_ends(s) \/ ttl_expires(s)
                 \/ tracer_ends(s) \/ stop(s)
          PROVE  p \notin alive'
      BY <2>1, <2>3 DEF install, close, watcher_ends, ttl_expires, tracer_ends, stop, procVars
    <2>4. ASSUME NEW c \in Cleaners, Cleanup(c)
          PROVE  p \notin alive'
      BY <2>1, <2>4 DEF Cleanup, look, term_target, grace_ends, kill_target, kill_ends,
         unlink, loop_ends, AfterTerm, procVars
    <2>5. p \notin alive'
      BY <2>1, <2>2, <2>3, <2>4 DEF Next, vars, procVars
    <2>6. QED BY <1>3, <2>5 DEF Runs
  <1>4. QED BY <1>2, <1>3

(* The start of a cleanup leaves the others as they are.                   *)
LEMMA CleanerBegins ==
    ASSUME TypeOK, NEW s \in Sessions, install(s) \/ stop(s), NEW c \in Cleaners
    PROVE  \/ cleaner'[c] = cleaner[c]
           \/ cleaner'[c].at = "listed" /\ cleaner'[c].targets = {}
  <1>1. ASSUME NEW d, NEW begun, begun.at = "listed", begun.targets = {},
               cleaner' = [cleaner EXCEPT ![d] = begun]
        PROVE  \/ cleaner'[c] = cleaner[c]
               \/ cleaner'[c].at = "listed" /\ cleaner'[c].targets = {}
    BY <1>1 DEF TypeOK
  <1>2. CASE install(s)
    <2> DEFINE begun == [Idle EXCEPT !.at = "listed", !.todo = {n \in Names : pidfile[n] # NoFile}]
    <2>1. begun.at = "listed" /\ begun.targets = {}
      BY DEF Idle
    <2>2. cleaner' = [cleaner EXCEPT ![[of |-> s, by |-> "install"]] = begun]
      BY <1>2 DEF install
    <2>3. QED
      <3> HIDE DEF begun
      <3>1. QED BY <1>1, <2>1, <2>2
  <1>3. CASE stop(s)
    <2> DEFINE begun == [Idle EXCEPT !.at = "listed", !.todo = {Name[s]}]
    <2>1. begun.at = "listed" /\ begun.targets = {}
      BY DEF Idle
    <2>2. cleaner' = [cleaner EXCEPT ![[of |-> s, by |-> "stop"]] = begun]
      BY <1>3 DEF stop
    <2>3. QED
      <3> HIDE DEF begun
      <3>1. QED BY <1>1, <2>1, <2>2
  <1>4. QED BY <1>2, <1>3

(* A cleanup lists processes that run, and so have been started.           *)
LEMMA TargetsBorn ==
    ASSUME TypeOK, BornInv, [Next]_vars, NEW c \in Cleaners,
           NEW p \in cleaner'[c].targets
    PROVE  p \in Processes /\ Born(p)
  <1>1. cleaner[c] \in Cleaner
    BY DEF TypeOK
  <1>2. CASE p \in cleaner[c].targets
    BY <1>1, <1>2 DEF BornInv, Cleaner
  <1>3. CASE p \notin cleaner[c].targets
    <2>1. \E n \in Names : look(c, n)
      <3>1. ASSUME cleaner'[c].targets = {} \/ cleaner'[c] = cleaner[c]
            PROVE  FALSE
        BY <1>3, <3>1
      <3>2. ASSUME NEW s \in Sessions, install(s) \/ stop(s)
            PROVE  FALSE
        BY <3>1, <3>2, CleanerBegins
      <3>3. ASSUME NEW s \in Sessions,
                   close(s) \/ watcher_ends(s) \/ ttl_expires(s) \/ tracer_ends(s)
            PROVE  FALSE
        BY <3>1, <3>3 DEF close, watcher_ends, ttl_expires, tracer_ends
      <3>4. ASSUME NEW s \in Sessions, Script(s)
            PROVE  UNCHANGED cleaner
        BY <3>4
        DEF Script, cleaned, write_script, launch, open_pidfile, write_pidfile, set_trap, echo,
            start_watcher, store_watcher, check, start_ttl, store_ttl, start_tracer,
            store_tracer, tracer_waited, enter_cleanup, stop_ttl, stop_watcher, stop_tracer,
            reap_tracer, remove_script, remove_pidfile, Spawns, Stores, Terms, Says, Command
      <3>5. ASSUME NEW d \in Cleaners, Cleanup(d), d # c
            PROVE  FALSE
        BY <3>1, <3>5 DEF Cleanup, look, term_target, Strikes, grace_ends, kill_target,
           kill_ends, unlink, loop_ends, TypeOK
      <3>6. ASSUME Cleanup(c), ~\E n \in Names : look(c, n)
            PROVE  FALSE
        <4>1. CASE unlink(c)
          BY <1>1, <3>1, <4>1 DEF unlink, TypeOK, Cleaner
        <4>2. CASE grace_ends(c) \/ kill_ends(c) \/ loop_ends(c)
          BY <1>1, <1>3, <4>2 DEF grace_ends, kill_ends, loop_ends, TypeOK, Cleaner
        <4>3. ASSUME NEW q \in Processes, NEW from, Strikes(c, from, q)
              PROVE  FALSE
          BY <1>1, <1>3, <4>3 DEF Strikes, TypeOK, Cleaner
        <4>4. QED BY <3>6, <4>1, <4>2, <4>3 DEF Cleanup, term_target, kill_target
      <3>7. QED BY <3>1, <3>2, <3>3, <3>4, <3>5, <3>6 DEF Next, vars
    <2>2. PICK n \in Names : look(c, n)
      BY <2>1
    <2>3. pidfile[n] \in Sessions /\ p \in Tree(pidfile[n])
      <3> DEFINE tree == IF pidfile[n] \in Sessions THEN Tree(pidfile[n]) ELSE {}
      <3>1. cleaner'[c].targets = cleaner[c].targets \/ cleaner'[c].targets = tree
        <4> HIDE DEF tree
        <4>1. QED BY <1>1, <2>2 DEF look, TypeOK, Cleaner, tree
      <3>2. QED BY <1>3, <3>1
    <2>4. p \in Processes /\ Runs(p)
      BY <2>3 DEF Tree, Processes
    <2>5. CASE p[2] = "runner"
      <3>1. Alive \cap Before("runner") = {}
        BY DEF Alive, Bare, Trapped, CleaningUp, Before, Installing
      <3>2. QED BY <2>4, <2>5, <3>1 DEF Runs, Born
    <2>6. CASE p[2] # "runner"
      BY <2>4, <2>6 DEF Runs, BornInv
    <2>7. QED BY <2>4, <2>5, <2>6
  <1>4. QED BY <1>2, <1>3

LEMMA BornStep ==
    ASSUME TypeOK, BornInv, [Next]_vars
    PROVE  BornInv'
  <1>1. ASSUME NEW p \in alive'
        PROVE  Born(p)'
    <2>1. CASE p \in alive
      BY <2>1, BornKept DEF BornInv, TypeOK, Processes
    <2>2. CASE p \notin alive
      <3>1. PICK s \in Sessions : start_watcher(s) \/ start_ttl(s) \/ start_tracer(s)
        <4>1. ASSUME NEW s \in Sessions, Script(s),
                     ~(start_watcher(s) \/ start_ttl(s) \/ start_tracer(s))
              PROVE  alive' \subseteq alive
          BY <4>1
          DEF Script, cleaned, write_script, launch, open_pidfile, write_pidfile, set_trap,
              echo, store_watcher, check, store_ttl, store_tracer, tracer_waited,
              enter_cleanup, stop_ttl, stop_watcher, stop_tracer, reap_tracer, remove_script,
              remove_pidfile, Stores, Terms, AfterTerm
        <4>2. ASSUME NEW s \in Sessions,
                     install(s) \/ close(s) \/ watcher_ends(s) \/ ttl_expires(s)
                     \/ tracer_ends(s) \/ stop(s)
              PROVE  alive' \subseteq alive
          BY <4>2 DEF install, close, watcher_ends, ttl_expires, tracer_ends, stop, procVars
        <4>3. ASSUME NEW c \in Cleaners, Cleanup(c)
              PROVE  alive' \subseteq alive
          BY <4>3 DEF Cleanup, look, term_target, grace_ends, kill_target, kill_ends,
             unlink, loop_ends, AfterTerm, procVars
        <4>4. QED BY <2>2, <4>1, <4>2, <4>3 DEF Next, vars, procVars
      <3>2. ASSUME NEW from, NEW to, NEW k, Spawns(s, from, to, k), to \notin Before(k)
            PROVE  Born(p)'
        BY <2>2, <3>2 DEF Spawns, Command, Born, Kid, TypeOK
      <3>3. /\ "watched" \notin Before("watcher")
            /\ "timed" \notin Before("ttl")
            /\ "traced" \notin Before("tracer")
        BY DEF Before, Installing, Bare
      <3>4. QED BY <3>1, <3>2, <3>3 DEF start_watcher, start_ttl, start_tracer
    <2>3. QED BY <2>1, <2>2
  <1>2. ASSUME NEW c \in Cleaners, NEW p \in cleaner'[c].targets
        PROVE  Born(p)'
    BY TargetsBorn, BornKept
  <1>3. QED BY <1>1, <1>2 DEF BornInv

LEMMA StruckStep ==
    ASSUME TypeOK, BornInv, [Next]_vars, NEW c \in Cleaners, Struck(c)
    PROVE  Struck(c)'
  <1>1. cleaner[c] \in Cleaner
    BY DEF TypeOK
  <1>2. ASSUME NEW p \in cleaner[c].targets, ~Runs(p)
        PROVE  ~Runs(p)'
    BY <1>1, <1>2, DeadKept DEF BornInv, Cleaner
  <1>3. CASE cleaner'[c] = cleaner[c]
    BY <1>2, <1>3 DEF Struck
  <1>4. CASE cleaner'[c].at \notin {"killing", "unlinking"} \/ cleaner'[c].targets = {}
    BY <1>4 DEF Struck
  <1>5. ASSUME NEW s \in Sessions, install(s) \/ stop(s)
        PROVE  cleaner'[c] = cleaner[c] \/ cleaner'[c].at = "listed"
    BY <1>5, CleanerBegins
  <1>6. ASSUME NEW s \in Sessions, Script(s)
        PROVE  UNCHANGED cleaner
    BY <1>6
    DEF Script, cleaned, write_script, launch, open_pidfile, write_pidfile, set_trap, echo,
        start_watcher, store_watcher, check, start_ttl, store_ttl, start_tracer,
        store_tracer, tracer_waited, enter_cleanup, stop_ttl, stop_watcher, stop_tracer,
        reap_tracer, remove_script, remove_pidfile, Spawns, Stores, Terms, Says, Command
  <1>7. ASSUME NEW d \in Cleaners, Cleanup(d), d # c
        PROVE  cleaner'[c] = cleaner[c]
    BY <1>7 DEF Cleanup, look, term_target, Strikes, grace_ends, kill_target, kill_ends,
       unlink, loop_ends, TypeOK
  <1>8. ASSUME NEW n \in Names, look(c, n)
        PROVE  Struck(c)'
    <2> DEFINE tree == IF pidfile[n] \in Sessions THEN Tree(pidfile[n]) ELSE {}
    <2>1. \/ cleaner'[c].at \in {"listed", "terming"}
          \/ cleaner'[c].targets = {}
      <3> HIDE DEF tree
      <3>1. QED BY <1>1, <1>8 DEF look, TypeOK, Cleaner, tree
    <2>2. QED BY <1>4, <2>1
  <1>9. ASSUME NEW p \in Processes, term_target(c, p)
        PROVE  cleaner'[c].at = "terming"
    BY <1>1, <1>9 DEF term_target, Strikes, TypeOK, Cleaner
  <1>10. CASE grace_ends(c)
    BY <1>1, <1>10 DEF grace_ends, TypeOK, Cleaner, Struck
  <1>11. ASSUME NEW p \in Processes, kill_target(c, p)
         PROVE  Struck(c)'
    <2>1. /\ cleaner[c].at = "killing" /\ cleaner'[c].at = "killing"
          /\ cleaner'[c].targets = cleaner[c].targets
          /\ cleaner'[c].left = cleaner[c].left \ {p}
      BY <1>1, <1>11 DEF kill_target, Strikes, TypeOK, Cleaner
    <2>2. ~Runs(p)'
      <3>1. "killed" \notin Alive /\ p[1] \in Sessions
        BY DEF Alive, Bare, Trapped, CleaningUp, Processes
      <3>2. QED BY <1>11, <3>1 DEF kill_target, Runs, TypeOK
    <2>3. QED BY <1>2, <2>1, <2>2 DEF Struck
  <1>12. CASE kill_ends(c)
    <2>1. /\ cleaner[c].at = "killing" /\ cleaner[c].left = {}
          /\ cleaner'[c].at = "unlinking"
          /\ cleaner'[c].targets = cleaner[c].targets
      BY <1>1, <1>12 DEF kill_ends, TypeOK, Cleaner
    <2>2. QED BY <1>2, <2>1 DEF Struck
  <1>13. CASE unlink(c) \/ loop_ends(c)
    BY <1>1, <1>4, <1>13 DEF unlink, loop_ends, TypeOK, Cleaner
  <1>14. ASSUME NEW s \in Sessions,
                close(s) \/ watcher_ends(s) \/ ttl_expires(s) \/ tracer_ends(s)
         PROVE  UNCHANGED cleaner
    BY <1>14 DEF close, watcher_ends, ttl_expires, tracer_ends
  <1>15. CASE Cleanup(c)
    BY <1>4, <1>8, <1>9, <1>10, <1>11, <1>12, <1>13, <1>15 DEF Cleanup
  <1>16. QED
    BY <1>3, <1>4, <1>5, <1>6, <1>7, <1>14, <1>15 DEF Next, vars

(* A cleanup that removes a pidfile has ended every process of the tree it *)
(* listed.                                                                 *)
THEOREM CleanupEnds == Spec => []CleanedTree
  <1> DEFINE Inv == BornInv /\ \A c \in Cleaners : Struck(c)
  <1>1. Init => Inv
    BY DEF Init, BornInv, Struck, Idle
  <1>2. TypeOK /\ Inv /\ [Next]_vars => Inv'
    BY BornStep, StruckStep
  <1>3. Inv => CleanedTree
    BY DEF CleanedTree, Struck
  <1>4. QED BY <1>1, <1>2, <1>3, TypeCorrect, PTL DEF Spec
=============================================================================
