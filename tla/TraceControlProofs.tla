------------------------ MODULE TraceControlProofs --------------------------
(***************************************************************************)
(* Theorems about TraceControl, for any hosts, client hosts and client     *)
(* sources and any bounds.                                                 *)
(***************************************************************************)
EXTENDS TraceControl, FiniteSetTheorems, SequenceTheorems, TLAPS

USE DEF Osd

-----------------------------------------------------------------------------
(* The channel.                                                            *)

(* Sending puts a message behind those that wait.                          *)
LEMMA Sending ==
    ASSUME chan \in Seq(Messages), NEW m \in Messages, chan' = Append(chan, m)
    PROVE  /\ chan' \in Seq(Messages)
           /\ Len(chan) \in Nat
           /\ Len(chan') = Len(chan) + 1
           /\ \A i \in 1..Len(chan) : chan'[i] = chan[i]
           /\ chan'[Len(chan) + 1] = m
  OBVIOUS

(* Receiving takes the first message and moves the others up.              *)
LEMMA Receiving ==
    ASSUME chan \in Seq(Messages), chan # <<>>, chan' = Tail(chan)
    PROVE  /\ chan' \in Seq(Messages)
           /\ Len(chan) \in Nat \ {0}
           /\ Len(chan') = Len(chan) - 1
           /\ \A i \in 1..Len(chan') : chan'[i] = chan[i + 1]
           /\ Head(chan) = chan[1]
           /\ Head(chan) \in Messages
  BY HeadTailProperties, EmptySeq

(* The workers a source gets are well typed, and so is what they send.     *)
LEMMA WorkersType ==
    ASSUME NEW s \in Sources, NEW arc \in 1..MaxArcs,
           NEW on \in SUBSET (Hosts \cup ClientHosts)
    PROVE  WorkersOf(s, arc, on) \subseteq Workers
  BY DEF WorkersOf, Workers

LEMMA MessageTypes ==
    /\ \A w \in Workers : Done(w) \in Messages /\ Line(w) \in Messages
    /\ Installed \in Messages
    /\ \A m \in Messages : m.type \in {"line", "done"} => m.from \in Workers
  BY DEF Done, Line, Installed, Messages

LEMMA HostsOfType ==
    ASSUME TypeOK, NEW s \in Sources
    PROVE  /\ HostsOf(s) \in SUBSET (Hosts \cup ClientHosts)
           /\ IsFiniteSet(HostsOf(s))
           /\ Cardinality(HostsOf(s)) \in Nat
  BY FiniteHosts, FS_Subset, FS_CardinalityType DEF TypeOK, HostsOf

LEMMA TargetsType ==
    ASSUME TypeOK, NEW S \in SUBSET Sources
    PROVE  UNION {CleanupTargets(s) : s \in S} \in SUBSET Workers
  <1>1. ASSUME NEW s \in S PROVE CleanupTargets(s) \subseteq Workers
    <2>1. CASE session[s] = NoSession
      BY <2>1 DEF CleanupTargets
    <2>2. CASE session[s] # NoSession
      <3>1. session[s] \in 1..MaxArcs
        BY <2>2, Bounds DEF TypeOK, NoSession
      <3>2. WorkersOf(s, session[s], HostsOf(s)) \subseteq Workers
        BY <3>1, HostsOfType, WorkersType
      <3>3. QED BY <2>2, <3>2 DEF CleanupTargets
    <2>3. QED BY <2>1, <2>2
  <1>2. QED BY <1>1

-----------------------------------------------------------------------------
(* Type correctness.                                                       *)

LEMMA StartType ==
    ASSUME TypeOK, NEW S \in SUBSET Sources, start_sources(S)
    PROVE  /\ active' \in [Sources -> Nat]
           /\ session' \in [Sources -> 0..MaxArcs]
           /\ current' \in [Sources -> 0..MaxArcs]
           /\ following' \in BOOLEAN
           /\ view' \in [Sources -> SUBSET (1..MaxArcs)]
           /\ arcs' \in 0..MaxArcs
           /\ stopped' \in SUBSET (Sources \X (0..MaxArcs))
           /\ asked' \in SUBSET Workers
           /\ live' \in SUBSET Workers
  <1> DEFINE go == Startable(S)
  <1>1. go \subseteq Sources
    BY DEF Startable
  <1>2. go # {} => arcs + 1 \in 1..MaxArcs
    BY Bounds DEF TypeOK, start_sources
  <1>3. \A s \in go : WorkersOf(s, arcs + 1, HostsOf(s)) \subseteq Workers
    BY <1>1, <1>2, WorkersType, HostsOfType
  <1>4. live' \in SUBSET Workers
    BY <1>3 DEF TypeOK, start_sources
  <1>5. active' \in [Sources -> Nat]
    BY HostsOfType DEF TypeOK, start_sources
  <1>6. session' \in [Sources -> 0..MaxArcs] /\ current' \in [Sources -> 0..MaxArcs]
    BY <1>2, Bounds DEF TypeOK, start_sources
  <1>7. arcs' \in 0..MaxArcs
    BY <1>2, Bounds DEF TypeOK, start_sources
  <1>8. stopped' \in SUBSET (Sources \X (0..MaxArcs))
    BY <1>1 DEF TypeOK, start_sources, RaisedByStart
  <1>9. QED
    BY <1>4, <1>5, <1>6, <1>7, <1>8 DEF TypeOK, start_sources, ViewAfterStart

LEMMA StopType ==
    ASSUME TypeOK, NEW S \in SUBSET Sources
    PROVE  stopped \cup RaisedByStop(S) \in SUBSET (Sources \X (0..MaxArcs))
  BY DEF TypeOK, RaisedByStop

LEMMA InitType == Init => TypeOK
  <1> SUFFICES ASSUME Init PROVE TypeOK
    OBVIOUS
  <1>1. stage \in {"opening", "live", "quitting"} /\ pending \in Actions
    BY DEF Init, Actions
  <1>2. 0 \in 0..MaxArcs
    BY Bounds
  <1>3. /\ active \in [Sources -> Nat]
        /\ session \in [Sources -> 0..MaxArcs]
        /\ current \in [Sources -> 0..MaxArcs]
        /\ view \in [Sources -> SUBSET (1..MaxArcs)]
    BY <1>2 DEF Init, NoSession
  <1>4. chan \in Seq(Messages)
    BY EmptySeq DEF Init
  <1>5. QED
    BY <1>1, <1>2, <1>3, <1>4 DEF Init, TypeOK

LEMMA NextType == TypeOK /\ [Next]_vars => TypeOK'
  <1> SUFFICES ASSUME TypeOK, [Next]_vars PROVE TypeOK'
    OBVIOUS
  <1>1. ASSUME NEW auto \in BOOLEAN, start_live_app(auto) PROVE TypeOK'
    <2>1. PICK S \in SUBSET Sources : start_sources(S)
      BY <1>1 DEF start_live_app, Sources
    <2>2. QED BY <1>1, <2>1, StartType DEF start_live_app, TypeOK
  <1>2. ASSUME NEW s \in Sources, request_source(s) PROVE TypeOK'
    BY <1>2 DEF request_source, TypeOK, Actions, runVars, threadVars
  <1>3. CASE request_all
    BY <1>3 DEF request_all, TypeOK, Actions, runVars, threadVars
  <1>4. CASE deny_trace_action
    BY <1>4 DEF deny_trace_action, TypeOK, Actions, runVars, threadVars
  <1>5. CASE execute_trace_action
    <2>1. pending.on \in SUBSET Sources
      BY <1>5 DEF execute_trace_action, TypeOK, Actions
    <2>2. pending' \in Actions
      BY <1>5 DEF execute_trace_action, Actions
    <2>3. CASE start_sources(pending.on)
      BY <1>5, <2>1, <2>2, <2>3, StartType DEF execute_trace_action, TypeOK
    <2>4. CASE stop_sources(pending.on)
      <3>1. /\ stopped' \in SUBSET (Sources \X (0..MaxArcs))
            /\ asked' \in SUBSET Workers
        BY <2>1, <2>4, StopType, TargetsType DEF stop_sources, TypeOK
      <3>2. session' \in [Sources -> 0..MaxArcs] /\ following' \in BOOLEAN
        BY <2>4, Bounds DEF stop_sources, TypeOK, NoSession
      <3>3. QED
        BY <1>5, <2>2, <2>4, <3>1, <3>2 DEF execute_trace_action, stop_sources, TypeOK
    <2>5. QED BY <1>5, <2>3, <2>4 DEF execute_trace_action
  <1>6. CASE spawn_trace_install
    <2>1. Cardinality(hosts) \in Nat
      BY HostsOfType DEF HostsOf, Sources
    <2>2. active' = [active EXCEPT ![Osd] = Cardinality(hosts)]
      BY <1>6 DEF spawn_trace_install
    <2>3. active \in [Sources -> Nat] /\ installing' \in Nat
      BY <1>6 DEF spawn_trace_install, TypeOK
    <2>4. active' \in [Sources -> Nat]
      BY <2>1, <2>2, <2>3
    <2>5. QED BY <1>6, <2>3, <2>4 DEF spawn_trace_install, TypeOK, loopVars
  <1>7. CASE clear_captured
    BY <1>7 DEF clear_captured, TypeOK, loopVars, threadVars
  <1>8. ASSUME NEW newHosts \in (SUBSET Hosts) \ {{}}, persist_and_apply_config(newHosts)
        PROVE  TypeOK'
    <2>1. /\ stopped' \in SUBSET (Sources \X (0..MaxArcs))
          /\ asked' \in SUBSET Workers
      BY <1>8, StopType, TargetsType DEF persist_and_apply_config, TypeOK
    <2>2. arcs' \in 0..MaxArcs /\ 0 \in 0..MaxArcs
      BY <1>8, Bounds DEF persist_and_apply_config, TypeOK
    <2>3. /\ active' \in [Sources -> Nat]
          /\ session' \in [Sources -> 0..MaxArcs]
          /\ current' \in [Sources -> 0..MaxArcs]
      BY <1>8, <2>2 DEF persist_and_apply_config, TypeOK, NoSession
    <2>4. QED
      BY <1>8, <2>1, <2>2, <2>3 DEF persist_and_apply_config, TypeOK, threadVars
  <1>9. CASE begin_shutdown
    BY <1>9, StopType, TargetsType DEF begin_shutdown, TypeOK, threadVars
  <1>10. ASSUME NEW w \in live, worker_line(w) PROVE TypeOK'
    BY <1>10, Sending, MessageTypes DEF worker_line, TypeOK, loopVars, runVars
  <1>11. ASSUME NEW w \in live, worker_done(w) PROVE TypeOK'
    BY <1>11, Sending, MessageTypes DEF worker_done, TypeOK, loopVars, runVars
  <1>12. CASE install_reports
    BY <1>12, Sending, MessageTypes DEF install_reports, TypeOK, loopVars, runVars
  <1>13. CASE receive_line
    <2>1. Head(chan).from.src \in Sources /\ Head(chan).from.arc \in 1..MaxArcs
      BY <1>13, Receiving, MessageTypes DEF receive_line, Receives, TypeOK, Workers
    <2>2. QED
      BY <1>13, <2>1, Receiving DEF receive_line, Receives, TypeOK, loopVars
  <1>14. CASE receive_done
    <2>1. Head(chan).from.src \in Sources
      BY <1>14, Receiving, MessageTypes DEF receive_done, Receives, TypeOK, Workers
    <2>2. Uncounted(Head(chan).from.src) \in Nat
      BY <2>1 DEF TypeOK, Uncounted
    <2>3. QED
      BY <1>14, <2>1, <2>2, Receiving, Bounds
      DEF receive_done, Receives, TypeOK, loopVars, SessionAfterDone, FollowingAfterDone, NoSession
  <1>15. CASE receive_install
    BY <1>15, Receiving DEF receive_install, Receives, AfterInstall, TypeOK, loopVars
  <1>16. CASE UNCHANGED vars
    BY <1>16 DEF vars, loopVars, runVars, threadVars, TypeOK
  <1>17. QED
    BY <1>1, <1>2, <1>3, <1>4, <1>5, <1>6, <1>7, <1>8, <1>9, <1>10, <1>11, <1>12, <1>13,
       <1>14, <1>15, <1>16
    DEF Next, MainLoop, Threads, Drain, worker_sees_stop, worker_exits

(* Every reachable state is well typed; in particular no counter of the    *)
(* App goes below zero, whatever "done" messages of earlier runs arrive.   *)
THEOREM TypeCorrect == Spec => []TypeOK
  BY InitType, NextType, PTL DEF Spec

-----------------------------------------------------------------------------
(* The kinds of steps that the invariants below tell apart.                *)

(* A step that starts sources, as an auto start or a confirmed action.     *)
Starts(S) == start_sources(S) /\ UNCHANGED <<hosts, installing, chan>>

(* A step that neither starts a worker nor hears one's "done".             *)
Quiet ==
    \/ \E S \in SUBSET Sources : stop_sources(S) /\ UNCHANGED <<hosts, threadVars>>
    \/ UNCHANGED <<hosts, runVars, threadVars>>
    \/ spawn_trace_install
    \/ clear_captured
    \/ \E newHosts \in (SUBSET Hosts) \ {{}} : persist_and_apply_config(newHosts)
    \/ begin_shutdown
    \/ \E w \in live : worker_line(w)
    \/ \E w \in live : worker_done(w)
    \/ install_reports
    \/ receive_line
    \/ receive_install

LEMMA Cases ==
    ASSUME TypeOK, [Next]_vars
    PROVE  (\E S \in SUBSET Sources : Starts(S)) \/ receive_done \/ Quiet
  <1>1. ASSUME NEW auto \in BOOLEAN, start_live_app(auto)
        PROVE  \E S \in SUBSET Sources : Starts(S)
    <2>1. (IF auto THEN {Osd} ELSE {}) \in SUBSET Sources
      BY DEF Sources
    <2>2. QED BY <1>1, <2>1 DEF start_live_app, Starts
  <1>2. CASE execute_trace_action
    <2>1. pending.on \in SUBSET Sources
      BY <1>2 DEF execute_trace_action, TypeOK, Actions
    <2>2. CASE start_sources(pending.on)
      BY <1>2, <2>1, <2>2 DEF execute_trace_action, Starts
    <2>3. CASE stop_sources(pending.on)
      <3>1. UNCHANGED <<hosts, threadVars>>
        BY <1>2, <2>3 DEF execute_trace_action, stop_sources, threadVars
      <3>2. QED BY <2>1, <2>3, <3>1 DEF Quiet
    <2>4. QED BY <1>2, <2>2, <2>3 DEF execute_trace_action
  <1>3. ASSUME \/ \E s \in Sources : request_source(s)
               \/ request_all \/ deny_trace_action \/ UNCHANGED vars
        PROVE  UNCHANGED <<hosts, runVars, threadVars>>
    BY <1>3 DEF request_source, request_all, deny_trace_action, vars, loopVars
  <1>4. QED
    BY <1>1, <1>2, <1>3
    DEF Quiet, Next, MainLoop, Threads, Drain, worker_sees_stop, worker_exits

-----------------------------------------------------------------------------
(* How the steps move the workers that are unheard of.                     *)

LEMMA MessageShape ==
    /\ \A m \in Messages : m.type = "done" => m = Done(m.from)
    /\ \A m \in Messages : m.type = "line" => m = Line(m.from)
    /\ \A m \in Messages : m.type = "install" => m = Installed
    /\ \A w : Done(w).type = "done" /\ Done(w).from = w
    /\ \A w : Line(w).type = "line" /\ Line(w).from = w
    /\ Installed.type = "install"
    /\ \A v, w : Done(v) = Done(w) => v = w
  BY DEF Messages, Done, Line, Installed

LEMMA SendWaits ==
    ASSUME chan \in Seq(Messages), NEW m \in Messages, chan' = Append(chan, m)
    PROVE  \A x : Waits(x)' <=> Waits(x) \/ x = m
  BY Sending DEF Waits

LEMMA ReceiveWaits ==
    ASSUME chan \in Seq(Messages), chan # <<>>, chan' = Tail(chan)
    PROVE  /\ \A x : Waits(x)' => Waits(x)
           /\ \A x : Waits(x) /\ x # Head(chan) => Waits(x)'
  <1>1. /\ Len(chan) \in Nat \ {0} /\ Head(chan) = chan[1]
        /\ Len(chan') = Len(chan) - 1
        /\ \A i \in 1..Len(chan') : chan'[i] = chan[i + 1]
    BY Receiving
  <1>2. ASSUME NEW x, Waits(x), x # Head(chan) PROVE Waits(x)'
    <2>1. PICK i \in 1..Len(chan) : chan[i] = x
      BY <1>2 DEF Waits
    <2>2. i - 1 \in 1..Len(chan') /\ chan'[i - 1] = x
      BY <1>1, <1>2, <2>1
    <2>3. QED BY <2>2 DEF Waits
  <1>3. QED BY <1>1, <1>2 DEF Waits

LEMMA SendUnheard ==
    ASSUME TypeOK, NEW m \in Messages, chan' = Append(chan, m),
           \/ m.type # "done" /\ live' = live
           \/ \E w \in live : m = Done(w) /\ live' = live \ {w}
    PROVE  Unheard' = Unheard
  <1>1. chan \in Seq(Messages) /\ live \subseteq Workers
    BY DEF TypeOK
  <1>2. \A x : Waits(x)' <=> Waits(x) \/ x = m
    BY <1>1, SendWaits
  <1>3. CASE m.type # "done" /\ live' = live
    BY <1>2, <1>3, MessageShape DEF Unheard
  <1>4. ASSUME NEW w \in live, m = Done(w), live' = live \ {w}
        PROVE  Unheard' = Unheard
    BY <1>1, <1>2, <1>4, MessageShape DEF Unheard
  <1>5. QED BY <1>3, <1>4

LEMMA ReceiveUnheard ==
    ASSUME TypeOK, chan # <<>>, chan' = Tail(chan), live' = live
    PROVE  /\ Head(chan).type # "done" => Unheard' = Unheard
           /\ Head(chan).type = "done" /\ ReportsOnce =>
                /\ Head(chan).from \in Unheard
                /\ Unheard' = Unheard \ {Head(chan).from}
  <1>1. chan \in Seq(Messages) /\ live \subseteq Workers
    BY DEF TypeOK
  <1>0. PICK h : h = Head(chan)
    OBVIOUS
  <1>2. /\ h \in Messages /\ Len(chan) \in Nat \ {0} /\ h = chan[1]
        /\ Len(chan') = Len(chan) - 1
        /\ \A i \in 1..Len(chan') : chan'[i] = chan[i + 1]
    BY <1>0, <1>1, Receiving
  <1>3. \A x : Waits(x) => Waits(x)' \/ x = h
    BY <1>0, <1>1, ReceiveWaits
  <1>4. \A x : Waits(x)' => Waits(x)
    BY <1>1, ReceiveWaits
  <1>5. ASSUME h.type # "done" PROVE Unheard' = Unheard
    BY <1>3, <1>4, <1>5, MessageShape DEF Unheard
  <1>6. ASSUME h.type = "done", ReportsOnce
        PROVE  h.from \in Unheard /\ Unheard' = Unheard \ {h.from}
    <2>1. h = Done(h.from) /\ h.from \in Workers
      BY <1>2, <1>6, MessageShape, MessageTypes
    <2>2. h.from \notin live
      BY <1>2, <1>6 DEF ReportsOnce
    <2>3. ~Waits(h)'
      BY <1>2, <1>6 DEF ReportsOnce, Waits
    <2>4. Waits(h)
      BY <1>2 DEF Waits
    <2>5. \A x : x # h.from => (Waits(Done(x))' <=> Waits(Done(x)))
      BY <1>3, <1>4, <2>1, MessageShape
    <2>6. QED BY <2>1, <2>2, <2>3, <2>4, <2>5 DEF Unheard
  <1>7. QED BY <1>0, <1>5, <1>6

LEMMA StartUnheard ==
    ASSUME TypeOK, NEW S \in SUBSET Sources, start_sources(S), chan' = chan, NEW s \in Sources
    PROVE  UnheardOf(s)' = IF s \in Startable(S)
                           THEN UnheardOf(s) \cup WorkersOf(s, arcs + 1, HostsOf(s))
                           ELSE UnheardOf(s)
  <1>1. Startable(S) \subseteq Sources
    BY DEF Startable
  <1>2. Startable(S) # {} => arcs + 1 \in 1..MaxArcs
    BY Bounds DEF TypeOK, start_sources
  <1>3. \A t \in Startable(S) : WorkersOf(t, arcs + 1, HostsOf(t)) \subseteq Workers
    BY <1>1, <1>2, WorkersType, HostsOfType
  <1>4. \A t \in Startable(S) : \A w \in WorkersOf(t, arcs + 1, HostsOf(t)) : w.src = t
    BY DEF WorkersOf
  <1>5. live' = live \cup UNION {WorkersOf(t, arcs + 1, HostsOf(t)) : t \in Startable(S)}
    BY DEF start_sources
  <1>6. \A x : Waits(x)' <=> Waits(x)
    BY DEF Waits
  <1>7. \A w \in Workers : w \in Unheard' <=>
            w \in Unheard \/ \E t \in Startable(S) : w \in WorkersOf(t, arcs + 1, HostsOf(t))
    BY <1>5, <1>6 DEF Unheard
  <1>8. QED BY <1>3, <1>4, <1>7 DEF UnheardOf, Unheard

-----------------------------------------------------------------------------
(* The inductive invariant.                                                *)

(* Flags are numbered in the order they are allocated, and the workers of  *)
(* the client sources run on client_hosts.                                 *)
Numbered ==
    /\ \A s \in Sources : current[s] <= arcs
    /\ \A w \in Unheard : w.arc <= arcs
    /\ \A f \in stopped : f[2] <= arcs
    /\ \A w \in Unheard : w.src \in ClientSources => w.host \in ClientHosts

FiniteRuns == \A s \in Sources : IsFiniteSet(UnheardOf(s))

IInv ==
    /\ TypeOK
    /\ Numbered
    /\ FiniteRuns
    /\ Reports
    /\ NoUnstoppableWorker
    /\ ClientCounted
    /\ ClientSession
    /\ ClientView
    /\ ClientStopCleaned
    /\ OsdCounted
    /\ OsdFollowed

(* One worker per host: as many as there are hosts.                        *)
LEMMA WorkersCounted ==
    ASSUME NEW s, NEW arc, NEW on, IsFiniteSet(on)
    PROVE  /\ IsFiniteSet(WorkersOf(s, arc, on))
           /\ Cardinality(WorkersOf(s, arc, on)) = Cardinality(on)
  <1> DEFINE W == WorkersOf(s, arc, on)
             f == [h \in on |-> [src |-> s, arc |-> arc, host |-> h]]
  <1>1. f \in Bijection(on, W)
    <2>1. f \in [on -> W] /\ \A w \in W : \E h \in on : f[h] = w
      BY DEF WorkersOf
    <2>2. \A g, h \in on : f[g] = f[h] => g = h
      <3> SUFFICES ASSUME NEW g \in on, NEW h \in on, f[g] = f[h] PROVE g = h
        OBVIOUS
      <3>1. f[g].host = g /\ f[h].host = h
        OBVIOUS
      <3>2. QED BY <3>1
    <2>3. QED BY <2>1, <2>2 DEF Bijection, Injection, Surjection, IsInjective
  <1>2. ExistsBijection(on, W)
    BY <1>1 DEF ExistsBijection
  <1>3. QED BY <1>2, FS_Bijection

(* Only a start adds workers, and only a "done" that is received removes   *)
(* one from the unheard.                                                   *)
LEMMA UnheardSteps ==
    ASSUME TypeOK, ReportsOnce
    PROVE  /\ Quiet => Unheard' = Unheard
           /\ receive_done => /\ Head(chan) \in Messages
                              /\ Head(chan).from \in Unheard
                              /\ Unheard' = Unheard \ {Head(chan).from}
  <1>1. ASSUME UNCHANGED <<live, chan>> PROVE Unheard' = Unheard
    BY <1>1 DEF Unheard, Waits
  <1>2. ASSUME NEW w \in live, worker_line(w) PROVE Unheard' = Unheard
    <2>1. Line(w) \in Messages /\ Line(w).type # "done"
      BY MessageTypes, MessageShape DEF TypeOK
    <2>2. chan' = Append(chan, Line(w)) /\ live' = live
      BY <1>2 DEF worker_line
    <2>3. QED BY <2>1, <2>2, SendUnheard
  <1>3. ASSUME NEW w \in live, worker_done(w) PROVE Unheard' = Unheard
    <2>1. Done(w) \in Messages
      BY MessageTypes DEF TypeOK
    <2>2. chan' = Append(chan, Done(w)) /\ live' = live \ {w}
      BY <1>3 DEF worker_done
    <2>3. QED BY <2>1, <2>2, SendUnheard
  <1>4. ASSUME install_reports PROVE Unheard' = Unheard
    <2>1. Installed \in Messages /\ Installed.type # "done"
      BY MessageTypes, MessageShape
    <2>2. chan' = Append(chan, Installed) /\ live' = live
      BY <1>4 DEF install_reports
    <2>3. QED BY <2>1, <2>2, SendUnheard
  <1>5. ASSUME receive_line \/ receive_install PROVE Unheard' = Unheard
    <2>1. chan # <<>> /\ chan' = Tail(chan) /\ live' = live /\ Head(chan).type # "done"
      BY <1>5 DEF receive_line, receive_install, Receives
    <2>2. QED BY <2>1, ReceiveUnheard
  <1>6. ASSUME \/ \E S \in SUBSET Sources : stop_sources(S) /\ UNCHANGED <<hosts, threadVars>>
               \/ UNCHANGED <<hosts, runVars, threadVars>>
               \/ spawn_trace_install
               \/ clear_captured
               \/ \E newHosts \in (SUBSET Hosts) \ {{}} : persist_and_apply_config(newHosts)
               \/ begin_shutdown
        PROVE  UNCHANGED <<live, chan>>
    BY <1>6 DEF spawn_trace_install, clear_captured, persist_and_apply_config,
                begin_shutdown, threadVars
  <1>7. Quiet => Unheard' = Unheard
    BY <1>1, <1>2, <1>3, <1>4, <1>5, <1>6 DEF Quiet
  <1>8. receive_done => /\ Head(chan) \in Messages
                        /\ Head(chan).from \in Unheard
                        /\ Unheard' = Unheard \ {Head(chan).from}
    BY ReceiveUnheard, Receiving DEF receive_done, Receives, TypeOK
  <1>9. QED BY <1>7, <1>8

LEMMA FiniteRunsStep ==
    ASSUME IInv, [Next]_vars PROVE FiniteRuns'
  <1>1. ASSUME NEW s \in Sources PROVE IsFiniteSet(UnheardOf(s)')
    <2>1. IsFiniteSet(UnheardOf(s))
      BY DEF IInv, FiniteRuns
    <2>2. ASSUME NEW S \in SUBSET Sources, start_sources(S), chan' = chan
          PROVE  IsFiniteSet(UnheardOf(s)')
      <3>1. IsFiniteSet(WorkersOf(s, arcs + 1, HostsOf(s)))
        BY HostsOfType, WorkersCounted DEF IInv
      <3>2. IsFiniteSet(UnheardOf(s) \cup WorkersOf(s, arcs + 1, HostsOf(s)))
        BY <2>1, <3>1, FS_Union
      <3>3. QED BY <2>1, <2>2, <3>2, StartUnheard DEF IInv
    <2>3. ASSUME Unheard' \subseteq Unheard PROVE IsFiniteSet(UnheardOf(s)')
      BY <2>1, <2>3, FS_Subset DEF UnheardOf
    <2>4. QED BY <2>2, <2>3, Cases, UnheardSteps DEF IInv, Reports, Starts
  <1>2. QED BY <1>1 DEF FiniteRuns

LEMMA NumberedStep ==
    ASSUME IInv, [Next]_vars PROVE Numbered'
  <1> USE DEF IInv
  <1>1. \A w \in Unheard : w.src \in Sources /\ w \in UnheardOf(w.src)
    BY DEF Unheard, UnheardOf, Workers
  <1>2. arcs \in Nat /\ stopped \in SUBSET (Sources \X (0..MaxArcs))
    BY Bounds DEF TypeOK
  <1>3. ASSUME NEW S \in SUBSET Sources, start_sources(S), UNCHANGED <<hosts, installing, chan>>
        PROVE  Numbered'
    <2>1. arcs' \in Nat /\ arcs' >= arcs /\ (Startable(S) # {} => arcs' = arcs + 1)
      BY <1>2, <1>3 DEF start_sources
    <2>2. \A s \in Sources : current'[s] <= arcs'
      BY <1>2, <1>3, <2>1, Bounds DEF start_sources, Numbered, TypeOK
    <2>3. \A w \in Unheard' : w.src \in Sources /\ w \in UnheardOf(w.src)'
      BY DEF Unheard, UnheardOf, Workers
    <2>4. ASSUME NEW w \in Unheard'
          PROVE  w.arc <= arcs' /\ (w.src \in ClientSources => w.host \in ClientHosts)
      <3>1. CASE w \in UnheardOf(w.src)
        <4>1. w \in Unheard /\ w.arc <= arcs /\ w.arc \in Int
          BY <3>1, Bounds DEF UnheardOf, Unheard, Workers, Numbered
        <4>2. QED BY <1>2, <2>1, <4>1 DEF Numbered
      <3>2. CASE w \notin UnheardOf(w.src)
        <4>1. /\ w.src \in Startable(S)
              /\ w \in WorkersOf(w.src, arcs + 1, HostsOf(w.src))
          BY <1>3, <2>3, <3>2, StartUnheard
        <4>2. w.arc = arcs + 1 /\ w.host \in HostsOf(w.src)
          BY <4>1 DEF WorkersOf
        <4>3. QED BY <2>1, <4>1, <4>2, OsdIsNoClient DEF HostsOf
      <3>3. QED BY <3>1, <3>2
    <2>5. \A f \in stopped' : f[2] <= arcs'
      <3>1. \A s \in Startable(S) : current[s] <= arcs /\ current[s] \in Int
        BY Bounds DEF Startable, Numbered, TypeOK
      <3>2. ASSUME NEW f \in stopped' PROVE f[2] <= arcs
        BY <1>3, <3>1, <3>2 DEF start_sources, RaisedByStart, Numbered
      <3>3. \A f \in stopped' : f[2] \in Int
        BY <1>2, <1>3, <3>1, Bounds DEF start_sources, RaisedByStart
      <3>4. QED BY <1>2, <2>1, <3>2, <3>3
    <2>6. QED BY <2>2, <2>4, <2>5 DEF Numbered
  <1>4. ASSUME Unheard' \subseteq Unheard, arcs' = arcs, current' = current, stopped' = stopped
        PROVE  Numbered'
    BY <1>4 DEF Numbered
  <1>5. \A S \in SUBSET Sources : \A f \in RaisedByStop(S) : f[2] <= arcs /\ f[2] \in Int
    BY Bounds DEF RaisedByStop, Numbered, TypeOK
  <1>6. ASSUME NEW S \in SUBSET Sources, Unheard' = Unheard,
               stopped' = stopped \cup RaisedByStop(S), arcs' = arcs, current' = current
        PROVE  Numbered'
    BY <1>5, <1>6 DEF Numbered
  <1>7. ASSUME NEW newHosts \in (SUBSET Hosts) \ {{}}, persist_and_apply_config(newHosts),
               Unheard' = Unheard
        PROVE  Numbered'
    <2>1. arcs' = arcs + 1 /\ arcs < arcs'
      BY <1>2, <1>7 DEF persist_and_apply_config
    <2>2. \A s \in Sources : current'[s] <= arcs'
      BY <1>2, <1>7, <2>1, Bounds DEF persist_and_apply_config, Numbered, TypeOK
    <2>3. \A w \in Unheard' : w.arc <= arcs'
      BY <1>2, <1>7, <2>1, Bounds DEF Numbered, Unheard, Workers
    <2>4. \A f \in stopped' : f[2] <= arcs'
      BY <1>2, <1>5, <1>7, <2>1, Bounds DEF persist_and_apply_config, Numbered
    <2>5. QED BY <1>7, <2>2, <2>3, <2>4 DEF Numbered
  <1>8. CASE receive_done
    BY <1>4, <1>8, UnheardSteps DEF receive_done, Reports
  <1>9. CASE Quiet
    <2>1. Unheard' = Unheard
      BY <1>9, UnheardSteps DEF Reports
    <2>2. CASE \/ \E S \in SUBSET Sources : stop_sources(S) /\ UNCHANGED <<hosts, threadVars>>
               \/ begin_shutdown
      BY <1>6, <2>1, <2>2 DEF stop_sources, begin_shutdown
    <2>3. CASE \/ UNCHANGED <<hosts, runVars, threadVars>>
               \/ spawn_trace_install \/ clear_captured
               \/ \E w \in live : worker_line(w) \/ worker_done(w)
               \/ install_reports \/ receive_line \/ receive_install
      BY <1>4, <2>1, <2>3
      DEF runVars, spawn_trace_install, clear_captured, worker_line, worker_done,
          install_reports, receive_line, receive_install
    <2>4. QED BY <1>7, <1>9, <2>1, <2>2, <2>3 DEF Quiet
  <1>10. QED BY <1>3, <1>8, <1>9, Cases DEF Starts

LEMMA ReportsStep ==
    ASSUME IInv, [Next]_vars PROVE Reports'
  <1> USE DEF IInv
  <1>0. chan \in Seq(Messages) /\ live \subseteq Workers /\ Len(chan) \in Nat
    BY LenProperties DEF TypeOK
  <1>1. ASSUME NEW S \in SUBSET Sources, Starts(S) PROVE Reports'
    <2>1. live \subseteq live' /\ chan' = chan
      BY <1>1 DEF Starts, start_sources
    <2>2. LinesFirst'
      BY <2>1 DEF Reports, LinesFirst
    <2>3. ASSUME NEW i \in 1..Len(chan), chan[i].type = "done" PROVE chan[i].from \notin live'
      <3>1. chan[i].from \notin live /\ chan[i] = Done(chan[i].from) /\ chan[i].from \in Workers
        BY <1>0, <2>3, ElementOfSeq, MessageShape, MessageTypes DEF Reports, ReportsOnce
      <3>2. chan[i].from \in Unheard
        BY <3>1 DEF Unheard, Waits
      <3>3. chan[i].from.arc <= arcs /\ arcs \in Nat
        BY <3>2, Bounds DEF Numbered, TypeOK
      <3>4. \A w \in live' : w \in live \/ w.arc = arcs + 1
        BY <1>1 DEF Starts, start_sources, WorkersOf
      <3>5. QED BY <3>1, <3>3, <3>4
    <2>4. ReportsOnce'
      BY <2>1, <2>3 DEF Reports, ReportsOnce
    <2>5. QED BY <2>2, <2>4 DEF Reports
  <1>2. ASSUME NEW m \in Messages, m.type # "done", chan' = Append(chan, m), live' = live,
               m.type = "line" => m.from \in live
        PROVE  Reports'
    <2>1. /\ Len(chan') = Len(chan) + 1 /\ chan'[Len(chan) + 1] = m
          /\ \A i \in 1..Len(chan) : chan'[i] = chan[i]
      BY <1>0, <1>2, Sending
    <2>2. ReportsOnce'
      BY <1>0, <1>2, <2>1 DEF Reports, ReportsOnce
    <2>3. LinesFirst'
      BY <1>0, <1>2, <2>1 DEF Reports, LinesFirst
    <2>4. QED BY <2>2, <2>3 DEF Reports
  <1>3. ASSUME NEW w \in live, worker_done(w) PROVE Reports'
    <2>1. /\ Len(chan') = Len(chan) + 1 /\ chan'[Len(chan) + 1] = Done(w)
          /\ \A i \in 1..Len(chan) : chan'[i] = chan[i]
          /\ live' = live \ {w}
      BY <1>0, <1>3, Sending, MessageTypes DEF worker_done
    <2>2. \A i \in 1..Len(chan) : chan[i] # Done(w)
      BY MessageShape DEF Reports, ReportsOnce
    <2>3. ReportsOnce'
      BY <1>0, <2>1, <2>2, MessageShape DEF Reports, ReportsOnce
    <2>4. LinesFirst'
      BY <1>0, <2>1, MessageShape DEF Reports, LinesFirst
    <2>5. QED BY <2>3, <2>4 DEF Reports
  <1>4. ASSUME chan # <<>>, chan' = Tail(chan), live' = live PROVE Reports'
    <2>1. /\ Len(chan') = Len(chan) - 1
          /\ \A i \in 1..Len(chan') : chan'[i] = chan[i + 1]
      BY <1>0, <1>4, Receiving
    <2>2. ReportsOnce'
      BY <1>0, <1>4, <2>1 DEF Reports, ReportsOnce
    <2>3. ASSUME NEW i \in 1..Len(chan'), chan'[i].type = "line", chan'[i].from \notin live'
          PROVE  \E j \in i+1 .. Len(chan') : chan'[j] = Done(chan'[i].from)
      <3>1. i + 1 \in 1..Len(chan) /\ chan'[i] = chan[i + 1]
        BY <1>0, <2>1
      <3>2. PICK j \in i+2 .. Len(chan) : chan[j] = Done(chan[i + 1].from)
        BY <1>4, <2>3, <3>1 DEF Reports, LinesFirst
      <3>3. j - 1 \in i+1 .. Len(chan') /\ chan'[j - 1] = chan[j]
        BY <1>0, <2>1, <3>2
      <3>4. QED BY <3>1, <3>2, <3>3
    <2>4. QED BY <2>2, <2>3 DEF Reports, LinesFirst
  <1>5. ASSUME UNCHANGED <<live, chan>> PROVE Reports'
    BY <1>5 DEF Reports, ReportsOnce, LinesFirst
  <1>6. CASE Quiet
    <2>1. CASE \E w \in live : worker_line(w)
      BY <1>0, <1>2, <2>1, MessageTypes, MessageShape DEF worker_line
    <2>2. CASE install_reports
      BY <1>2, <2>2, MessageTypes, MessageShape DEF install_reports
    <2>3. CASE receive_line \/ receive_install
      BY <1>4, <2>3 DEF receive_line, receive_install, Receives
    <2>4. QED
      BY <1>3, <1>5, <1>6, <2>1, <2>2, <2>3
      DEF Quiet, threadVars, spawn_trace_install, clear_captured, persist_and_apply_config,
          begin_shutdown
  <1>7. CASE receive_done
    BY <1>4, <1>7 DEF receive_done, Receives
  <1>8. QED BY <1>1, <1>6, <1>7, Cases

LEMMA UnstoppableStep ==
    ASSUME TypeOK, NoUnstoppableWorker, [Next]_vars PROVE NoUnstoppableWorker'
  <1>1. ASSUME NEW S \in SUBSET Sources, Starts(S) PROVE NoUnstoppableWorker'
    <2>1. SUFFICES ASSUME NEW w \in live' PROVE w.arc = current'[w.src] \/ Flag(w) \in stopped'
      BY DEF NoUnstoppableWorker, Flag
    <2>2. CASE w \in live
      <3>1. w.src \in Sources
        BY <2>2 DEF TypeOK, Workers
      <3>2. CASE w.src \in Startable(S)
        BY <1>1, <2>2, <3>1, <3>2
        DEF Starts, start_sources, RaisedByStart, NoUnstoppableWorker, Flag
      <3>3. CASE w.src \notin Startable(S)
        BY <1>1, <2>2, <3>1, <3>3 DEF Starts, start_sources, NoUnstoppableWorker, Flag
      <3>4. QED BY <3>2, <3>3
    <2>3. CASE w \notin live
      <3>1. w.src \in Startable(S) /\ w.arc = arcs + 1
        BY <1>1, <2>3 DEF Starts, start_sources, WorkersOf
      <3>2. QED BY <1>1, <3>1 DEF Starts, start_sources, Startable
    <2>4. QED BY <2>2, <2>3
  <1>2. ASSUME NEW newHosts \in (SUBSET Hosts) \ {{}}, persist_and_apply_config(newHosts)
        PROVE  NoUnstoppableWorker'
    <2>1. \A w \in live : w.src \in Sources
      BY DEF TypeOK, Workers
    <2>2. \A w \in live : Flag(w) \in stopped'
      BY <1>2, <2>1 DEF persist_and_apply_config, RaisedByStop, NoUnstoppableWorker, Flag
    <2>3. live' = live
      BY <1>2 DEF persist_and_apply_config, threadVars
    <2>4. QED BY <2>2, <2>3 DEF NoUnstoppableWorker, Flag
  <1>3. ASSUME live' \subseteq live, current' = current, stopped \subseteq stopped'
        PROVE  NoUnstoppableWorker'
    BY <1>3 DEF NoUnstoppableWorker, Flag
  <1>4. CASE Quiet
    <2>1. CASE \/ \E S \in SUBSET Sources : stop_sources(S) /\ UNCHANGED <<hosts, threadVars>>
               \/ begin_shutdown
      BY <1>3, <2>1 DEF stop_sources, begin_shutdown, threadVars
    <2>2. CASE \/ UNCHANGED <<hosts, runVars, threadVars>>
               \/ spawn_trace_install \/ clear_captured
               \/ \E w \in live : worker_line(w) \/ worker_done(w)
               \/ install_reports \/ receive_line \/ receive_install
      BY <1>3, <2>2
      DEF runVars, threadVars, spawn_trace_install, clear_captured, worker_line, worker_done,
          install_reports, receive_line, receive_install
    <2>3. QED BY <1>2, <1>4, <2>1, <2>2 DEF Quiet
  <1>5. CASE receive_done
    BY <1>3, <1>5 DEF receive_done
  <1>6. QED BY <1>1, <1>4, <1>5, Cases

-----------------------------------------------------------------------------
(* Client sources.                                                         *)

(* No quiet step touches the counter, the session or the flag of a client  *)
(* source.                                                                 *)
LEMMA QuietClient ==
    ASSUME TypeOK, Quiet, NEW s \in ClientSources
    PROVE  /\ active'[s] = active[s]
           /\ session'[s] = session[s]
           /\ current'[s] = current[s]
  <1>1. s # Osd /\ s \in Sources
    BY OsdIsNoClient DEF Sources
  <1>2. CASE \E S \in SUBSET Sources : stop_sources(S) /\ UNCHANGED <<hosts, threadVars>>
    BY <1>1, <1>2 DEF stop_sources
  <1>3. CASE \E newHosts \in (SUBSET Hosts) \ {{}} : persist_and_apply_config(newHosts)
    BY <1>1, <1>3 DEF persist_and_apply_config, TypeOK
  <1>4. CASE spawn_trace_install
    BY <1>1, <1>4 DEF spawn_trace_install, TypeOK
  <1>5. CASE receive_install
    BY <1>1, <1>5 DEF receive_install, AfterInstall, TypeOK
  <1>6. CASE \/ UNCHANGED <<hosts, runVars, threadVars>>
             \/ clear_captured \/ begin_shutdown
             \/ \E w \in live : worker_line(w) \/ worker_done(w)
             \/ install_reports \/ receive_line
    BY <1>6 DEF runVars, clear_captured, begin_shutdown, worker_line, worker_done,
                install_reports, receive_line
  <1>7. QED BY <1>2, <1>3, <1>4, <1>5, <1>6 DEF Quiet

(* A client source that a start really starts has no worker left.          *)
LEMMA StartsFromIdle ==
    ASSUME FiniteRuns, ClientCounted, NEW S, NEW s \in ClientSources, s \in Startable(S)
    PROVE  UnheardOf(s) = {}
  BY FS_EmptySet DEF FiniteRuns, ClientCounted, Startable, Sources

LEMMA CountedStep ==
    ASSUME IInv, [Next]_vars PROVE ClientCounted'
  <1> USE DEF IInv
  <1>1. SUFFICES ASSUME NEW s \in ClientSources
                 PROVE  active'[s] = Cardinality(UnheardOf(s)')
    BY DEF ClientCounted
  <1>2. s \in Sources /\ active[s] = Cardinality(UnheardOf(s)) /\ IsFiniteSet(UnheardOf(s))
    BY DEF Sources, ClientCounted, FiniteRuns
  <1>3. ASSUME NEW S \in SUBSET Sources, Starts(S)
        PROVE  active'[s] = Cardinality(UnheardOf(s)')
    <2>1. CASE s \in Startable(S)
      <3>1. UnheardOf(s)' = WorkersOf(s, arcs + 1, HostsOf(s))
        BY <1>2, <1>3, <2>1, StartUnheard, StartsFromIdle DEF Starts
      <3>2. active'[s] = Cardinality(HostsOf(s))
        BY <1>2, <1>3, <2>1 DEF Starts, start_sources
      <3>3. QED BY <1>2, <3>1, <3>2, HostsOfType, WorkersCounted
    <2>2. CASE s \notin Startable(S)
      <3>1. UnheardOf(s)' = UnheardOf(s)
        BY <1>2, <1>3, <2>2, StartUnheard DEF Starts
      <3>2. active'[s] = active[s]
        BY <1>2, <1>3, <2>2 DEF Starts, start_sources
      <3>3. QED BY <1>2, <3>1, <3>2
    <2>3. QED BY <2>1, <2>2
  <1>4. CASE receive_done
    <2>1. PICK w : w = Head(chan).from
      OBVIOUS
    <2>2. w \in Unheard /\ Unheard' = Unheard \ {w}
      BY <1>4, <2>1, UnheardSteps DEF Reports
    <2>3. active' = [active EXCEPT ![w.src] = Uncounted(w.src)]
      BY <1>4, <2>1 DEF receive_done
    <2>4. CASE w.src = s
      <3>1. w \in UnheardOf(s) /\ UnheardOf(s)' = UnheardOf(s) \ {w}
        BY <2>2, <2>4 DEF UnheardOf
      <3>2. Cardinality(UnheardOf(s)') = active[s] - 1
        BY <1>2, <3>1, FS_RemoveElement
      <3>3. Cardinality(UnheardOf(s)) # 0
        BY <1>2, <3>1, FS_EmptySet
      <3>4. active'[s] = active[s] - 1
        BY <1>2, <2>3, <2>4, <3>3 DEF TypeOK, Uncounted
      <3>5. QED BY <3>2, <3>4
    <2>5. CASE w.src # s
      <3>1. UnheardOf(s)' = UnheardOf(s)
        BY <2>2, <2>5 DEF UnheardOf
      <3>2. active'[s] = active[s]
        BY <1>2, <2>3, <2>5 DEF TypeOK
      <3>3. QED BY <1>2, <3>1, <3>2
    <2>6. QED BY <2>4, <2>5
  <1>5. CASE Quiet
    <2>1. UnheardOf(s)' = UnheardOf(s)
      BY <1>5, UnheardSteps DEF UnheardOf, Reports
    <2>2. QED BY <1>2, <1>5, <2>1, QuietClient
  <1>6. QED BY <1>3, <1>4, <1>5, Cases

LEMMA SessionStep ==
    ASSUME IInv, [Next]_vars PROVE ClientSession'
  <1> USE DEF IInv
  <1>1. SUFFICES ASSUME NEW s \in ClientSources, NEW w \in UnheardOf(s)'
                 PROVE  session'[s] = w.arc /\ current'[s] = w.arc
    BY DEF ClientSession
  <1>2. s \in Sources /\ \A x \in UnheardOf(s) : session[s] = x.arc /\ current[s] = x.arc
    BY DEF Sources, ClientSession
  <1>3. ASSUME NEW S \in SUBSET Sources, Starts(S)
        PROVE  session'[s] = w.arc /\ current'[s] = w.arc
    <2>1. CASE s \in Startable(S)
      <3>1. w.arc = arcs + 1
        BY <1>2, <1>3, <2>1, StartUnheard, StartsFromIdle DEF Starts, WorkersOf
      <3>2. QED BY <1>2, <1>3, <2>1, <3>1 DEF Starts, start_sources
    <2>2. CASE s \notin Startable(S)
      <3>1. w \in UnheardOf(s)
        BY <1>2, <1>3, <2>2, StartUnheard DEF Starts
      <3>2. QED BY <1>2, <1>3, <2>2, <3>1 DEF Starts, start_sources
    <2>3. QED BY <2>1, <2>2
  <1>4. CASE receive_done
    <2>1. w \in UnheardOf(s) /\ current' = current
      BY <1>4, UnheardSteps DEF UnheardOf, Reports, receive_done
    <2>2. active'[s] # 0
      <3>1. active'[s] = Cardinality(UnheardOf(s)') /\ IsFiniteSet(UnheardOf(s)')
        BY <1>2, CountedStep, FiniteRunsStep DEF ClientCounted, FiniteRuns
      <3>2. QED BY <3>1, FS_EmptySet
    <2>3. session'[s] = session[s]
      BY <1>2, <1>4, <2>2 DEF receive_done, SessionAfterDone, TypeOK
    <2>4. QED BY <1>2, <2>1, <2>3
  <1>5. CASE Quiet
    <2>1. w \in UnheardOf(s)
      BY <1>5, UnheardSteps DEF UnheardOf, Reports
    <2>2. QED BY <1>2, <1>5, <2>1, QuietClient
  <1>6. QED BY <1>3, <1>4, <1>5, Cases

LEMMA ViewStep ==
    ASSUME IInv, [Next]_vars PROVE ClientView'
  <1> USE DEF IInv
  <1>1. SUFFICES ASSUME NEW s \in ClientSources
                 PROVE  view'[s] \subseteq {current'[s]}
    BY DEF ClientView
  <1>2. s \in Sources /\ view[s] \subseteq {current[s]}
    BY DEF Sources, ClientView
  <1>3. ASSUME NEW S \in SUBSET Sources, Starts(S) PROVE view'[s] \subseteq {current'[s]}
    BY <1>2, <1>3 DEF Starts, start_sources, ViewAfterStart
  <1>4. CASE receive_line
    <2>1. PICK w : w = Head(chan).from
      OBVIOUS
    <2>2. /\ view' = [view EXCEPT ![w.src] = @ \cup {w.arc}]
          /\ current' = current /\ Head(chan).type = "line" /\ chan # <<>> /\ chan' = Tail(chan)
      BY <1>4, <2>1 DEF receive_line, Receives
    <2>3. w \in Unheard
      <3>1. /\ Head(chan) = chan[1] /\ 1 \in 1..Len(chan) /\ Head(chan) \in Messages
        BY <2>2, Receiving DEF TypeOK
      <3>2. w \in live \/ \E j \in 2..Len(chan) : chan[j] = Done(w)
        BY <2>1, <2>2, <3>1 DEF Reports, LinesFirst
      <3>3. w \in Workers
        BY <2>1, <2>2, <3>1, MessageTypes
      <3>4. QED BY <3>1, <3>2, <3>3 DEF Unheard, Waits
    <2>4. w.src = s => w.arc = current[s]
      BY <2>3 DEF ClientSession, UnheardOf
    <2>5. QED BY <1>2, <2>2, <2>4 DEF TypeOK
  <1>5. ASSUME view' = view, current'[s] = current[s] PROVE view'[s] \subseteq {current'[s]}
    BY <1>2, <1>5
  <1>6. CASE receive_done
    BY <1>5, <1>6 DEF receive_done
  <1>7. CASE Quiet
    <2>1. CASE clear_captured
      BY <1>2, <2>1 DEF clear_captured
    <2>2. ASSUME Quiet, ~receive_line, ~clear_captured PROVE view' = view
      BY <2>2 DEF Quiet, stop_sources, runVars, spawn_trace_install, persist_and_apply_config,
                  begin_shutdown, worker_line, worker_done, install_reports, receive_install
    <2>3. QED BY <1>4, <1>5, <1>7, <2>1, <2>2, QuietClient
  <1>8. QED BY <1>3, <1>6, <1>7, Cases

LEMMA CleanedStep ==
    ASSUME IInv, [Next]_vars PROVE ClientStopCleaned'
  <1> USE DEF IInv
  <1>1. SUFFICES ASSUME NEW w \in live', w.src \in ClientSources, Flag(w) \in stopped'
                 PROVE  w \in asked'
    BY DEF ClientStopCleaned, Flag
  <1>2. w.src \in Sources /\ (w \in live => w \in Workers /\ w \in UnheardOf(w.src))
    BY <1>1 DEF Sources, TypeOK, UnheardOf, Unheard
  <1>3. w \in live /\ Flag(w) \in stopped => w \in asked
    BY <1>1 DEF ClientStopCleaned
  <1>4. ASSUME NEW S \in SUBSET Sources, Starts(S) PROVE w \in asked'
    <2>1. w \in live \/ (w.src \in Startable(S) /\ w.arc = arcs + 1)
      BY <1>4 DEF Starts, start_sources, WorkersOf
    <2>2. CASE w.src \in Startable(S)
      <3>1. w \notin live
        BY <1>1, <1>2, <2>2, StartsFromIdle
      <3>2. Flag(w)[2] = arcs + 1 /\ arcs \in Nat
        BY <2>1, <3>1, Bounds DEF Flag, TypeOK
      <3>3. Flag(w)[2] <= arcs
        <4>1. CASE Flag(w) \in stopped
          BY <4>1 DEF Numbered
        <4>2. CASE Flag(w) \notin stopped
          <5>1. PICK t \in Startable(S) : Flag(w) = <<t, current[t]>>
            BY <1>1, <1>4, <4>2 DEF Starts, start_sources, RaisedByStart
          <5>2. QED BY <5>1 DEF Numbered, Startable
        <4>3. QED BY <4>1, <4>2
      <3>4. QED BY <3>2, <3>3
    <2>3. CASE w.src \notin Startable(S)
      <3>1. Flag(w) \in stopped
        BY <1>1, <1>4, <2>3 DEF Starts, start_sources, RaisedByStart, Flag
      <3>2. QED BY <1>3, <1>4, <2>1, <2>3, <3>1 DEF Starts, start_sources
    <2>4. QED BY <2>2, <2>3
  <1>5. ASSUME NEW S \in SUBSET Sources, live' = live,
               stopped' = stopped \cup RaisedByStop(S),
               asked' = asked \cup UNION {CleanupTargets(s) : s \in S}
        PROVE  w \in asked'
    <2>1. CASE Flag(w) \in stopped
      BY <1>3, <1>5, <2>1
    <2>2. CASE Flag(w) \notin stopped
      <3>1. w.src \in S /\ w \in Workers /\ w \in UnheardOf(w.src)
        BY <1>1, <1>2, <1>5, <2>2 DEF RaisedByStop, Flag
      <3>2. session[w.src] = w.arc /\ session[w.src] # NoSession /\ w.host \in ClientHosts
        BY <1>1, <3>1 DEF ClientSession, Numbered, UnheardOf, Workers, NoSession
      <3>3. w = [src |-> w.src, arc |-> session[w.src], host |-> w.host]
        BY <3>1, <3>2 DEF Workers
      <3>4. HostsOf(w.src) = ClientHosts
        BY <1>1, OsdIsNoClient DEF HostsOf
      <3>5. w \in CleanupTargets(w.src)
        BY <3>2, <3>3, <3>4 DEF CleanupTargets, WorkersOf
      <3>6. QED BY <1>5, <3>1, <3>5
    <2>3. QED BY <2>1, <2>2
  <1>6. ASSUME live' \subseteq live, stopped' = stopped, asked' = asked PROVE w \in asked'
    BY <1>1, <1>3, <1>6
  <1>7. CASE receive_done
    BY <1>6, <1>7 DEF receive_done
  <1>8. CASE Quiet
    <2>1. CASE \E S \in SUBSET Sources : stop_sources(S) /\ UNCHANGED <<hosts, threadVars>>
      BY <1>5, <2>1 DEF stop_sources, threadVars
    <2>2. CASE \/ begin_shutdown
               \/ \E newHosts \in (SUBSET Hosts) \ {{}} : persist_and_apply_config(newHosts)
      BY <1>5, <2>2 DEF begin_shutdown, persist_and_apply_config, threadVars
    <2>3. CASE \/ UNCHANGED <<hosts, runVars, threadVars>>
               \/ spawn_trace_install \/ clear_captured
               \/ \E v \in live : worker_line(v) \/ worker_done(v)
               \/ install_reports \/ receive_line \/ receive_install
      BY <1>6, <2>3
      DEF runVars, threadVars, spawn_trace_install, clear_captured, worker_line, worker_done,
          install_reports, receive_line, receive_install
    <2>4. QED BY <1>8, <2>1, <2>2, <2>3 DEF Quiet
  <1>9. QED BY <1>4, <1>7, <1>8, Cases

-----------------------------------------------------------------------------
(* osdtrace.                                                               *)

LEMMA OsdRunFinite ==
    ASSUME FiniteRuns
    PROVE  /\ IsFiniteSet(UnheardOfRun(Osd))
           /\ Cardinality(UnheardOfRun(Osd)) \in Nat
           /\ Cardinality(UnheardOfRun(Osd)) = 0 <=> UnheardOfRun(Osd) = {}
  BY FS_Subset, FS_CardinalityType, FS_EmptySet DEF FiniteRuns, UnheardOfRun, Sources

(* A run of osdtrace that starts counts its own workers, one per host.     *)
LEMMA OsdStart ==
    ASSUME IInv, NEW S \in SUBSET Sources, Starts(S), Osd \in Startable(S)
    PROVE  /\ active'[Osd] = Cardinality(UnheardOfRun(Osd)')
           /\ UnheardOfRun(Osd)' # {}
  <1> USE DEF IInv
  <1>1. Osd \in Sources /\ arcs \in Nat
    BY Bounds DEF Sources, TypeOK
  <1>2. UnheardOf(Osd)' = UnheardOf(Osd) \cup WorkersOf(Osd, arcs + 1, HostsOf(Osd))
    BY <1>1, StartUnheard DEF Starts
  <1>3. \A w \in UnheardOf(Osd) : w.arc <= arcs
    BY DEF Numbered, UnheardOf
  <1>4. current'[Osd] = arcs + 1 /\ active'[Osd] = Cardinality(HostsOf(Osd))
    BY <1>1 DEF Starts, start_sources, TypeOK
  <1>5. UnheardOfRun(Osd)' = WorkersOf(Osd, arcs + 1, HostsOf(Osd))
    <2>1. \A w \in UnheardOf(Osd) : w.arc # arcs + 1
      BY <1>1, <1>3
    <2>2. \A w \in WorkersOf(Osd, arcs + 1, HostsOf(Osd)) : w.arc = arcs + 1
      BY DEF WorkersOf
    <2>3. QED BY <1>2, <1>4, <2>1, <2>2 DEF UnheardOfRun
  <1>6. HostsOf(Osd) # {}
    BY DEF Startable
  <1>7. WorkersOf(Osd, arcs + 1, HostsOf(Osd)) # {}
    BY <1>6 DEF WorkersOf
  <1>8. Cardinality(WorkersOf(Osd, arcs + 1, HostsOf(Osd))) = Cardinality(HostsOf(Osd))
    BY <1>1, HostsOfType, WorkersCounted
  <1>9. QED BY <1>4, <1>5, <1>7, <1>8

LEMMA OsdNoStart ==
    ASSUME IInv, NEW S \in SUBSET Sources, Starts(S), Osd \notin Startable(S)
    PROVE  /\ UnheardOfRun(Osd)' = UnheardOfRun(Osd)
           /\ active'[Osd] = active[Osd]
           /\ following' = following
  <1>1. Osd \in Sources
    BY DEF Sources
  <1>2. UnheardOf(Osd)' = UnheardOf(Osd) /\ current'[Osd] = current[Osd]
    BY <1>1, StartUnheard DEF IInv, Starts, start_sources
  <1>3. active'[Osd] = active[Osd] /\ following' = following
    BY <1>1 DEF IInv, TypeOK, Starts, start_sources
  <1>4. QED BY <1>2, <1>3 DEF UnheardOfRun

(* A "done" of the current run lowers the counter by what it removes; one  *)
(* of an earlier run lowers the counter only.                              *)
LEMMA OsdDone ==
    ASSUME IInv, receive_done
    PROVE  \/ /\ UnheardOfRun(Osd)' = UnheardOfRun(Osd)
              /\ active'[Osd] <= active[Osd]
              /\ Head(chan).from.src = Osd \/ active'[Osd] = active[Osd]
           \/ /\ Head(chan).from.src = Osd
              /\ Cardinality(UnheardOfRun(Osd)') = Cardinality(UnheardOfRun(Osd)) - 1
              /\ active'[Osd] = IF active[Osd] > 0 THEN active[Osd] - 1 ELSE 0
  <1> USE DEF IInv
  <1>1. PICK w : w = Head(chan).from
    OBVIOUS
  <1>2. w \in Unheard /\ Unheard' = Unheard \ {w} /\ current' = current
    BY <1>1, UnheardSteps DEF Reports, receive_done
  <1>3. active' = [active EXCEPT ![w.src] = Uncounted(w.src)] /\ Osd \in Sources
    BY <1>1 DEF receive_done, Sources
  <1>4. active'[Osd] = (IF w.src = Osd THEN Uncounted(Osd) ELSE active[Osd])
    BY <1>3 DEF TypeOK
  <1>5. active[Osd] \in Nat
    BY <1>3 DEF TypeOK
  <1>6. CASE w \in UnheardOfRun(Osd)
    <2>1. UnheardOfRun(Osd)' = UnheardOfRun(Osd) \ {w}
      BY <1>2 DEF UnheardOfRun, UnheardOf
    <2>2. w.src = Osd
      BY <1>6 DEF UnheardOfRun, UnheardOf
    <2>3. Cardinality(UnheardOfRun(Osd)') = Cardinality(UnheardOfRun(Osd)) - 1
      BY <1>6, <2>1, OsdRunFinite, FS_RemoveElement
    <2>4. QED BY <1>1, <1>4, <1>5, <2>2, <2>3 DEF Uncounted
  <1>7. CASE w \notin UnheardOfRun(Osd)
    <2>1. UnheardOfRun(Osd)' = UnheardOfRun(Osd)
      BY <1>2, <1>7 DEF UnheardOfRun, UnheardOf
    <2>2. QED BY <1>1, <1>4, <1>5, <2>1 DEF Uncounted
  <1>8. QED BY <1>6, <1>7

(* A quiet step leaves the current run and its counter alone, or clears    *)
(* the counter, or books an install that will report.                      *)
LEMMA OsdQuiet ==
    ASSUME IInv, Quiet
    PROVE  \/ /\ UnheardOfRun(Osd)' = UnheardOfRun(Osd)
              /\ active'[Osd] = active[Osd]
              /\ following' => following
              /\ installing > 0 \/ Waits(Installed) => installing' > 0 \/ Waits(Installed)'
           \/ /\ active'[Osd] = 0
              /\ \/ ~following'
                 \/ following' = following /\ UnheardOfRun(Osd)' = UnheardOfRun(Osd)
           \/ ~following' /\ installing' > 0
  <1> USE DEF IInv
  <1>1. /\ Osd \in Sources /\ installing \in Nat /\ chan \in Seq(Messages)
        /\ Unheard' = Unheard
    BY UnheardSteps DEF Sources, TypeOK, Reports
  <1>2. ASSUME current'[Osd] = current[Osd]
        PROVE  UnheardOfRun(Osd)' = UnheardOfRun(Osd)
    BY <1>1, <1>2 DEF UnheardOfRun, UnheardOf
  <1>3. CASE spawn_trace_install
    BY <1>1, <1>3 DEF spawn_trace_install
  <1>4. CASE \E newHosts \in (SUBSET Hosts) \ {{}} : persist_and_apply_config(newHosts)
    BY <1>1, <1>4 DEF persist_and_apply_config, TypeOK
  <1>5. CASE receive_install
    BY <1>1, <1>2, <1>5 DEF receive_install, AfterInstall, TypeOK
  <1>6. CASE \/ UNCHANGED <<hosts, runVars, threadVars>>
             \/ clear_captured \/ begin_shutdown
             \/ \E S \in SUBSET Sources : stop_sources(S) /\ UNCHANGED <<hosts, threadVars>>
    <2>1. /\ current' = current /\ active' = active
          /\ installing' = installing /\ chan' = chan
      BY <1>6 DEF runVars, threadVars, clear_captured, begin_shutdown, stop_sources
    <2>4. following' => following
      BY <1>6, Zenon DEF runVars, clear_captured, begin_shutdown, stop_sources
    <2>2. Waits(Installed)' = Waits(Installed)
      BY <2>1 DEF Waits, Installed
    <2>3. QED BY <1>2, <2>1, <2>2, <2>4
  <1>7. ASSUME NEW m \in Messages, chan' = Append(chan, m), UNCHANGED runVars,
               installing' = installing \/ m = Installed
        PROVE  /\ UnheardOfRun(Osd)' = UnheardOfRun(Osd)
               /\ active'[Osd] = active[Osd] /\ following' = following
               /\ installing > 0 \/ Waits(Installed) => installing' > 0 \/ Waits(Installed)'
    <2>1. \A x : Waits(x)' <=> Waits(x) \/ x = m
      BY <1>1, <1>7, SendWaits
    <2>2. Waits(Installed)' <=> Waits(Installed) \/ Installed = m
      BY <2>1 DEF Installed
    <2>3. QED BY <1>2, <1>7, <2>2 DEF runVars
  <1>8. CASE \/ \E w \in live : worker_line(w) \/ worker_done(w)
             \/ install_reports
    <2>1. \E m \in Messages : /\ chan' = Append(chan, m) /\ UNCHANGED runVars
                              /\ installing' = installing \/ m = Installed
      BY <1>8, MessageTypes DEF worker_line, worker_done, install_reports, TypeOK
    <2>2. QED BY <1>7, <2>1
  <1>9. CASE receive_line
    <2>1. /\ current' = current /\ active' = active /\ following' = following
          /\ installing' = installing
          /\ chan # <<>> /\ chan' = Tail(chan) /\ Head(chan) # Installed
      BY <1>9, MessageShape DEF receive_line, Receives
    <2>2. \A x : Waits(x) /\ x # Head(chan) => Waits(x)'
      BY <1>1, <2>1, ReceiveWaits
    <2>3. Waits(Installed) => Waits(Installed)'
      BY <2>1, <2>2 DEF Installed
    <2>4. QED BY <1>2, <2>1, <2>3
  <1>10. QED BY <1>3, <1>4, <1>5, <1>6, <1>8, <1>9 DEF Quiet

LEMMA FollowedStep ==
    ASSUME IInv, [Next]_vars PROVE OsdFollowed'
  <1> USE DEF IInv
  <1>1. SUFFICES ASSUME following'
                 PROVE  /\ UnheardOfRun(Osd)' # {}
                        /\ active'[Osd] <= Cardinality(UnheardOfRun(Osd)')
    BY DEF OsdFollowed
  <1>2. active[Osd] \in Nat /\ Osd \in Sources
    BY DEF TypeOK, Sources
  <1>3. /\ Cardinality(UnheardOfRun(Osd)') \in Nat
        /\ Cardinality(UnheardOfRun(Osd)') = 0 <=> UnheardOfRun(Osd)' = {}
    <2>1. IsFiniteSet(UnheardOf(Osd)')
      BY <1>2, FiniteRunsStep DEF FiniteRuns
    <2>2. UnheardOfRun(Osd)' \subseteq UnheardOf(Osd)'
      BY DEF UnheardOfRun
    <2>3. QED BY <2>1, <2>2, FS_Subset, FS_CardinalityType, FS_EmptySet
  <1>4. ASSUME NEW S \in SUBSET Sources, Starts(S)
        PROVE  /\ UnheardOfRun(Osd)' # {}
               /\ active'[Osd] <= Cardinality(UnheardOfRun(Osd)')
    <2>1. CASE Osd \in Startable(S)
      BY <1>3, <1>4, <2>1, OsdStart
    <2>2. CASE Osd \notin Startable(S)
      <3>1. following
        BY <1>1, <1>4, <2>2, OsdNoStart
      <3>2. QED BY <1>4, <2>2, <3>1, OsdNoStart DEF OsdFollowed
    <2>3. QED BY <2>1, <2>2
  <1>5. CASE receive_done
    <2>1. following
      BY <1>1, <1>5 DEF receive_done, FollowingAfterDone
    <2>2. Head(chan).from.src = Osd => active'[Osd] # 0
      BY <1>1, <1>2, <1>5 DEF receive_done, FollowingAfterDone, TypeOK
    <2>3. UnheardOfRun(Osd) # {} /\ active[Osd] <= Cardinality(UnheardOfRun(Osd))
      BY <2>1 DEF OsdFollowed
    <2>4. active'[Osd] \in Nat
      BY <1>2, NextType DEF TypeOK
    <2>5. /\ Cardinality(UnheardOfRun(Osd)) \in Nat
          /\ Cardinality(UnheardOfRun(Osd)) = 0 <=> UnheardOfRun(Osd) = {}
      BY OsdRunFinite
    <2>6. CASE UnheardOfRun(Osd)' = UnheardOfRun(Osd) /\ active'[Osd] <= active[Osd]
      BY <1>2, <2>3, <2>4, <2>5, <2>6
    <2>7. CASE /\ Head(chan).from.src = Osd
               /\ Cardinality(UnheardOfRun(Osd)') = Cardinality(UnheardOfRun(Osd)) - 1
               /\ active'[Osd] = IF active[Osd] > 0 THEN active[Osd] - 1 ELSE 0
      BY <1>2, <1>3, <2>2, <2>3, <2>4, <2>5, <2>7
    <2>8. QED BY <1>5, <2>6, <2>7, OsdDone
  <1>6. CASE Quiet
    <2>1. following => UnheardOfRun(Osd) # {} /\ active[Osd] <= Cardinality(UnheardOfRun(Osd))
      BY DEF OsdFollowed
    <2>2. /\ Cardinality(UnheardOfRun(Osd)) \in Nat
          /\ Cardinality(UnheardOfRun(Osd)) = 0 <=> UnheardOfRun(Osd) = {}
      BY OsdRunFinite
    <2>3. CASE /\ UnheardOfRun(Osd)' = UnheardOfRun(Osd)
               /\ active'[Osd] = active[Osd]
               /\ following' => following
      BY <1>1, <2>1, <2>3
    <2>4. CASE /\ active'[Osd] = 0
               /\ following' = following /\ UnheardOfRun(Osd)' = UnheardOfRun(Osd)
      <3>1. following
        BY <1>1, <2>4
      <3>2. QED BY <1>3, <2>1, <2>4, <3>1
    <2>5. QED BY <1>1, <1>6, <2>3, <2>4, OsdQuiet
  <1>7. QED BY <1>4, <1>5, <1>6, Cases

LEMMA CountedOsdStep ==
    ASSUME IInv, [Next]_vars PROVE OsdCounted'
  <1> USE DEF IInv
  <1>1. active[Osd] \in Nat /\ Osd \in Sources
    BY DEF TypeOK, Sources
  <1>2. Cardinality(UnheardOfRun(Osd)') \in Nat
    <2>1. IsFiniteSet(UnheardOf(Osd)')
      BY <1>1, FiniteRunsStep DEF FiniteRuns
    <2>2. UnheardOfRun(Osd)' \subseteq UnheardOf(Osd)'
      BY DEF UnheardOfRun
    <2>3. QED BY <2>1, <2>2, FS_Subset, FS_CardinalityType
  <1>3. ASSUME NEW S \in SUBSET Sources, Starts(S) PROVE OsdCounted'
    <2>1. CASE Osd \in Startable(S)
      BY <1>2, <1>3, <2>1, OsdStart DEF OsdCounted
    <2>2. CASE Osd \notin Startable(S)
      <3>1. installing' = installing /\ Waits(Installed)' = Waits(Installed)
        BY <1>3 DEF Starts, Waits, Installed
      <3>2. QED BY <1>3, <2>2, <3>1, OsdNoStart DEF OsdCounted
    <2>3. QED BY <2>1, <2>2
  <1>4. CASE receive_done
    <2>1. installing' = installing /\ (Waits(Installed) => Waits(Installed)')
      <3>1. /\ installing' = installing /\ chan # <<>> /\ chan' = Tail(chan)
            /\ Head(chan) # Installed
        BY <1>4, MessageShape DEF receive_done, Receives
      <3>2. \A x : Waits(x) /\ x # Head(chan) => Waits(x)'
        BY <3>1, ReceiveWaits DEF TypeOK
      <3>3. QED BY <3>1, <3>2 DEF Installed
    <2>2. CASE active[Osd] <= Cardinality(UnheardOfRun(Osd))
      <3>1. active'[Osd] \in Nat /\ Cardinality(UnheardOfRun(Osd)) \in Nat
        BY <1>1, NextType, OsdRunFinite DEF TypeOK
      <3>2. CASE UnheardOfRun(Osd)' = UnheardOfRun(Osd) /\ active'[Osd] <= active[Osd]
        BY <1>1, <2>2, <3>1, <3>2 DEF OsdCounted
      <3>3. CASE /\ Cardinality(UnheardOfRun(Osd)') = Cardinality(UnheardOfRun(Osd)) - 1
                 /\ active'[Osd] = IF active[Osd] > 0 THEN active[Osd] - 1 ELSE 0
        BY <1>1, <1>2, <2>2, <3>1, <3>3 DEF OsdCounted
      <3>4. QED BY <1>4, <3>2, <3>3, OsdDone
    <2>3. QED BY <2>1, <2>2 DEF OsdCounted
  <1>5. CASE Quiet
    BY <1>2, <1>5, OsdQuiet DEF OsdCounted
  <1>6. QED BY <1>3, <1>4, <1>5, Cases

-----------------------------------------------------------------------------
(* The theorems.                                                           *)

LEMMA InitIInv == Init => IInv
  <1> SUFFICES ASSUME Init PROVE IInv
    OBVIOUS
  <1>1. Len(chan) = 0 /\ Unheard = {} /\ live = {}
    BY DEF Init, Unheard, Waits
  <1>2. \A s : UnheardOf(s) = {}
    BY <1>1 DEF UnheardOf
  <1>3. IsFiniteSet({}) /\ Cardinality({}) = 0
    BY FS_EmptySet
  <1>4. FiniteRuns /\ ClientCounted
    BY <1>2, <1>3 DEF FiniteRuns, ClientCounted, Init, Sources
  <1>5. UnheardOfRun(Osd) = {} /\ active[Osd] = 0
    BY <1>2 DEF UnheardOfRun, Init, Sources
  <1>6. OsdCounted /\ OsdFollowed
    <2>1. active[Osd] <= Cardinality(UnheardOfRun(Osd))
      BY <1>3, <1>5
    <2>2. following = FALSE
      BY DEF Init
    <2>3. QED BY <2>1, <2>2 DEF OsdCounted, OsdFollowed
  <1>7. Reports /\ NoUnstoppableWorker /\ ClientStopCleaned
    BY <1>1 DEF Reports, ReportsOnce, LinesFirst, NoUnstoppableWorker, ClientStopCleaned
  <1>8. ClientSession /\ ClientView
    BY <1>2 DEF ClientSession, ClientView, Init, Sources
  <1>9. Numbered
    BY <1>1 DEF Numbered, Init
  <1>10. QED BY <1>4, <1>6, <1>7, <1>8, <1>9, InitType DEF IInv

LEMMA NextIInv == IInv /\ [Next]_vars => IInv'
  <1> SUFFICES ASSUME IInv, [Next]_vars PROVE IInv'
    OBVIOUS
  <1>1. TypeOK' /\ NoUnstoppableWorker'
    BY NextType, UnstoppableStep DEF IInv
  <1>2. Numbered' /\ FiniteRuns' /\ Reports'
    BY NumberedStep, FiniteRunsStep, ReportsStep
  <1>3. ClientCounted' /\ ClientSession' /\ ClientView' /\ ClientStopCleaned'
    BY CountedStep, SessionStep, ViewStep, CleanedStep
  <1>4. OsdCounted' /\ OsdFollowed'
    BY CountedOsdStep, FollowedStep
  <1>5. QED BY <1>1, <1>2, <1>3, <1>4 DEF IInv

LEMMA Invariance == Spec => []IInv
  BY InitIInv, NextIInv, PTL DEF Spec

(* No worker of any source is ever beyond the reach of a stop.             *)
THEOREM Unstoppable == Spec => []NoUnstoppableWorker
  BY Invariance, PTL DEF IInv

(* Each worker reports once, after its lines.                              *)
THEOREM ReportsOrdered == Spec => []Reports
  BY Invariance, PTL DEF IInv

(* The counter of a client source is the number of its unheard workers.    *)
THEOREM ClientsCounted == Spec => []ClientCounted
  BY Invariance, PTL DEF IInv

(* A client source holds the flag and the session of its unheard workers.  *)
THEOREM ClientsInSession == Spec => []ClientSession
  BY Invariance, PTL DEF IInv

(* The buffer of a client source holds lines of the current run only.      *)
THEOREM ClientsView == Spec => []ClientView
  BY Invariance, PTL DEF IInv

(* A client worker that is told to stop has its remote cleanup issued.     *)
THEOREM ClientsCleaned == Spec => []ClientStopCleaned
  BY Invariance, PTL DEF IInv

(* The osdtrace counter never stays above the workers that can lower it.   *)
THEOREM OsdCounting == Spec => []OsdCounted
  BY Invariance, PTL DEF IInv

(* osdtrace is shown as followed only while a runner of the current run is *)
(* unheard of, and no more runners are counted than that.                  *)
THEOREM OsdFollows == Spec => []OsdFollowed
  BY Invariance, PTL DEF IInv

-----------------------------------------------------------------------------
(* The client sources implement TraceSource.                               *)

(* All unheard workers of a client source are of its current run.          *)
LEMMA RunOfClient ==
    ASSUME ClientSession, NEW s \in ClientSources
    PROVE  UnheardOfRun(s) = UnheardOf(s)
  BY DEF ClientSession, UnheardOfRun

LEMMA ClientOut ==
    ASSUME IInv, NEW s \in ClientSources
    PROVE  /\ Cardinality(UnheardOfRun(s)) = active[s]
           /\ active[s] \in Nat
           /\ active[s] = 0 <=> UnheardOf(s) = {}
           /\ s \in Sources /\ s # Osd
  BY RunOfClient, OsdIsNoClient, FS_EmptySet
  DEF IInv, TypeOK, ClientCounted, FiniteRuns, Sources

ClientOuts ==
    \A s \in ClientSources : /\ Cardinality(UnheardOfRun(s)) = active[s]
                             /\ active[s] \in Nat

LEMMA ClientOutsHold == IInv => ClientOuts
  BY ClientOut DEF ClientOuts

LEMMA ClientOutsNext == IInv' => ClientOuts'
  BY ClientOutsHold, PTL

LEMMA OutNext ==
    ASSUME IInv', NEW s \in ClientSources
    PROVE  Cardinality(UnheardOfRun(s)') = active'[s] /\ active'[s] \in Nat
  BY ClientOutsNext DEF ClientOuts

(* A source whose flag, counter and view stay is where it was.             *)
LEMMA SameRun ==
    ASSUME IInv, IInv', NEW s \in ClientSources,
           active'[s] = active[s], current'[s] = current[s],
           <<s, current[s]>> \in stopped' <=> <<s, current[s]>> \in stopped
    PROVE  Run(s)' = [Run(s) EXCEPT !.shown = view'[s]]
  <1>1. Cardinality(UnheardOfRun(s)') = Cardinality(UnheardOfRun(s))
    BY ClientOut, OutNext
  <1>2. Phase(s)' = Phase(s)
    BY DEF Phase
  <1>3. QED BY <1>1, <1>2 DEF Run

LEMMA StopRun ==
    ASSUME IInv, IInv', NEW s \in ClientSources, NEW S,
           active'[s] = active[s], current'[s] = current[s], view'[s] = view[s],
           stopped' = stopped \cup RaisedByStop(S)
    PROVE  Run(s)' = Run(s) \/ Runs!Step(Run(s), Run(s)')
  <1>1. CASE <<s, current[s]>> \in stopped' <=> <<s, current[s]>> \in stopped
    BY <1>1, SameRun DEF Run
  <1>2. CASE ~(<<s, current[s]>> \in stopped' <=> <<s, current[s]>> \in stopped)
    <2>1. <<s, current[s]>> \in stopped' /\ <<s, current[s]>> \notin stopped
      BY <1>2
    <2>2. Cardinality(UnheardOfRun(s)') = Cardinality(UnheardOfRun(s))
      BY ClientOut, OutNext
    <2>3. CASE active[s] = 0
      BY <2>2, <2>3 DEF Run, Phase
    <2>4. CASE active[s] # 0
      <3>1. Run(s).phase = "running" /\ Run(s)' = [Run(s) EXCEPT !.phase = "stopping"]
        BY <2>1, <2>2, <2>4 DEF Run, Phase
      <3>2. QED BY <3>1 DEF Runs!Step, Runs!Stop
    <2>5. QED BY <2>3, <2>4
  <1>3. QED BY <1>1, <1>2

LEMMA StartRun ==
    ASSUME IInv, IInv', NEW S \in SUBSET Sources, Starts(S), NEW s \in ClientSources
    PROVE  Run(s)' = Run(s) \/ Runs!Step(Run(s), Run(s)')
  <1>1. s \in Sources /\ current[s] \in Nat /\ current[s] <= arcs /\ arcs \in Nat
    <2>1. s \in Sources
      BY ClientOut
    <2>2. current[s] \in 0..MaxArcs /\ arcs \in 0..MaxArcs
      BY <2>1 DEF IInv, TypeOK
    <2>3. current[s] <= arcs
      BY <2>1 DEF IInv, Numbered
    <2>4. QED BY <2>1, <2>2, <2>3, Bounds
  <1>2. CASE s \in Startable(S)
    <2>1. active[s] = 0 /\ HostsOf(s) # {}
      BY <1>2 DEF Startable
    <2>2. /\ current'[s] = arcs + 1 /\ view'[s] = {}
          /\ active'[s] = Cardinality(HostsOf(s))
      BY <1>1, <1>2 DEF IInv, TypeOK, Starts, start_sources, ViewAfterStart
    <2>3. active'[s] # 0 /\ active'[s] \in Nat
      BY <1>1, <2>1, <2>2, HostsOfType, FS_EmptySet DEF IInv
    <2>4. <<s, arcs + 1>> \notin stopped'
      <3>1. \A t \in Startable(S) : current[t] <= arcs
        BY DEF Startable, IInv, Numbered
      <3>2. \A f \in stopped' : f[2] <= arcs
        BY <3>1 DEF Starts, start_sources, RaisedByStart, IInv, Numbered
      <3>3. QED BY <1>1, <3>2
    <2>5. Cardinality(UnheardOfRun(s)') = active'[s]
      BY OutNext
    <2>6. Run(s).phase = "idle" /\ Run(s).id = current[s]
      BY <2>1 DEF Run, Phase
    <2>7. /\ Run(s)'.phase = "running" /\ Run(s)'.id = arcs + 1
          /\ Run(s)'.out = active'[s] /\ Run(s)'.shown = {}
      BY <2>2, <2>3, <2>4, <2>5 DEF Run, Phase
    <2>8. Runs!Start(Run(s), Run(s)')
      BY <1>1, <2>3, <2>6, <2>7 DEF Runs!Start
    <2>9. QED BY <2>8 DEF Runs!Step
  <1>3. CASE s \notin Startable(S)
    <2>1. active'[s] = active[s] /\ current'[s] = current[s] /\ view'[s] = view[s]
      BY <1>1, <1>3 DEF IInv, TypeOK, Starts, start_sources, ViewAfterStart
    <2>2. <<s, current[s]>> \in stopped' <=> <<s, current[s]>> \in stopped
      BY <1>3 DEF Starts, start_sources, RaisedByStart
    <2>3. QED BY <2>1, <2>2, SameRun DEF Run
  <1>4. QED BY <1>2, <1>3

LEMMA DoneRun ==
    ASSUME IInv, IInv', receive_done, NEW s \in ClientSources
    PROVE  Run(s)' = Run(s) \/ Runs!Step(Run(s), Run(s)')
  <1>1. PICK w : w = Head(chan).from
    OBVIOUS
  <1>2. /\ active' = [active EXCEPT ![w.src] = Uncounted(w.src)]
        /\ current' = current /\ view' = view /\ stopped' = stopped
    BY <1>1 DEF receive_done
  <1>0. active \in [Sources -> Nat] /\ TypeOK /\ ReportsOnce
    BY DEF IInv, TypeOK, Reports
  <1>3. s \in Sources /\ active[s] \in Nat
    BY ClientOut
  <1>4. CASE w.src # s
    <2>1. active'[s] = active[s]
      BY <1>0, <1>2, <1>3, <1>4
    <2>2. Run(s)' = [Run(s) EXCEPT !.shown = view'[s]]
      BY <1>2, <2>1, SameRun
    <2>3. QED BY <1>2, <2>2 DEF Run
  <1>5. CASE w.src = s
    <2>1. w \in UnheardOf(s)
      BY <1>0, <1>1, <1>5, UnheardSteps DEF UnheardOf
    <2>2. active[s] # 0 /\ active'[s] = active[s] - 1
      BY <1>0, <1>2, <1>3, <1>5, <2>1, ClientOut DEF Uncounted
    <2>3. /\ Cardinality(UnheardOfRun(s)) = active[s]
          /\ Cardinality(UnheardOfRun(s)') = active'[s]
      BY ClientOut, OutNext
    <2>4. Run(s).out > 0 /\ Run(s).out = active[s]
      BY <1>3, <2>2, <2>3 DEF Run
    <2>5. Run(s)' = [Run(s) EXCEPT !.out = @ - 1,
                                   !.phase = IF active[s] = 1 THEN "idle" ELSE @]
      <3>1. Phase(s)' = IF active[s] = 1 THEN "idle" ELSE Phase(s)
        BY <1>2, <1>3, <2>2 DEF Phase
      <3>2. Cardinality(UnheardOfRun(s)') = Cardinality(UnheardOfRun(s)) - 1
        BY <1>3, <2>2, <2>3
      <3>3. Run(s)' = [phase |-> IF active[s] = 1 THEN "idle" ELSE Phase(s),
                       id |-> current[s], out |-> Cardinality(UnheardOfRun(s)) - 1,
                       shown |-> view[s]]
        BY <1>2, <3>1, <3>2 DEF Run
      <3>4. Run(s) = [phase |-> Phase(s), id |-> current[s],
                      out |-> Cardinality(UnheardOfRun(s)), shown |-> view[s]]
        BY DEF Run
      <3>5. PICK r : r = Run(s)
        OBVIOUS
      <3>6. PICK q : q = [r EXCEPT !.out = @ - 1,
                                   !.phase = IF active[s] = 1 THEN "idle" ELSE @]
        OBVIOUS
      <3>7. q = [phase |-> IF active[s] = 1 THEN "idle" ELSE r.phase,
                 id |-> r.id, out |-> r.out - 1, shown |-> r.shown]
        BY <3>4, <3>5, <3>6
      <3>8. /\ r.phase = Phase(s) /\ r.id = current[s]
            /\ r.out = Cardinality(UnheardOfRun(s)) /\ r.shown = view[s]
        BY <3>4, <3>5
      <3>9. Run(s)' = q
        BY <3>3, <3>7, <3>8
      <3>10. QED BY <3>5, <3>6, <3>9
    <2>6. QED BY <2>4, <2>5 DEF Runs!Step, Runs!Report
  <1>6. QED BY <1>4, <1>5

LEMMA QuietRun ==
    ASSUME IInv, IInv', Quiet, NEW s \in ClientSources
    PROVE  Run(s)' = Run(s) \/ Runs!Step(Run(s), Run(s)')
  <1>1. active'[s] = active[s] /\ current'[s] = current[s] /\ s \in Sources
    BY QuietClient, ClientOut DEF IInv
  <1>2. CASE \E S : view' = view /\ stopped' = stopped \cup RaisedByStop(S)
    BY <1>1, <1>2, StopRun
  <1>3. CASE view' = view /\ stopped' = stopped
    BY <1>1, <1>3, SameRun DEF Run
  <1>4. CASE clear_captured
    <2>1. Run(s)' = [Run(s) EXCEPT !.shown = {}]
      BY <1>1, <1>4, SameRun DEF clear_captured
    <2>2. QED BY <2>1 DEF Runs!Step, Runs!Clear
  <1>5. CASE receive_line
    <2>1. PICK w : w = Head(chan).from
      OBVIOUS
    <2>2. view' = [view EXCEPT ![w.src] = @ \cup {w.arc}] /\ stopped' = stopped
      BY <1>5, <2>1 DEF receive_line
    <2>3. view \in [Sources -> SUBSET (1..MaxArcs)]
      BY DEF IInv, TypeOK
    <2>4. CASE w.src # s
      <3>1. view'[s] = view[s]
        BY <1>1, <2>2, <2>4, <2>3
      <3>2. QED BY <1>1, <2>2, <3>1, SameRun DEF Run
    <2>5. CASE w.src = s
      <3>1. w \in UnheardOf(s)
        <4>1. chan # <<>> /\ Head(chan).type = "line"
          BY <1>5 DEF receive_line, Receives
        <4>2. /\ Head(chan) = chan[1] /\ 1 \in 1..Len(chan) /\ Head(chan) \in Messages
          <5>1. chan \in Seq(Messages)
            BY DEF IInv, TypeOK
          <5>2. QED BY <4>1, <5>1, HeadTailProperties, EmptySeq
        <4>3. w \in live \/ \E j \in 2..Len(chan) : chan[j] = Done(w)
          BY <2>1, <4>1, <4>2 DEF IInv, Reports, LinesFirst
        <4>4. w \in Workers
          BY <2>1, <4>1, <4>2, MessageTypes
        <4>5. QED BY <2>5, <4>2, <4>3, <4>4 DEF UnheardOf, Unheard, Waits
      <3>2. view'[s] = {current[s]}
        BY <1>1, <2>2, <2>5, <2>3, <3>1 DEF IInv, ClientView, ClientSession
      <3>3. Run(s)' = [Run(s) EXCEPT !.shown = {current[s]}]
        BY <1>1, <2>2, <3>2, SameRun
      <3>4. Run(s).phase # "idle" /\ Run(s).id = current[s]
        BY <3>1, ClientOut DEF Run, Phase
      <3>5. QED BY <3>3, <3>4 DEF Runs!Step, Runs!Show
    <2>6. QED BY <2>4, <2>5
  <1>6. ASSUME Quiet, ~clear_captured, ~receive_line
        PROVE  view' = view /\ (stopped' = stopped \/ \E S : stopped' = stopped \cup RaisedByStop(S))
    BY <1>6 DEF Quiet, stop_sources, runVars, spawn_trace_install, persist_and_apply_config,
                begin_shutdown, worker_line, worker_done, install_reports, receive_install
  <1>7. QED BY <1>2, <1>3, <1>4, <1>5, <1>6

LEMMA InitRuns == Init => Runs!Init
  <1> SUFFICES ASSUME Init PROVE Runs!Init
    OBVIOUS
  <1>1. IInv
    BY InitIInv
  <1>2. ASSUME NEW s \in ClientSources
        PROVE  Run(s) = [phase |-> "idle", id |-> 0, out |-> 0, shown |-> {}]
    <2>1. active[s] = 0 /\ current[s] = 0 /\ view[s] = {}
      BY <1>1, ClientOut DEF Init
    <2>2. Cardinality(UnheardOfRun(s)) = 0
      BY <1>1, <2>1, ClientOut
    <2>3. QED BY <2>1, <2>2 DEF Run, Phase
  <1>3. QED BY <1>2 DEF Runs!Init

LEMMA NextRuns ==
    ASSUME IInv, IInv', [Next]_vars
    PROVE  Runs!Next
  <1>1. ASSUME NEW s \in ClientSources
        PROVE  Run(s)' = Run(s) \/ Runs!Step(Run(s), Run(s)')
    BY Cases, StartRun, DoneRun, QuietRun DEF IInv
  <1>2. QED BY <1>1 DEF Runs!Next

(* The client sources do what TraceSource promises, on any hosts: a run    *)
(* starts from idle only and with an empty view, ends when its last worker *)
(* has reported, and shows no line before it starts or after it ends.      *)
THEOREM ClientsImplementTraceSource == Spec => RunsSpec
  BY Invariance, InitRuns, NextRuns, PTL DEF Spec, RunsSpec, Runs!Spec
=============================================================================
