------------------------- MODULE LiveStreamsProofs --------------------------
(***************************************************************************)
(* Theorems about LiveStreams, for any hosts and profiles and any bounds.  *)
(***************************************************************************)
EXTENDS LiveStreams, FiniteSetTheorems, SequenceTheorems, TLAPS

-----------------------------------------------------------------------------
(* The channel and the types.                                              *)

(* A thread is one that some profile starts.                               *)
LEMMA ThreadShape ==
    ASSUME NEW t \in Threads
    PROVE  /\ t.id \in Ids
           /\ t.epoch \in 1..MaxEpochs
  <1>1. PICK c \in Configs, e \in 1..MaxEpochs : t \in StreamsOf(c, e)
    BY DEF Threads
  <1>2. c.admin \in Hosts /\ \A n \in DOMAIN c.hosts : c.hosts[n] \in Hosts
    BY ConfigShape
  <1>3. QED BY <1>1, <1>2 DEF StreamsOf, Cluster, Node, Ids

LEMMA StartedShape ==
    ASSUME NEW c \in Configs, NEW e \in 1..MaxEpochs
    PROVE  /\ StreamsOf(c, e) \subseteq Threads
           /\ \A t \in StreamsOf(c, e) : t.epoch = e
  <1>1. StreamsOf(c, e) \in {StreamsOf(d, f) : d \in Configs, f \in 1..MaxEpochs}
    OBVIOUS
  <1>2. Threads = UNION {StreamsOf(d, f) : d \in Configs, f \in 1..MaxEpochs}
    BY DEF Threads
  <1>3. StreamsOf(c, e) \subseteq Threads
    BY <1>1, <1>2
  <1>4. QED BY <1>3 DEF StreamsOf

(* Sending puts a message behind those that wait.                          *)
LEMMA Sending ==
    ASSUME chan \in Seq(Messages), NEW m \in Messages, chan' = Append(chan, m)
    PROVE  /\ chan' \in Seq(Messages)
           /\ Len(chan) \in Nat
           /\ Len(chan') = Len(chan) + 1
           /\ \A i \in 1..Len(chan) : chan'[i] = chan[i]
           /\ chan'[Len(chan) + 1] = m
  OBVIOUS

(* Receiving takes the first message and moves the others up.              *)
LEMMA Receiving ==
    ASSUME chan \in Seq(Messages), chan # <<>>, chan' = Tail(chan)
    PROVE  /\ chan' \in Seq(Messages)
           /\ Len(chan) \in Nat \ {0}
           /\ Len(chan') = Len(chan) - 1
           /\ \A i \in 1..Len(chan') : chan'[i] = chan[i + 1]
           /\ Head(chan) = chan[1]
           /\ Head(chan) \in Messages
  BY HeadTailProperties, EmptySeq

(* A send leaves a channel of messages.                                    *)
LEMMA SendType ==
    ASSUME TypeOK, NEW t \in Threads, NEW type \in Types, Sends(t, type)
    PROVE  chan' \in Seq(Messages)
  <1>1. [type |-> type, from |-> t] \in Messages
    BY DEF Messages
  <1>2. CASE UNCHANGED chan
    BY <1>2 DEF TypeOK
  <1>3. CASE chan' = Append(chan, [type |-> type, from |-> t])
    BY <1>1, <1>3, Sending DEF TypeOK
  <1>4. QED BY <1>2, <1>3 DEF Sends

LEMMA InitType == Init => TypeOK
  <1> SUFFICES ASSUME Init PROVE TypeOK
    OBVIOUS
  <1>1. epoch \in 1..MaxEpochs /\ records \in 0..SnapshotLimit
    BY Bounds DEF Init
  <1>2. snapshot \in Snapshots
    BY DEF Init, NoSnapshot, Snapshots
  <1>3. pc \in [Threads -> Places] /\ statuses \in [Ids -> States]
    BY DEF Init, Places, States
  <1>4. chan \in Seq(Messages)
    BY DEF Init
  <1>5. QED BY <1>1, <1>2, <1>3, <1>4 DEF Init, TypeOK

LEMMA StreamType ==
    ASSUME TypeOK, NEW t \in Threads, StreamThread(t)
    PROVE  TypeOK'
  <1>1. /\ {"Connecting", "Connected", "Line", "Refused", "Error", "Disconnected"} = Types
        /\ \A from, to : to \in Places /\ Goes(t, from, to) => pc' \in [Threads -> Places]
    BY DEF Types, Goes, TypeOK
  <1>2. /\ {"top", "connecting", "spawning", "reading", "forwarding", "ended", "lost", "gone"} \subseteq Places
        /\ UNCHANGED <<configVars, viewVars>>
    BY DEF Places, Running, StreamThread, stream_top, stream_connecting, stream_spawned,
           stream_spawn_fails, stream_line, stream_forward, stream_read_fails, stream_ended,
           stream_lost
  <1>3. SUFFICES pc' \in [Threads -> Places] /\ stderr' \in SUBSET Threads
                 /\ chan' \in Seq(Messages)
    BY <1>2 DEF TypeOK, configVars, viewVars
  <1>4. CASE stream_top(t)
    BY <1>1, <1>2, <1>4 DEF stream_top, TypeOK
  <1>5. CASE stream_connecting(t)
    BY <1>1, <1>2, <1>5, SendType DEF stream_connecting, TypeOK
  <1>6. CASE stream_spawned(t)
    BY <1>1, <1>2, <1>6, SendType DEF stream_spawned, TypeOK
  <1>7. CASE stream_spawn_fails(t)
    BY <1>1, <1>2, <1>7, SendType DEF stream_spawn_fails, TypeOK
  <1>8. CASE stream_line(t)
    BY <1>1, <1>2, <1>8 DEF stream_line, PlaceAfterLine, TypeOK
  <1>9. CASE stream_forward(t)
    <2>1. PICK type \in Payloads : Sends(t, type)
      BY <1>9 DEF stream_forward
    <2>2. type \in Types
      BY Bounds DEF Types
    <2>3. QED BY <1>1, <1>2, <1>9, <2>1, <2>2, SendType DEF stream_forward, TypeOK
  <1>10. CASE stream_read_fails(t)
    BY <1>1, <1>2, <1>10, SendType DEF stream_read_fails, TypeOK
  <1>11. CASE stream_ended(t)
    BY <1>1, <1>2, <1>11 DEF stream_ended, TypeOK
  <1>12. CASE stream_lost(t)
    BY <1>1, <1>2, <1>12, SendType DEF stream_lost, TypeOK
  <1>13. QED
    BY <1>4, <1>5, <1>6, <1>7, <1>8, <1>9, <1>10, <1>11, <1>12 DEF StreamThread

LEMMA StderrType ==
    ASSUME TypeOK, NEW t \in Threads, StderrReader(t)
    PROVE  TypeOK'
  <1>1. "Error" \in Types
    BY DEF Types
  <1>2. CASE stderr_line(t)
    BY <1>1, <1>2, SendType DEF stderr_line, TypeOK, configVars, viewVars
  <1>3. CASE stderr_ends(t)
    BY <1>3 DEF stderr_ends, TypeOK, configVars, viewVars
  <1>4. QED BY <1>2, <1>3 DEF StderrReader

LEMMA DrainType ==
    ASSUME TypeOK, Drain
    PROVE  TypeOK'
  <1>1. /\ chan # <<>> /\ chan' = Tail(chan)
        /\ UNCHANGED <<configVars, pc, stderr>>
    BY DEF Drain, receive_state, receive_refused, receive_cluster_line, receive_node_line, Receives
  <1>2. Head(chan) \in Messages /\ chan' \in Seq(Messages)
    BY <1>1, Receiving DEF TypeOK
  <1>3. Head(chan).from.id \in Ids /\ Head(chan).from.id.host \in Hosts
    BY <1>2, ThreadShape DEF Messages, Ids
  <1>4. config.admin \in Hosts /\ config.hosts \in Seq(Hosts)
    BY ConfigShape DEF TypeOK
  <1>5. \A k \in SUBSET Hosts : OrderedNodes(k) \in SUBSET Hosts
    BY <1>4 DEF OrderedNodes, Range
  <1>6. CASE receive_state
    <2>1. StateOf(Head(chan).type) \in States
      BY <1>6 DEF receive_state, Receives, StateOf, States
    <2>2. statuses' \in [Ids -> States]
      BY <1>3, <1>6, <2>1 DEF receive_state, TypeOK
    <2>3. QED BY <1>1, <1>2, <1>6, <2>2 DEF receive_state, TypeOK, configVars
  <1>7. CASE receive_refused
    BY <1>1, <1>2, <1>3, <1>7 DEF receive_refused, TypeOK, configVars, States
  <1>8. CASE receive_cluster_line
    <2>1. records' \in 0..SnapshotLimit
      BY <1>8, Bounds DEF receive_cluster_line, AfterRecord, TypeOK
    <2>2. snapshot' \in Snapshots
      BY <1>3, <1>4, <1>5, <1>8 DEF receive_cluster_line, Snapshots, TypeOK
    <2>3. statuses' \in [Ids -> States]
      BY <1>3, <1>8 DEF receive_cluster_line, TypeOK, States
    <2>4. QED BY <1>1, <1>2, <1>8, <2>1, <2>2, <2>3 DEF receive_cluster_line, TypeOK, configVars
  <1>9. CASE receive_node_line
    <2>1. summaries' \in SUBSET Hosts
      BY <1>3, <1>9 DEF receive_node_line, TypeOK
    <2>2. snapshot' \in Snapshots
      BY <1>5, <1>9, <2>1 DEF receive_node_line, Snapshots, NoSnapshot, TypeOK
    <2>3. statuses' \in [Ids -> States]
      BY <1>3, <1>9 DEF receive_node_line, TypeOK, States
    <2>4. QED BY <1>1, <1>2, <1>9, <2>1, <2>2, <2>3 DEF receive_node_line, TypeOK, configVars
  <1>10. QED BY <1>6, <1>7, <1>8, <1>9 DEF Drain

LEMMA ScreenType ==
    ASSUME TypeOK,
           \/ start_live_app
           \/ \E c \in Configs : persist_and_apply_config(c)
           \/ begin_shutdown
    PROVE  TypeOK'
  <1>1. \A c, e : Started(c, e) \in [Threads -> Places]
    BY DEF Started, TypeOK, Places, Running
  <1>2. CASE start_live_app
    BY <1>1, <1>2 DEF start_live_app, TypeOK, viewVars
  <1>3. ASSUME NEW c \in Configs, persist_and_apply_config(c) PROVE TypeOK'
    BY <1>1, <1>3, Bounds
    DEF persist_and_apply_config, TypeOK, Raised, SnapshotAfterApply, NoSnapshot, Snapshots, States
  <1>4. CASE begin_shutdown
    BY <1>4 DEF begin_shutdown, TypeOK, viewVars
  <1>5. QED BY <1>2, <1>3, <1>4

LEMMA NextType == TypeOK /\ [Next]_vars => TypeOK'
  <1>1. CASE UNCHANGED vars
    BY <1>1 DEF TypeOK, vars, configVars, viewVars
  <1>2. QED
    BY <1>1, StreamType, StderrType, DrainType, ScreenType DEF Next, MainLoop

(* Every state has the shape the declarations give it.                     *)
THEOREM TypeCorrect == Spec => []TypeOK
  <1>1. QED BY InitType, NextType, PTL DEF Spec

-----------------------------------------------------------------------------
(* The threads and their flags.                                            *)

(* The stop flag of now is down while the TUI is live, every earlier one   *)
(* is up, and the threads of the flag of now are those of the profile.     *)
FlagOrder ==
    /\ stage # "quitting" => raised = 1..(epoch - 1)
    /\ stage = "quitting" => raised = 1..epoch
ThreadsOfFlag ==
    /\ \A t \in Alive : t.epoch <= epoch
    /\ stage = "opening" => Alive = {}
    /\ stage = "live" => \A t \in Threads :
           t.epoch = epoch => (t \in Alive <=> t \in StreamsOf(config, epoch))
FlagInv == TypeOK /\ FlagOrder /\ ThreadsOfFlag

(* A thread leaves the loop only when its flag is up.                      *)
LEMMA ThreadStays ==
    ASSUME TypeOK, NEW t \in Threads, StreamThread(t)
    PROVE  /\ t \in Alive
           /\ UNCHANGED <<configVars, viewVars>>
           /\ \A u \in Threads : u # t => pc'[u] = pc[u]
           /\ pc'[t] \in Running \/ (pc'[t] = "gone" /\ Stopped(t))
  <1>1. \A from, to : from \in Running /\ Goes(t, from, to) =>
            /\ t \in Alive
            /\ \A u \in Threads : u # t => pc'[u] = pc[u]
            /\ pc'[t] = to
    BY DEF Goes, Alive, TypeOK
  <1>2. {"top", "connecting", "spawning", "reading", "forwarding", "ended", "lost"} = Running
    BY DEF Running
  <1>3. CASE stream_top(t)
    BY <1>1, <1>2, <1>3 DEF stream_top
  <1>4. CASE stream_connecting(t)
    BY <1>1, <1>2, <1>4 DEF stream_connecting
  <1>5. CASE stream_spawned(t)
    BY <1>1, <1>2, <1>5 DEF stream_spawned
  <1>6. CASE stream_spawn_fails(t)
    BY <1>1, <1>2, <1>6 DEF stream_spawn_fails
  <1>7. CASE stream_line(t)
    BY <1>1, <1>2, <1>7 DEF stream_line, PlaceAfterLine
  <1>8. CASE stream_forward(t)
    BY <1>1, <1>2, <1>8 DEF stream_forward
  <1>9. CASE stream_read_fails(t)
    BY <1>1, <1>2, <1>9 DEF stream_read_fails
  <1>10. CASE stream_ended(t)
    BY <1>1, <1>2, <1>10 DEF stream_ended
  <1>11. CASE stream_lost(t)
    BY <1>1, <1>2, <1>11 DEF stream_lost
  <1>12. QED
    BY <1>3, <1>4, <1>5, <1>6, <1>7, <1>8, <1>9, <1>10, <1>11 DEF StreamThread

(* The main loop's drain and the stderr readers move no thread.            *)
LEMMA OthersStay ==
    ASSUME Drain \/ \E t \in Threads : StderrReader(t)
    PROVE  UNCHANGED <<configVars, pc>>
  BY DEF Drain, receive_state, receive_refused, receive_cluster_line, receive_node_line,
         StderrReader, stderr_line, stderr_ends

LEMMA StartedThreads ==
    ASSUME TypeOK, NEW c \in Configs, NEW e \in 1..MaxEpochs, pc' = Started(c, e)
    PROVE  \A t \in Threads :
               t \in Alive' <=> (t \in Alive \/ t \in StreamsOf(c, e))
  BY DEF Started, Alive, Running, TypeOK

LEMMA FlagInit == Init => FlagInv
  <1> SUFFICES ASSUME Init PROVE FlagInv
    OBVIOUS
  <1>1. Alive = {}
    BY DEF Init, Alive, Running
  <1>2. QED
    BY <1>1, InitType, Bounds DEF Init, FlagInv, FlagOrder, ThreadsOfFlag

LEMMA FlagStep == FlagInv /\ [Next]_vars => FlagInv'
  <1> SUFFICES ASSUME FlagInv, [Next]_vars PROVE FlagInv'
    OBVIOUS
  <1> USE DEF FlagInv
  <1>1. TypeOK'
    BY NextType
  <1>2. epoch \in 1..MaxEpochs /\ MaxEpochs \in Nat
    BY Bounds DEF TypeOK
  <1>3. \A t \in Threads : t.id \in Ids /\ t.epoch \in 1..MaxEpochs
    BY ThreadShape
  <1>4. ASSUME UNCHANGED <<configVars, pc>> PROVE FlagInv'
    BY <1>1, <1>4 DEF FlagOrder, ThreadsOfFlag, configVars, Alive
  <1>5. ASSUME NEW t \in Threads, StreamThread(t) PROVE FlagInv'
    <2>1. /\ t \in Alive
          /\ UNCHANGED configVars
          /\ \A u \in Threads : u # t => (u \in Alive' <=> u \in Alive)
          /\ t \in Alive' \/ (t.epoch \in raised)
      BY <1>5, ThreadStays DEF Alive, Stopped, viewVars
    <2>2. FlagOrder'
      BY <2>1 DEF FlagOrder, configVars
    <2>3. Alive' \subseteq Alive
      BY <2>1 DEF Alive
    <2>4. ASSUME stage = "live", NEW u \in Threads, u.epoch = epoch
          PROVE  u \in Alive' <=> u \in StreamsOf(config, epoch)
      <3>1. CASE u = t
        BY <1>2, <2>1, <2>4, <3>1 DEF FlagOrder, ThreadsOfFlag
      <3>2. CASE u # t
        BY <2>1, <2>4, <3>2 DEF ThreadsOfFlag
      <3>3. QED BY <3>1, <3>2
    <2>5. ThreadsOfFlag'
      BY <2>1, <2>3, <2>4 DEF ThreadsOfFlag, configVars
    <2>6. QED BY <1>1, <2>2, <2>5
  <1>6. CASE start_live_app
    <2>1. /\ stage = "opening" /\ stage' = "live"
          /\ pc' = Started(config, epoch)
          /\ UNCHANGED <<config, epoch, raised>>
      BY <1>6 DEF start_live_app
    <2>2. \A t \in Threads : t \in Alive' <=> t \in StreamsOf(config, epoch)
      BY <2>1, StartedThreads DEF TypeOK, ThreadsOfFlag
    <2>3. Alive' \subseteq Threads
      BY DEF Alive
    <2>4. \A t \in Alive' : t.epoch = epoch
      BY <2>2, <2>3, StartedShape DEF TypeOK
    <2>5. ThreadsOfFlag'
      BY <1>2, <2>1, <2>2, <2>3, <2>4 DEF ThreadsOfFlag
    <2>6. FlagOrder'
      BY <2>1 DEF FlagOrder
    <2>7. QED BY <1>1, <2>5, <2>6
  <1>7. ASSUME NEW c \in Configs, persist_and_apply_config(c) PROVE FlagInv'
    <2>1. /\ stage = "live" /\ stage' = "live"
          /\ epoch' = epoch + 1 /\ epoch + 1 \in 1..MaxEpochs
          /\ raised' = raised \cup {epoch}
          /\ config' = c
          /\ pc' = Started(c, epoch + 1)
      BY <1>2, <1>7 DEF persist_and_apply_config, Raised
    <2>2. \A t \in Threads :
              t \in Alive' <=> (t \in Alive \/ t \in StreamsOf(c, epoch + 1))
      BY <2>1, StartedThreads
    <2>3. Alive' \subseteq Threads /\ Alive \subseteq Threads
      BY DEF Alive
    <2>4. raised' = 1..((epoch + 1) - 1)
      BY <1>2, <2>1 DEF FlagOrder
    <2>5. \A t \in Alive : t.epoch <= epoch
      BY DEF ThreadsOfFlag
    <2>6. \A t \in StreamsOf(c, epoch + 1) : t.epoch = epoch + 1
      BY <2>1, StartedShape
    <2>7. \A t \in Alive' : t.epoch <= epoch + 1
      BY <1>2, <1>3, <2>2, <2>3, <2>5, <2>6
    <2>8. \A t \in Threads :
              t.epoch = epoch + 1 => (t \in Alive' <=> t \in StreamsOf(c, epoch + 1))
      BY <1>2, <1>3, <2>2, <2>3, <2>5
    <2>9. ThreadsOfFlag'
      BY <2>1, <2>7, <2>8 DEF ThreadsOfFlag
    <2>10. QED BY <1>1, <2>1, <2>4, <2>9 DEF FlagOrder
  <1>8. CASE begin_shutdown
    <2>1. raised' = 1..epoch
      BY <1>2, <1>8 DEF begin_shutdown, FlagOrder
    <2>2. QED
      BY <1>1, <1>8, <2>1 DEF begin_shutdown, FlagOrder, ThreadsOfFlag, Alive
  <1>9. QED
    BY <1>4, <1>5, <1>6, <1>7, <1>8, OthersStay DEF Next, MainLoop, vars, configVars

(* The threads that nothing told to stop are one for the admin host and    *)
(* one for each entry of the list of the profile of now, whatever was      *)
(* changed how often before.                                               *)
LEMMA FlagMeansCurrent == FlagInv => OneStreamEach
  <1> SUFFICES ASSUME FlagInv, stage = "live" PROVE Current = StreamsOf(config, epoch)
    BY DEF OneStreamEach
  <1> USE DEF FlagInv
  <1>1. raised = 1..(epoch - 1) /\ epoch \in 1..MaxEpochs /\ MaxEpochs \in Nat
    BY Bounds DEF FlagOrder, TypeOK
  <1>2. \A t \in Alive : t \in Threads /\ t.epoch \in 1..epoch
    BY <1>1, ThreadShape DEF ThreadsOfFlag, Alive
  <1>3. \A t \in Alive : ~Stopped(t) <=> t.epoch = epoch
    BY <1>1, <1>2 DEF Stopped
  <1>4. StreamsOf(config, epoch) \subseteq Threads /\ \A t \in StreamsOf(config, epoch) : t.epoch = epoch
    BY <1>1, StartedShape DEF TypeOK
  <1>5. QED BY <1>2, <1>3, <1>4 DEF Current, ThreadsOfFlag

THEOREM OneStreamEachEntry == Spec => []OneStreamEach
  <1>1. QED BY FlagMeansCurrent, FlagInit, FlagStep, PTL DEF Spec

(* README.md:360, "one SSH stream open for cluster status and one stream   *)
(* per host", holds of a profile that names no host twice: no two threads  *)
(* that nothing told to stop have one id.                                  *)
THEOREM OneStreamEachId == Spec => [](IsInjective(config.hosts) => OneStreamPerHost)
  <1>1. FlagInv => (IsInjective(config.hosts) => OneStreamPerHost)
    <2> SUFFICES ASSUME FlagInv, IsInjective(config.hosts), stage = "live",
                        NEW t \in Current, NEW u \in Current, t.id = u.id
                 PROVE  t = u
      BY DEF OneStreamPerHost
    <2>1. t \in StreamsOf(config, epoch) /\ u \in StreamsOf(config, epoch)
      BY FlagMeansCurrent DEF OneStreamEach
    <2>2. QED BY <2>1 DEF StreamsOf, Cluster, Node, IsInjective
  <1>2. QED BY <1>1, FlagInit, FlagStep, PTL DEF Spec

-----------------------------------------------------------------------------
(* The snapshot.                                                           *)

LEMMA SnapshotStep == TypeOK /\ SnapshotConfigured /\ [Next]_vars => SnapshotConfigured'
  <1> SUFFICES ASSUME TypeOK, SnapshotConfigured, [Next]_vars PROVE SnapshotConfigured'
    OBVIOUS
  <1>1. snapshot.nodes \subseteq summaries
    BY DEF SnapshotConfigured, NoSnapshot
  <1>2. ASSUME UNCHANGED <<config, snapshot, summaries>> PROVE SnapshotConfigured'
    BY <1>2 DEF SnapshotConfigured
  <1>3. ASSUME NEW t \in Threads, StreamThread(t) \/ StderrReader(t)
        PROVE  UNCHANGED <<config, snapshot, summaries>>
    BY <1>3, ThreadStays DEF StderrReader, stderr_line, stderr_ends, configVars, viewVars
  <1>4. ASSUME start_live_app \/ begin_shutdown \/ receive_state \/ receive_refused
        PROVE  UNCHANGED <<config, snapshot, summaries>>
    BY <1>4 DEF start_live_app, begin_shutdown, receive_state, receive_refused, configVars, viewVars
  <1>5. ASSUME NEW c \in Configs, persist_and_apply_config(c) PROVE SnapshotConfigured'
    BY <1>5 DEF persist_and_apply_config, SnapshotAfterApply, SnapshotConfigured, NoSnapshot
  <1>6. CASE receive_cluster_line
    BY <1>1, <1>6 DEF receive_cluster_line, configVars, SnapshotConfigured, OrderedNodes
  <1>7. CASE receive_node_line
    <2>1. config' = config /\ summaries \subseteq summaries'
      BY <1>7 DEF receive_node_line, configVars
    <2>2. CASE snapshot = NoSnapshot
      BY <1>7, <2>2 DEF receive_node_line, SnapshotConfigured, NoSnapshot
    <2>3. CASE snapshot # NoSnapshot
      <3>1. snapshot' = [snapshot EXCEPT !.nodes = OrderedNodes(summaries')]
        BY <1>7, <2>3 DEF receive_node_line
      <3>2. OrderedNodes(summaries') = Range(config.hosts) \cap summaries'
        BY <1>1, <2>1 DEF OrderedNodes
      <3>3. snapshot \in Snapshots
        BY DEF TypeOK
      <3>4. QED BY <2>1, <2>3, <3>1, <3>2, <3>3 DEF SnapshotConfigured, Snapshots
    <2>4. QED BY <2>2, <2>3
  <1>8. QED
    BY <1>2, <1>3, <1>4, <1>5, <1>6, <1>7
    DEF Next, MainLoop, Drain, vars, configVars, viewVars

(* The snapshot carries the labels of the profile of now, and shows as     *)
(* heard exactly the configured hosts heard since it was applied.          *)
THEOREM SnapshotOfProfile == Spec => []SnapshotConfigured
  <1>1. Init => SnapshotConfigured
    BY DEF Init, SnapshotConfigured
  <1>2. QED BY <1>1, InitType, NextType, SnapshotStep, PTL DEF Spec

-----------------------------------------------------------------------------
(* The state a stream is shown in.                                         *)

(* Nobody has sent for a flag that is not allocated yet.                   *)
SendersKnown ==
    /\ \A i \in 1..Len(chan) : chan[i].from.epoch <= epoch
    /\ \A t \in stderr : t.epoch <= epoch

(* What an id will be shown as once its last waiting message, or else its  *)
(* present entry, counts: live only if the sender has a child.             *)
LiveTypes == {"Connected", "Line", "Refused"}
IsLast(W, k) == k \in W /\ \A j \in W : j <= k
HasChild(i) == \E t \in Threads : t.id = i /\ t.epoch = 1 /\ pc[t] \in WithChild
Truthful(i) ==
    /\ WaitingFor(i) = {} /\ statuses[i] = "Live" => HasChild(i)
    /\ \A k \in WaitingFor(i) :
           IsLast(WaitingFor(i), k) /\ chan[k].type \in LiveTypes => pc[chan[k].from] \in WithChild
AllTruthful == stage # "quitting" /\ epoch = 1 => \A i \in Ids : Truthful(i)
ShownInv == FlagInv /\ SendersKnown /\ AllTruthful

(* A send adds one waiting message to its stream, behind the others; one   *)
(* of type "Error" adds none.                                              *)
LEMMA SendWaiting ==
    ASSUME TypeOK, stage # "quitting",
           NEW t \in Threads, NEW type \in Types, Sends(t, type)
    PROVE  /\ \A i \in Ids : i # t.id \/ type = "Error" =>
                  /\ WaitingFor(i)' = WaitingFor(i)
                  /\ \A k \in WaitingFor(i) : chan'[k] = chan[k]
           /\ type # "Error" =>
                  \E k \in WaitingFor(t.id)' :
                      IsLast(WaitingFor(t.id)', k) /\ chan'[k] = [type |-> type, from |-> t]
           /\ \A k \in 1..Len(chan') :
                  (k \in 1..Len(chan) /\ chan'[k] = chan[k]) \/ chan'[k].from = t
  <1> DEFINE m == [type |-> type, from |-> t]
             n == Len(chan) + 1
  <1>1. m \in Messages
    BY DEF Messages
  <1>2. chan' = Append(chan, m)
    BY DEF Sends
  <1>3. /\ Len(chan) \in Nat
        /\ Len(chan') = n
        /\ \A k \in 1..Len(chan) : chan'[k] = chan[k]
        /\ chan'[n] = m
    BY <1>1, <1>2, Sending DEF TypeOK
  <1>4. \A k \in 1..Len(chan') : k \in 1..Len(chan) \/ k = n
    BY <1>3
  <1>5. ASSUME NEW i \in Ids, i # t.id \/ type = "Error"
        PROVE  /\ WaitingFor(i)' = WaitingFor(i)
               /\ \A k \in WaitingFor(i) : chan'[k] = chan[k]
    BY <1>3, <1>4, <1>5 DEF WaitingFor
  <1>6. ASSUME type # "Error"
        PROVE  n \in WaitingFor(t.id)' /\ IsLast(WaitingFor(t.id)', n) /\ chan'[n] = m
    <2>1. n \in WaitingFor(t.id)'
      BY <1>3, <1>6 DEF WaitingFor
    <2>2. \A j \in WaitingFor(t.id)' : j <= n
      BY <1>3 DEF WaitingFor
    <2>3. QED BY <1>3, <2>1, <2>2 DEF IsLast
  <1>7. QED BY <1>3, <1>4, <1>5, <1>6

(* A step of a thread or of a stderr reader keeps the senders known.       *)
LEMMA SenderStep ==
    ASSUME ShownInv, stage # "quitting", NEW t \in Threads,
           StreamThread(t) \/ StderrReader(t)
    PROVE  SendersKnown'
  <1> USE DEF ShownInv, FlagInv
  <1>1. /\ t.epoch <= epoch
        /\ epoch' = epoch
        /\ stderr' \subseteq stderr \cup {t}
    <2>1. CASE StreamThread(t)
      BY <2>1, ThreadStays
      DEF ThreadsOfFlag, configVars, StreamThread, stream_top, stream_connecting, stream_spawned,
          stream_spawn_fails, stream_line, stream_forward, stream_read_fails, stream_ended,
          stream_lost
    <2>2. CASE StderrReader(t)
      BY <2>2 DEF SendersKnown, StderrReader, stderr_line, stderr_ends, configVars
    <2>3. QED BY <2>1, <2>2
  <1>2. UNCHANGED chan \/ \E type \in Types : Sends(t, type)
    BY Bounds
    DEF StreamThread, stream_top, stream_connecting, stream_spawned, stream_spawn_fails,
        stream_line, stream_forward, stream_read_fails, stream_ended, stream_lost,
        StderrReader, stderr_line, stderr_ends, Types
  <1>3. \A i \in 1..Len(chan') : chan'[i].from.epoch <= epoch
    <2>1. CASE UNCHANGED chan
      BY <2>1 DEF SendersKnown
    <2>2. ASSUME NEW type \in Types, Sends(t, type)
          PROVE  \A i \in 1..Len(chan') : chan'[i].from.epoch <= epoch
      BY <1>1, <2>2, SendWaiting DEF SendersKnown
    <2>3. QED BY <1>2, <2>1, <2>2
  <1>4. QED BY <1>1, <1>3 DEF SendersKnown

(* The sender of a waiting message is a thread with the id.                *)
LEMMA WaitingSender ==
    ASSUME TypeOK, NEW i \in Ids, NEW k \in WaitingFor(i)
    PROVE  chan[k].from \in Threads /\ chan[k].from.id = i
  <1>1. k \in 1..Len(chan) /\ chan[k].from.id = i
    BY DEF WaitingFor
  <1>2. chan[k] \in Messages
    BY <1>1, ElementOfSeq DEF TypeOK
  <1>3. QED BY <1>1, <1>2 DEF Messages

(* A thread that sends nothing keeps its child, if it had one.             *)
LEMMA QuietStep ==
    ASSUME TypeOK, AllTruthful, stage # "quitting", epoch = 1,
           UNCHANGED <<statuses, chan>>,
           \A t \in Threads : pc[t] \in WithChild => pc'[t] \in WithChild
    PROVE  \A i \in Ids : Truthful(i)'
  <1> SUFFICES ASSUME NEW i \in Ids PROVE Truthful(i)'
    OBVIOUS
  <1>1. WaitingFor(i)' = WaitingFor(i)
    BY DEF WaitingFor
  <1>2. Truthful(i)
    BY DEF AllTruthful
  <1>3. HasChild(i) => HasChild(i)'
    BY DEF HasChild
  <1>4. QED BY <1>1, <1>2, <1>3, WaitingSender DEF Truthful

(* A thread that sends says that it has a child only when it has one.      *)
LEMMA LoudStep ==
    ASSUME TypeOK, AllTruthful, stage # "quitting", epoch = 1, UNCHANGED statuses,
           NEW t \in Threads, NEW type \in Types, Sends(t, type),
           \A u \in Threads : u # t => pc'[u] = pc[u],
           type \in LiveTypes => pc'[t] \in WithChild,
           type = "Error" => (pc[t] \in WithChild => pc'[t] \in WithChild)
    PROVE  \A i \in Ids : Truthful(i)'
  <1> SUFFICES ASSUME NEW i \in Ids PROVE Truthful(i)'
    OBVIOUS
  <1>1. Truthful(i)
    BY DEF AllTruthful
  <1>2. CASE i # t.id \/ type = "Error"
    <2>1. WaitingFor(i)' = WaitingFor(i) /\ \A k \in WaitingFor(i) : chan'[k] = chan[k]
      <3>1. \A j \in Ids : j # t.id \/ type = "Error" =>
                /\ WaitingFor(j)' = WaitingFor(j)
                /\ \A k \in WaitingFor(j) : chan'[k] = chan[k]
        BY SendWaiting
      <3>2. QED BY <1>2, <3>1
    <2>2. \A u \in Threads : u.id = i /\ pc[u] \in WithChild => pc'[u] \in WithChild
      BY <1>2
    <2>3. HasChild(i) => HasChild(i)'
      BY <2>2 DEF HasChild
    <2>4. \A k \in WaitingFor(i) : pc[chan[k].from] \in WithChild => pc'[chan'[k].from] \in WithChild
      BY <2>1, <2>2, WaitingSender
    <2>5. QED BY <1>1, <2>1, <2>3, <2>4 DEF Truthful
  <1>3. CASE i = t.id /\ type # "Error"
    <2>1. PICK k \in WaitingFor(t.id)' :
              IsLast(WaitingFor(t.id)', k) /\ chan'[k] = [type |-> type, from |-> t]
      BY <1>3, SendWaiting
    <2>2. \A j \in WaitingFor(t.id)' : j \in Int
      BY DEF WaitingFor
    <2>3. \A j \in WaitingFor(t.id)' : IsLast(WaitingFor(t.id)', j) => j = k
      BY <2>1, <2>2 DEF IsLast
    <2>4. QED BY <1>3, <2>1, <2>3 DEF Truthful
  <1>4. QED BY <1>2, <1>3

LEMMA ThreadTruthful ==
    ASSUME ShownInv, stage # "quitting", epoch = 1, NEW t \in Threads, StreamThread(t)
    PROVE  \A i \in Ids : Truthful(i)'
  <1> USE DEF ShownInv, FlagInv
  <1>1. /\ UNCHANGED statuses
        /\ \A u \in Threads : u # t => pc'[u] = pc[u]
        /\ pc'[t] # "gone"
    BY ThreadStays DEF viewVars, FlagOrder, Stopped, Running
  <1>2. /\ {"Connecting", "Connected", "Line", "Refused", "Error", "Disconnected"} = Types
        /\ {"Connected", "Line", "Refused"} = LiveTypes
        /\ {"reading", "forwarding", "ended", "lost"} = WithChild
    BY DEF Types, LiveTypes, WithChild
  <1>3. \A from, to : Goes(t, from, to) => pc[t] = from /\ pc'[t] = to
    BY DEF Goes, TypeOK
  <1>4. CASE stream_top(t)
    BY <1>1, <1>2, <1>3, <1>4, QuietStep DEF stream_top
  <1>5. CASE stream_connecting(t)
    BY <1>1, <1>2, <1>3, <1>5, LoudStep DEF stream_connecting
  <1>6. CASE stream_spawned(t)
    BY <1>1, <1>2, <1>3, <1>6, LoudStep DEF stream_spawned
  <1>7. CASE stream_spawn_fails(t)
    BY <1>1, <1>2, <1>3, <1>7, LoudStep DEF stream_spawn_fails
  <1>8. CASE stream_line(t)
    BY <1>1, <1>2, <1>3, <1>8, QuietStep DEF stream_line, PlaceAfterLine
  <1>9. CASE stream_forward(t)
    BY <1>1, <1>2, <1>3, <1>9, LoudStep, Bounds DEF stream_forward
  <1>10. CASE stream_read_fails(t)
    BY <1>1, <1>2, <1>3, <1>10, LoudStep DEF stream_read_fails
  <1>11. CASE stream_ended(t)
    BY <1>1, <1>2, <1>3, <1>11, QuietStep DEF stream_ended
  <1>12. CASE stream_lost(t)
    BY <1>1, <1>2, <1>3, <1>12, LoudStep DEF stream_lost
  <1>13. QED
    BY <1>4, <1>5, <1>6, <1>7, <1>8, <1>9, <1>10, <1>11, <1>12 DEF StreamThread

LEMMA StderrTruthful ==
    ASSUME ShownInv, stage # "quitting", epoch = 1, NEW t \in Threads, StderrReader(t)
    PROVE  \A i \in Ids : Truthful(i)'
  <1> USE DEF ShownInv, FlagInv
  <1>1. CASE stderr_line(t)
    BY <1>1, LoudStep DEF stderr_line, viewVars, Types, LiveTypes
  <1>2. CASE stderr_ends(t)
    BY <1>2, QuietStep DEF stderr_ends, viewVars
  <1>3. QED BY <1>1, <1>2 DEF StderrReader

LEMMA DrainTruthful ==
    ASSUME ShownInv, Drain, epoch = 1
    PROVE  \A i \in Ids : Truthful(i)'
  <1> USE DEF ShownInv, FlagInv
  <1> DEFINE m == Head(chan)
  <1>1. /\ stage # "quitting" /\ chan # <<>> /\ chan' = Tail(chan)
        /\ UNCHANGED pc
    BY DEF Drain, receive_state, receive_refused, receive_cluster_line, receive_node_line, Receives
  <1>2. /\ Len(chan) \in Nat \ {0}
        /\ Len(chan') = Len(chan) - 1
        /\ \A i \in 1..Len(chan') : chan'[i] = chan[i + 1]
        /\ m = chan[1] /\ m \in Messages
    BY <1>1, Receiving DEF TypeOK
  <1>3. /\ \A i \in Ids : i # m.from.id => statuses'[i] = statuses[i]
        /\ statuses'[m.from.id] = "Live" => m.type \in {"Connected", "Line"}
    <2>1. m.from.id \in Ids /\ statuses \in [Ids -> States]
      BY <1>2, ThreadShape DEF Messages, TypeOK
    <2>2. CASE receive_state
      <3>1. m.type \in {"Connecting", "Connected", "Error", "Disconnected"}
        BY <2>2 DEF receive_state, Receives
      <3>2. StateOf(m.type) = "Live" => m.type = "Connected"
        BY <3>1 DEF StateOf
      <3>3. QED BY <2>1, <2>2, <3>2 DEF receive_state
    <2>3. CASE receive_refused
      BY <2>1, <2>3 DEF receive_refused
    <2>4. CASE receive_cluster_line
      BY <2>1, <2>4 DEF receive_cluster_line, Receives
    <2>5. CASE receive_node_line
      BY <2>1, <2>5 DEF receive_node_line, Receives
    <2>6. QED BY <2>2, <2>3, <2>4, <2>5 DEF Drain
  <1> SUFFICES ASSUME NEW i \in Ids PROVE Truthful(i)'
    OBVIOUS
  <1>4. Truthful(i)
    BY <1>1 DEF AllTruthful
  <1>5. \A k \in 1..Len(chan') : k \in WaitingFor(i)' <=> k + 1 \in WaitingFor(i)
    BY <1>2 DEF WaitingFor
  <1>6. \A k \in WaitingFor(i) : k \in Nat /\ (k = 1 \/ (k - 1) \in WaitingFor(i)')
    BY <1>2 DEF WaitingFor
  <1>7. \A k \in WaitingFor(i)' :
            IsLast(WaitingFor(i)', k) => IsLast(WaitingFor(i), k + 1) /\ chan'[k] = chan[k + 1]
    <2> SUFFICES ASSUME NEW k \in WaitingFor(i)', IsLast(WaitingFor(i)', k)
                 PROVE  IsLast(WaitingFor(i), k + 1) /\ chan'[k] = chan[k + 1]
      OBVIOUS
    <2>1. k \in 1..Len(chan')
      BY DEF WaitingFor
    <2>2. \A j \in WaitingFor(i) : j = 1 \/ j - 1 <= k
      BY <1>6 DEF IsLast
    <2>3. k \in Nat \ {0} /\ k + 1 \in WaitingFor(i)
      BY <1>2, <1>5, <2>1
    <2>4. \A j \in WaitingFor(i) : j <= k + 1
      BY <1>6, <2>2, <2>3
    <2>5. QED BY <1>2, <2>1, <2>3, <2>4 DEF IsLast
  <1>8. ASSUME NEW k \in WaitingFor(i)', IsLast(WaitingFor(i)', k), chan'[k].type \in LiveTypes
        PROVE  pc'[chan'[k].from] \in WithChild
    <2>1. IsLast(WaitingFor(i), k + 1) /\ chan'[k] = chan[k + 1]
      BY <1>7, <1>8
    <2>2. k + 1 \in WaitingFor(i)
      BY <2>1 DEF IsLast
    <2>3. pc[chan[k + 1].from] \in WithChild
      BY <1>4, <1>8, <2>1, <2>2 DEF Truthful
    <2>4. QED BY <1>1, <2>1, <2>3
  <1>9. ASSUME WaitingFor(i)' = {}, statuses'[i] = "Live" PROVE HasChild(i)'
    <2>1. \A k \in WaitingFor(i) : k = 1
      BY <1>6, <1>9
    <2>2. CASE m.from.id = i
      <3>1. m.type \in {"Connected", "Line"}
        BY <1>3, <1>9, <2>2
      <3>2. 1 \in WaitingFor(i)
        BY <1>2, <2>2, <3>1 DEF WaitingFor
      <3>3. IsLast(WaitingFor(i), 1) /\ chan[1].type \in LiveTypes
        BY <1>2, <2>1, <3>1, <3>2 DEF IsLast, LiveTypes
      <3>4. pc[m.from] \in WithChild
        BY <1>2, <1>4, <3>2, <3>3 DEF Truthful
      <3>5. m.from \in Threads /\ m.from.epoch <= 1
        BY <1>2 DEF SendersKnown, Messages
      <3>6. m.from.epoch = 1
        BY <3>5, ThreadShape, Bounds
      <3>7. QED BY <1>1, <2>2, <3>4, <3>5, <3>6 DEF HasChild
    <2>3. CASE m.from.id # i
      <3>1. statuses[i] = "Live"
        BY <1>3, <1>9, <2>3
      <3>2. WaitingFor(i) = {}
        BY <1>2, <2>1, <2>3 DEF WaitingFor
      <3>3. HasChild(i)
        BY <1>4, <3>1, <3>2 DEF Truthful
      <3>4. QED BY <1>1, <3>3 DEF HasChild
    <2>4. QED BY <2>2, <2>3
  <1>10. QED BY <1>8, <1>9 DEF Truthful

LEMMA ShownInit == Init => ShownInv
  <1> SUFFICES ASSUME Init PROVE ShownInv
    OBVIOUS
  <1>1. chan = <<>> /\ stderr = {}
    BY DEF Init
  <1>2. SendersKnown
    BY <1>1 DEF SendersKnown
  <1>3. \A i \in Ids : WaitingFor(i) = {} /\ statuses[i] # "Live"
    BY <1>1 DEF Init, WaitingFor
  <1>4. QED BY <1>2, <1>3, FlagInit DEF ShownInv, AllTruthful, Truthful

LEMMA ShownStep == ShownInv /\ [Next]_vars => ShownInv'
  <1> SUFFICES ASSUME ShownInv, [Next]_vars PROVE ShownInv'
    OBVIOUS
  <1> USE DEF ShownInv
  <1>1. FlagInv'
    BY FlagStep
  <1>2. TypeOK /\ epoch \in 1..MaxEpochs /\ MaxEpochs \in Nat
    BY Bounds DEF FlagInv, TypeOK
  <1>3. CASE UNCHANGED vars
    BY <1>1, <1>3 DEF vars, configVars, viewVars, SendersKnown, AllTruthful, Truthful,
                      HasChild, WaitingFor, IsLast
  <1>4. ASSUME stage # "quitting", NEW t \in Threads, StreamThread(t) \/ StderrReader(t)
        PROVE  SendersKnown' /\ AllTruthful'
    <2>1. UNCHANGED configVars
      BY <1>2, <1>4, ThreadStays, OthersStay
    <2>2. SendersKnown'
      BY <1>4, SenderStep
    <2>3. AllTruthful'
      BY <1>4, <2>1, ThreadTruthful, StderrTruthful DEF AllTruthful, configVars
    <2>4. QED BY <2>2, <2>3
  <1>5. ASSUME stage = "quitting", NEW t \in Threads, StreamThread(t) \/ StderrReader(t)
        PROVE  SendersKnown' /\ AllTruthful'
    <2>1. UNCHANGED <<configVars, chan>> /\ stderr' \subseteq stderr \cup {t}
      BY <1>2, <1>5, ThreadStays, OthersStay
      DEF StreamThread, stream_top, stream_connecting, stream_spawned, stream_spawn_fails,
          stream_line, stream_forward, stream_read_fails, stream_ended, stream_lost,
          StderrReader, stderr_line, stderr_ends, Sends
    <2>2. t.epoch <= epoch
      BY <1>2, <1>5, ThreadStays
      DEF FlagInv, ThreadsOfFlag, SendersKnown, StderrReader, stderr_line, stderr_ends
    <2>3. QED BY <1>5, <2>1, <2>2 DEF SendersKnown, AllTruthful, configVars
  <1>6. CASE Drain
    <2>1. /\ stage # "quitting" /\ chan # <<>> /\ chan' = Tail(chan)
          /\ UNCHANGED <<configVars, stderr>>
      BY <1>6 DEF Drain, receive_state, receive_refused, receive_cluster_line,
                  receive_node_line, Receives
    <2>2. /\ Len(chan) \in Nat \ {0}
          /\ Len(chan') = Len(chan) - 1
          /\ \A i \in 1..Len(chan') : chan'[i] = chan[i + 1]
      BY <1>2, <2>1, Receiving DEF TypeOK
    <2>3. SendersKnown'
      BY <2>1, <2>2 DEF SendersKnown, configVars
    <2>4. AllTruthful'
      BY <1>6, <2>1, DrainTruthful DEF AllTruthful, configVars
    <2>5. QED BY <1>1, <2>3, <2>4
  <1>7. CASE start_live_app
    <2>1. UNCHANGED <<epoch, statuses, chan, stderr>> /\ stage = "opening"
      BY <1>7 DEF start_live_app, viewVars
    <2>2. \A t \in Threads : pc[t] \notin WithChild
      BY <2>1 DEF FlagInv, ThreadsOfFlag, Alive, WithChild, Running
    <2>3. SendersKnown'
      BY <2>1 DEF SendersKnown
    <2>4. AllTruthful'
      BY <1>2, <2>1, <2>2, QuietStep DEF AllTruthful
    <2>5. QED BY <1>1, <2>3, <2>4
  <1>8. ASSUME NEW c \in Configs, persist_and_apply_config(c) PROVE ShownInv'
    <2>1. epoch' = epoch + 1 /\ UNCHANGED <<chan, stderr>>
      BY <1>8 DEF persist_and_apply_config
    <2>2. \A i \in 1..Len(chan) : chan[i] \in Messages
      BY <1>2 DEF TypeOK
    <2>3. /\ \A i \in 1..Len(chan) : chan[i].from.epoch \in Int
          /\ \A t \in stderr : t.epoch \in Int
      BY <1>2, <2>2, ThreadShape DEF Messages, TypeOK
    <2>4. SendersKnown'
      BY <1>2, <2>1, <2>3 DEF SendersKnown
    <2>5. AllTruthful'
      BY <1>2, <2>1 DEF AllTruthful
    <2>6. QED BY <1>1, <2>4, <2>5
  <1>9. CASE begin_shutdown
    BY <1>1, <1>9 DEF begin_shutdown, SendersKnown, AllTruthful, viewVars
  <1>10. QED
    BY <1>1, <1>3, <1>4, <1>5, <1>6, <1>7, <1>8, <1>9 DEF Next, MainLoop

(* Before the profile changes, no order of the messages of the senders of  *)
(* an id leaves it shown live without an ssh child.                        *)
THEOREM LiveHasChild == Spec => []LiveIsOpen
  <1>1. ShownInv => LiveIsOpen
    BY DEF ShownInv, AllTruthful, Truthful, HasChild, LiveIsOpen
  <1>2. QED BY <1>1, ShownInit, ShownStep, PTL DEF Spec
=============================================================================
