--------------------------- MODULE GatewayProofs ----------------------------
(***************************************************************************)
(* The safety of gatewayd, for every size of the table, every set of       *)
(* configurations and every combination of failures.                       *)
(*                                                                         *)
(* The inductive invariant says, for each place a call that holds the      *)
(* lifecycle mutex can be at, what it has established so far.              *)
(***************************************************************************)
EXTENDS Gateway, FiniteSetTheorems, TLAPS

-----------------------------------------------------------------------------
(* The inductive invariant.                                                *)

\* The place a call is at is one of its own, on an entry that exists.
FramePlace ==
    /\ \/ frame.call = "none" /\ frame.at = "none"
       \/ frame.call = "start" /\ frame.at \in {"slot", "prepare", "create", "sampler", "leave"}
       \/ frame.call = "abort" /\ frame.at \in {"slot", "join", "leave"}
       \/ frame.call = "reload" /\ frame.at \in {"slot", "join", "configure", "prepare",
                                                 "create", "add", "leave"}
       \/ frame.call = "start_channel" /\ frame.at \in {"join", "check", "prepare", "create",
                                                        "leave"}
       \/ frame.call = "stop_channel" /\ frame.at \in {"join", "leave"}
       \/ frame.call = "restart_channel" /\ frame.at \in {"join", "prepare", "create", "leave"}
       \/ frame.call = "wait" /\ frame.at \in {"slot", "join", "collect", "sampler", "leave"}
    /\ frame.at \in {"join", "configure", "prepare", "create", "check", "collect"}
          => frame.slot \in Slots
    /\ frame.at = "slot" => frame.slot \in 1 .. GW_MAX_CHANNELS + 1

\* Who holds the mutex is in the call that the frame is of.
Holder ==
    /\ lock = "free" => frame.call = "none"
    /\ lock = "main" => \/ pc = "booting" /\ frame.call \in {"start", "abort"}
                        \/ pc = "reloading" /\ frame.call = "reload"
                        \/ pc \in {"waiting", "rewaiting"} /\ frame.call = "wait"
    /\ lock = "http" => /\ http.at = "busy"
                        /\ frame.call \in {"start_channel", "stop_channel", "restart_channel"}

\* The HTTP thread is there between Serve and JoinHttp alone.
HttpThere ==
    /\ pc \in {"boot", "booting", "serve"} => http.at = "off"
    /\ pc \in {"wait", "waiting", "destroy", "rewait", "rewaiting", "exited"}
          => http.at \in {"off", "ended"}

Control == FramePlace /\ Holder /\ HttpThere

\* A thread exists exactly while thread_started is set, for an entry in use, and
\* with the channel of the entry; nobody configures or starts an entry that has one.
ThreadOfEntry(s) ==
    /\ entries[s].thread_started <=> thread[s].at # "none"
    /\ thread[s].at # "none" => entries[s].occupied
    /\ thread[s].at \notin {"none", "begin"} => thread[s].channel = entries[s].channel
    /\ entries[s].occupied => entries[s].channel \in Channels

Threading ==
    /\ \A s \in Slots : ThreadOfEntry(s)
    /\ frame.at \in {"configure", "prepare", "create"} => thread[frame.slot].at = "none"
    /\ frame.at \in {"configure", "prepare", "create", "check"} => entries[frame.slot].occupied

\* What is published of an entry in use is of its channel and generation, and a
\* thread that is not there or has returned has published a state of rest.
SnapshotOfEntry(s) ==
    entries[s].occupied =>
       /\ entries[s].snapshot.id = entries[s].channel.id
       /\ entries[s].snapshot.generation = entries[s].generation
       /\ thread[s].at \in {"none", "returned", "leaving", "ended"} =>
             entries[s].snapshot.state \in {"STOPPED", "FAILED"}

Snapshooting == \A s \in Slots : SnapshotOfEntry(s)

\* The threads that are gone when start, its failure, and wait are under way, and
\* what the main thread may rely on after each.
AllJoined == \A s \in Slots : thread[s].at = "none"
Quiet == AllJoined /\ sampler = "none"

Starting ==
    frame.call = "start" =>
       /\ manager.started /\ frame.status = "OK"
       /\ frame.at # "leave" => sampler = "none"
       /\ frame.at \in {"slot", "prepare", "create"} =>
             \A s \in Slots : s >= frame.slot => thread[s].at = "none"

Stopping ==
    frame.call \in {"abort", "wait"} =>
       /\ frame.at \in {"slot", "join"} =>
             \A s \in Slots : s < frame.slot => thread[s].at = "none"
       /\ frame.at = "collect" => \A s \in Slots : s <= frame.slot => thread[s].at = "none"
       /\ frame.at \in {"sampler", "leave"} => AllJoined
       /\ frame.call = "abort" => sampler = "none" /\ frame.status = "IO"
       /\ frame.call = "wait" /\ frame.at = "leave" => sampler = "none"

MainKnows ==
    /\ pc = "boot" => Quiet /\ ~ manager.started
    /\ pc = "booting" /\ lock # "main" =>
          IF reply["main"] = "OK" THEN manager.started ELSE Quiet
    /\ pc \in {"serve", "loop", "act", "reload", "reloading", "shutdown", "wait", "waiting"}
          => manager.started
    /\ pc = "waiting" /\ lock # "main" => Quiet
    /\ pc \in {"destroy", "rewait", "rewaiting", "exited"} => Quiet

Lifetime == Starting /\ Stopping /\ MainKnows

\* A configuration that was read from a file: parsed and validated.
Loaded(config) == parse_document(config) /\ gw_config_validate(config)

\* The entries in S that are in use have a channel of config and its settings.
FromConfig(table, config, S) ==
    \A s \in S : table[s].occupied =>
       /\ table[s].channel \in EnabledChannels(config)
       /\ table[s].globals = config.globals

\* The first n channels of config, those that are enabled, have an entry.
HaveEntries(table, config, n) ==
    \A i \in 1 .. Len(config.channels) : i <= n /\ config.channels[i].enabled =>
       \E s \in Slots : table[s].occupied /\ table[s].channel.id = config.channels[i].id

InForce(table, config) ==
    /\ FromConfig(table, config, Slots)
    /\ HaveEntries(table, config, Len(config.channels))

DistinctIds(table) ==
    \A s, t \in Slots :
       s # t /\ table[s].occupied /\ table[t].occupied
          => table[s].channel.id # table[t].channel.id

\* The first loop of a reload has left the entries behind it as the candidate wants
\* them, and those ahead as they were.
Behind(f) == {s \in Slots : s < f.slot \/ (s = f.slot /\ f.at \in {"prepare", "create"})}

FirstLoop(table, f, globals) ==
    /\ FromConfig(table, f.candidate, Behind(f))
    /\ \A s \in Slots \ Behind(f) : table[s].occupied => table[s].globals = globals

\* The second loop has given an entry to each channel behind it.
SecondLoop(table, f) ==
    /\ FromConfig(table, f.candidate, Slots)
    /\ HaveEntries(table, f.candidate, IF f.at = "add" THEN f.next - 1 ELSE f.next)

Reloading(table, f, globals) ==
    /\ f.at \in {"slot", "join", "configure"} => f.next = 0
    /\ f.at = "add" => f.next # 0
    /\ IF f.next = 0 THEN FirstLoop(table, f, globals) ELSE SecondLoop(table, f)

Configuration ==
    /\ Loaded(manager.config)
    /\ frame.call = "reload" => Loaded(frame.candidate)
    /\ DistinctIds(entries)
    /\ IF frame.call = "reload" /\ frame.at # "leave"
       THEN Reloading(entries, frame, manager.config.globals)
       ELSE InForce(entries, manager.config)

IInv ==
    /\ TypeOK
    /\ Control
    /\ Threading
    /\ Snapshooting
    /\ Lifetime
    /\ ActiveThreadsExact
    /\ Configuration

-----------------------------------------------------------------------------
(* Counting threads.                                                       *)

AliveThreads == {s \in Slots : thread[s].at \in Alive}

\* The threads can be counted.
LEMMA AliveCounted ==
    /\ IsFiniteSet(AliveThreads) /\ Cardinality(AliveThreads) \in Nat
    /\ \A s \in AliveThreads : Cardinality(AliveThreads) >= 1
  <1>1. IsFiniteSet(Slots)
    BY ManagerAssumption, FS_Interval DEF Slots
  <1>2. IsFiniteSet(AliveThreads)
    BY <1>1, FS_Subset DEF AliveThreads
  <1>3. Cardinality(AliveThreads) \in Nat
    BY <1>2, FS_CardinalityType
  <1>4. ASSUME NEW s \in AliveThreads PROVE Cardinality(AliveThreads) >= 1
    BY <1>2, <1>3, FS_EmptySet
  <1> QED BY <1>2, <1>3, <1>4

\* A thread that comes to life, or ends, changes the count by one; any other step
\* of threads leaves it.
LEMMA AliveSteps ==
    ASSUME ManagerTypeOK, thread' \in [Slots -> Threads], NEW s \in Slots,
           \A t \in Slots : t # s => (thread'[t].at \in Alive <=> thread[t].at \in Alive)
    PROVE  Cardinality(AliveThreads)' =
              Cardinality(AliveThreads)
                + (IF thread'[s].at \in Alive THEN 1 ELSE 0)
                - (IF thread[s].at \in Alive THEN 1 ELSE 0)
  <1>1. IsFiniteSet(AliveThreads) /\ Cardinality(AliveThreads) \in Nat
    BY AliveCounted
  <1>2. CASE thread'[s].at \in Alive /\ thread[s].at \in Alive
    <2>1. AliveThreads' = AliveThreads
      BY <1>2 DEF AliveThreads
    <2> QED BY <1>1, <1>2, <2>1
  <1>3. CASE thread'[s].at \notin Alive /\ thread[s].at \notin Alive
    <2>1. AliveThreads' = AliveThreads
      BY <1>3 DEF AliveThreads
    <2> QED BY <1>1, <1>3, <2>1
  <1>4. CASE thread'[s].at \in Alive /\ thread[s].at \notin Alive
    <2>1. AliveThreads' = AliveThreads \cup {s} /\ s \notin AliveThreads
      BY <1>4 DEF AliveThreads
    <2>2. Cardinality(AliveThreads \cup {s}) = Cardinality(AliveThreads) + 1
      BY <1>1, <2>1, FS_AddElement
    <2> QED BY <1>1, <1>4, <2>1, <2>2
  <1>5. CASE thread'[s].at \notin Alive /\ thread[s].at \in Alive
    <2>1. AliveThreads' = AliveThreads \ {s} /\ s \in AliveThreads
      BY <1>5 DEF AliveThreads
    <2>2. Cardinality(AliveThreads \ {s}) = Cardinality(AliveThreads) - 1
      BY <1>1, <2>1, FS_RemoveElement
    <2> QED BY <1>1, <1>5, <2>1, <2>2
  <1> QED BY <1>2, <1>3, <1>4, <1>5

-----------------------------------------------------------------------------
(* Type correctness.                                                       *)

\* An entry that is configured is well typed, and shows its new channel at rest.
LEMMA ConfigureType ==
    ASSUME NEW entry \in Entries, NEW channel \in Channels, NEW config \in gw_config
    PROVE  /\ configure_entry(entry, channel, config) \in Entries
           /\ configure_entry(entry, channel, config).occupied
           /\ configure_entry(entry, channel, config).channel = channel
           /\ configure_entry(entry, channel, config).globals = config.globals
           /\ configure_entry(entry, channel, config).snapshot
                = [id |-> channel.id, state |-> "STOPPED",
                   generation |-> configure_entry(entry, channel, config).generation]
           /\ configure_entry(entry, channel, config).thread_started = entry.thread_started
  <1> DEFINE generation == (IF entry.occupied THEN entry.generation ELSE 0) + 1
  <1>1. generation \in Nat
    BY DEF Entries
  <1>2. [id |-> channel.id, state |-> "STOPPED", generation |-> generation] \in Snapshots
    BY <1>1 DEF Channels, Snapshots, States
  <1>3. config.globals \in Globals
    BY DEF gw_config
  <1> HIDE DEF generation
  <1>4. configure_entry(entry, channel, config) =
          [entry EXCEPT !.occupied = TRUE, !.channel = channel, !.globals = config.globals,
                        !.generation = generation, !.stop_signal = FALSE, !.result = 0,
                        !.snapshot = [id |-> channel.id, state |-> "STOPPED",
                                      generation |-> generation]]
    BY DEF configure_entry, generation
  <1> QED BY <1>1, <1>2, <1>3, <1>4 DEF Entries

\* The channels of a configuration.
LEMMA ChannelsType ==
    ASSUME NEW config \in gw_config
    PROVE  /\ Len(config.channels) \in Nat
           /\ \A i \in 1 .. Len(config.channels) : config.channels[i] \in Channels
           /\ EnabledChannels(config) \subseteq Channels
           /\ config.globals \in Globals
  <1>1. config.channels \in Seq(Channels) /\ config.globals \in Globals
    BY DEF gw_config
  <1>2. Len(config.channels) \in Nat
        /\ \A i \in 1 .. Len(config.channels) : config.channels[i] \in Channels
    BY <1>1
  <1> QED BY <1>1, <1>2 DEF EnabledChannels

\* A frame that is moved is well typed.
LEMMA FrameType ==
    ASSUME ManagerTypeOK
    PROVE  /\ \A call \in Calls : Frame(call) \in Frames
           /\ NoFrame(manager.config) \in Frames
           /\ NextSlot \in Frames
           /\ \A f \in Frames : AfterCreate(f) \in Frames /\ AfterJoin(f) \in Frames
  <1>1. NoFrame(manager.config) \in Frames
    BY DEF ManagerTypeOK, NoFrame, Frames, Calls, Places, Statuses, Managers
  <1>2. \A call \in Calls : Frame(call) \in Frames
    BY <1>1 DEF Frame, Frames, Statuses
  <1>3. ASSUME NEW f \in Frames
        PROVE  f.slot \in Nat /\ f.next \in Nat /\ f.slot + 1 \in Nat /\ f.next + 1 \in Nat
    BY DEF Frames
  <1>4. NextSlot \in Frames
    BY <1>3 DEF NextSlot, Frames, Places, ManagerTypeOK
  <1>5. ASSUME NEW f \in Frames PROVE AfterCreate(f) \in Frames
    <2>1. CASE f.call = "start"
      BY <1>3, <2>1 DEF Frames, AfterCreate, Places, Calls
    <2>2. CASE f.call = "reload"
      BY <1>3, <2>2 DEF Frames, AfterCreate, Places, Calls
    <2>3. CASE f.call \notin {"start", "reload"}
      BY <1>3, <2>3 DEF Frames, AfterCreate, Places
    <2> QED BY <2>1, <2>2, <2>3
  <1>6. ASSUME NEW f \in Frames PROVE AfterJoin(f) \in Frames
    <2>1. CASE f.call = "abort"
      BY <1>3, <2>1 DEF Frames, AfterJoin, Places
    <2>2. CASE f.call # "abort"
      <3>1. PICK at \in Places : AfterJoin(f) = [f EXCEPT !.at = at]
        BY <2>2 DEF AfterJoin, Places
      <3> QED BY <3>1 DEF Frames
    <2> QED BY <2>1, <2>2
  <1> QED BY <1>1, <1>2, <1>4, <1>5, <1>6

\* A set of numbers that is not empty has a least one.
Less == {pair \in Nat \X Nat : pair[1] < pair[2]}

LEMMA LeastNumber ==
    ASSUME NEW S, S \subseteq Nat, S # {}
    PROVE  \E s \in S : \A t \in S : s <= t
  <1>1. IsWellFoundedOn(Less, Nat)
    BY NatLessThanWellFounded, Zenon DEF OpToRel, Less
  <1>2. PICK s \in S : \A t \in S : ~ (<<t, s>> \in Less)
    BY <1>1, WFMin
  <1>3. ASSUME NEW t \in S, t < s PROVE FALSE
    BY <1>2, <1>3 DEF Less
  <1>4. \A t \in S : s <= t
    BY <1>3
  <1> QED BY <1>4

\* find_free_entry finds one, if there is one.
LEMMA FirstFree ==
    ASSUME FreeEntries # {}
    PROVE  find_free_entry \in Slots /\ ~ entries[find_free_entry].occupied
  <1>1. FreeEntries \subseteq Nat
    BY DEF FreeEntries, Slots
  <1>2. \E s \in FreeEntries : \A t \in FreeEntries : s <= t
    BY <1>1, LeastNumber
  <1>3. find_free_entry \in FreeEntries
    BY <1>2 DEF find_free_entry
  <1> QED BY <1>3 DEF FreeEntries

\* The count of threads is not lowered below zero.
LEMMA CountType ==
    ASSUME IInv, \/ frame.at = "create"
                 \/ \E s \in Slots : thread[s].at \in Alive
    PROVE  manager.active_threads - 1 \in Nat
  <1>1. manager.active_threads >= 1 /\ manager.active_threads \in Nat
    BY AliveCounted DEF IInv, ActiveThreadsExact, AliveThreads, Managers, TypeOK, ManagerTypeOK
  <1> QED BY <1>1

\* A call that holds the mutex keeps the manager well typed.
LEMMA SectionType ==
    ASSUME IInv, Section
    PROVE  ManagerTypeOK'
  <1> USE ManagerAssumption
  <1>0. ManagerTypeOK /\ Control /\ Threading /\ Configuration
    BY DEF IInv, TypeOK
  <1>1. CASE PrepareEntry
    <2>1. frame.slot \in Slots /\ manager.active_threads + 1 \in Nat
      BY <1>0, <1>1 DEF PrepareEntry, Control, FramePlace, ManagerTypeOK, Managers
    <2>2. entries' \in [Slots -> Entries]
      BY <1>0, <1>1, <2>1 DEF PrepareEntry, ManagerTypeOK, Entries
    <2> QED BY <1>0, <1>1, <2>1, <2>2
            DEF PrepareEntry, ManagerTypeOK, GoOn, Frames, Places, Managers, Stay
  <1>2. CASE CreateSucceeds
    <2>1. frame.slot \in Slots
      BY <1>0, <1>2 DEF CreateSucceeds, Control, FramePlace
    <2>2. entries' \in [Slots -> Entries]
      BY <1>0, <1>2, <2>1 DEF CreateSucceeds, ManagerTypeOK, Entries
    <2>3. [NoThread EXCEPT !.at = "begin"] \in Threads
      BY DEF NoThread, Threads, ThreadStates, States
    <2>4. thread' \in [Slots -> Threads]
      BY <1>0, <1>2, <2>1, <2>3 DEF CreateSucceeds, ManagerTypeOK
    <2> QED BY <1>0, <1>2, <2>1, <2>2, <2>4, FrameType DEF CreateSucceeds, ManagerTypeOK, Stay
  <1>3. CASE CreateFails
    <2>1. frame.slot \in Slots
      BY <1>0, <1>3 DEF CreateFails, Control, FramePlace
    <2>2. entries' \in [Slots -> Entries]
      BY <1>0, <1>3, <2>1 DEF CreateFails, ManagerTypeOK, Entries
    <2>3. manager' \in Managers
      BY <1>0, <1>3, CountType DEF CreateFails, ManagerTypeOK, Managers
    <2>4. [frame EXCEPT !.status = "IO"] \in Frames
      BY <1>0 DEF ManagerTypeOK, Frames, Statuses
    <2>5. frame' \in Frames
      BY <1>0, <1>3, <2>4, FrameType DEF CreateFails
    <2> QED BY <1>0, <1>3, <2>2, <2>3, <2>5 DEF CreateFails, ManagerTypeOK, Stay
  <1>4. CASE Join
    <2>1. frame.slot \in Slots
      BY <1>0, <1>4 DEF Join, Control, FramePlace
    <2>2. entries' \in [Slots -> Entries]
      BY <1>0, <1>4, <2>1 DEF Join, ManagerTypeOK, Entries
    <2>3. NoThread \in Threads
      BY DEF NoThread, Threads, ThreadStates, States
    <2>4. thread' \in [Slots -> Threads]
      BY <1>0, <1>4, <2>1, <2>3 DEF Join, ManagerTypeOK
    <2> QED BY <1>0, <1>4, <2>1, <2>2, <2>4, FrameType DEF Join, ManagerTypeOK, Stay
  <1>5. CASE Leave
    <2>1. frame.status \in Statuses
      BY <1>0 DEF ManagerTypeOK, Frames
    <2>2. reply' \in [Clients -> Statuses]
      BY <1>0, <1>5, <2>1 DEF Leave, ManagerTypeOK
    <2> QED BY <1>0, <1>5, <2>2, FrameType DEF Leave, ManagerTypeOK
  <1>6. CASE StartSlot
    BY <1>0, <1>6, FrameType DEF StartSlot, ManagerTypeOK, Stay, Frames, Places
  <1>7. CASE StartSampler
    <2>1. frame' \in Frames
      <3>1. [frame EXCEPT !.at = "leave"] \in Frames
        BY <1>0 DEF ManagerTypeOK, Frames, Places
      <3>2. [frame EXCEPT !.call = "abort", !.at = "slot", !.slot = 1, !.status = "IO"]
              \in Frames
        BY <1>0 DEF ManagerTypeOK, Frames, Places, Calls, Statuses
      <3> QED BY <1>7, <3>1, <3>2 DEF StartSampler, GoOn
    <2>2. manager' \in Managers /\ sampler' \in {"none", "running", "ended"}
      BY <1>0, <1>7 DEF StartSampler, ManagerTypeOK, Managers
    <2> QED BY <1>0, <1>7, <2>1, <2>2 DEF StartSampler, ManagerTypeOK, Stay
  <1>7a. ASSUME NEW s \in Slots, NEW after \in Frames, StopEntry(s, after)
         PROVE  entries' \in [Slots -> Entries] /\ frame' \in Frames
    <2>1. entries' \in [Slots -> Entries]
      <3>1. entries' \in {entries, [entries EXCEPT ![s].stop_signal = TRUE]}
        BY <1>7a DEF StopEntry
      <3>2. [entries EXCEPT ![s].stop_signal = TRUE] \in [Slots -> Entries]
        BY <1>0 DEF ManagerTypeOK, Entries
      <3> QED BY <1>0, <3>1, <3>2 DEF ManagerTypeOK
    <2>2. s \in Nat
      BY DEF Slots
    <2>3. frame' \in Frames
      BY <1>7a, <2>2 DEF StopEntry, Frames, Places
    <2> QED BY <2>1, <2>3
  <1>8. CASE AbortSlot
    <2>1. CASE LoopDone
      BY <1>0, <1>8, <2>1 DEF AbortSlot, ManagerTypeOK, GoOn, Frames, Places, Stay
    <2>2. CASE ~ LoopDone
      <3>1. frame.slot \in Slots
        BY <1>0, <1>8, <2>2 DEF AbortSlot, LoopDone, Control, FramePlace, Slots
      <3>2. frame \in Frames /\ NextSlot \in Frames
        BY <1>0, FrameType DEF ManagerTypeOK
      <3>3. entries' \in [Slots -> Entries] /\ frame' \in Frames
        <4>1. CASE StopEntry(frame.slot, frame)
          BY <1>7a, <3>1, <3>2, <4>1
        <4>2. CASE frame' = NextSlot /\ UNCHANGED entries
          BY <1>0, <3>2, <4>2 DEF ManagerTypeOK
        <4> QED BY <1>8, <2>2, <4>1, <4>2 DEF AbortSlot
      <3> QED BY <1>0, <1>8, <3>3 DEF AbortSlot, ManagerTypeOK, Stay
    <2> QED BY <2>1, <2>2
  <1>9. CASE ReloadSlot
    <2>1. [frame EXCEPT !.at = "add", !.next = 1] \in Frames
          /\ [frame EXCEPT !.at = "configure"] \in Frames
      BY <1>0 DEF ManagerTypeOK, Frames, Places
    <2>2. CASE LoopDone
      BY <1>0, <1>9, <2>1, <2>2 DEF ReloadSlot, ManagerTypeOK, Stay
    <2>3. CASE ~ LoopDone
      <3>1. frame.slot \in Slots
        BY <1>0, <1>9, <2>3 DEF ReloadSlot, LoopDone, Control, FramePlace, Slots
      <3> QED BY <1>0, <1>7a, <1>9, <2>1, <2>3, <3>1, FrameType
              DEF ReloadSlot, ManagerTypeOK, Stay
    <2> QED BY <2>2, <2>3
  <1>10. CASE ReloadConfigure
    <2>1. frame.slot \in Slots /\ frame.candidate \in gw_config
      BY <1>0, <1>10 DEF ReloadConfigure, Control, FramePlace, ManagerTypeOK, Frames
    <2> DEFINE replacement == find_enabled_channel(frame.candidate, Here.channel.id)
    <2>2. CASE replacement = {}
      <3>1. entries' \in [Slots -> Entries]
        <4>1. entries' = [entries EXCEPT ![frame.slot].occupied = FALSE]
          BY <1>10, <2>2 DEF ReloadConfigure
        <4> QED BY <1>0, <2>1, <4>1 DEF ManagerTypeOK, Entries
      <3> QED BY <1>0, <1>10, <2>2, <3>1, FrameType DEF ReloadConfigure, ManagerTypeOK, Stay
    <2>3. CASE replacement # {}
      <3>1. PICK ch \in replacement :
               /\ entries' = [entries EXCEPT ![frame.slot] =
                                 configure_entry(@, ch, frame.candidate)]
               /\ GoOn("prepare")
        BY <1>10, <2>3 DEF ReloadConfigure
      <3>2. ch \in Channels
        BY <2>1, ChannelsType DEF find_enabled_channel
      <3>3. entries' \in [Slots -> Entries]
        BY <1>0, <2>1, <3>1, <3>2, ConfigureType DEF ManagerTypeOK
      <3>4. frame' \in Frames
        BY <1>0, <3>1 DEF GoOn, ManagerTypeOK, Frames, Places
      <3> QED BY <1>0, <1>10, <3>3, <3>4 DEF ReloadConfigure, ManagerTypeOK, Stay
    <2> QED BY <2>2, <2>3
  <1>11. CASE ReloadAdd
    <2> DEFINE channel == frame.candidate.channels[frame.next]
    <2>1. frame.candidate \in gw_config /\ frame.next \in Nat /\ frame.next + 1 \in Nat
          /\ Len(frame.candidate.channels) + 1 \in Nat
      BY <1>0, ChannelsType DEF ManagerTypeOK, Frames
    <2>2. CASE ~ channel.enabled \/ find_entry(channel.id) # {}
      BY <1>0, <1>11, <2>1, <2>2 DEF ReloadAdd, ManagerTypeOK, Stay, Frames
    <2>3. CASE ~ (~ channel.enabled \/ find_entry(channel.id) # {}) /\ FreeEntries = {}
      BY <1>0, <1>11, <2>1, <2>3 DEF ReloadAdd, ManagerTypeOK, Stay, Frames, Statuses
    <2>4. CASE ~ (~ channel.enabled \/ find_entry(channel.id) # {}) /\ FreeEntries # {}
      <3>1. /\ entries' = [entries EXCEPT ![find_free_entry] =
                               configure_entry(@, channel, frame.candidate)]
            /\ frame' = [frame EXCEPT !.slot = find_free_entry, !.at = "prepare"]
        BY <1>11, <2>4 DEF ReloadAdd
      <3>2. find_free_entry \in Slots
        BY <2>4, FirstFree
      <3>3. channel \in Channels
        BY <1>0, <1>11, <2>1, ChannelsType DEF ReloadAdd, Configuration, Reloading
      <3>4. entries' \in [Slots -> Entries]
        BY <1>0, <2>1, <3>1, <3>2, <3>3, ConfigureType DEF ManagerTypeOK
      <3>5. find_free_entry \in Nat
        BY <3>2 DEF Slots
      <3>6. frame' \in Frames
        BY <1>0, <3>1, <3>5 DEF ManagerTypeOK, Frames, Places
      <3> QED BY <1>0, <1>11, <3>4, <3>6 DEF ReloadAdd, ManagerTypeOK, Stay
    <2> QED BY <2>2, <2>3, <2>4
  <1>12. CASE ReloadCommit
    BY <1>0, <1>12 DEF ReloadCommit, ManagerTypeOK, GoOn, Stay, Frames, Places, Managers
  <1>13. CASE CheckChannel
    BY <1>0, <1>13 DEF CheckChannel, ManagerTypeOK, Stay, Frames, Places, Statuses
  <1>14. CASE WaitSlot
    <2>1. frame' \in Frames
      BY <1>0, <1>14 DEF WaitSlot, ManagerTypeOK, GoOn, Frames, Places
    <2>2. manager' \in Managers
      BY <1>0, <1>14 DEF WaitSlot, ManagerTypeOK, Managers
    <2> QED BY <1>0, <1>14, <2>1, <2>2 DEF WaitSlot, ManagerTypeOK, Stay
  <1>15. CASE WaitCollect
    <2>1. manager' \in Managers
      BY <1>0, <1>15 DEF WaitCollect, ManagerTypeOK, Managers
    <2> QED BY <1>0, <1>15, <2>1, FrameType DEF WaitCollect, ManagerTypeOK, Stay
  <1>16. CASE WaitSampler
    BY <1>0, <1>16 DEF WaitSampler, ManagerTypeOK, GoOn, Stay, Frames, Places
  <1> QED BY <1>1, <1>2, <1>3, <1>4, <1>5, <1>6, <1>7, <1>8, <1>9, <1>10, <1>11, <1>12,
             <1>13, <1>14, <1>15, <1>16 DEF Section

-----------------------------------------------------------------------------
(* The supervisor threads.                                                 *)

\* What the step of a thread leaves alone: all but the thread itself, the snapshot,
\* the result and thread_running of its entry, and the count.
ThreadLeaves(s) ==
    /\ UNCHANGED <<sampler, lock, frame, reply>>
    /\ manager' \in Managers
    /\ manager'.config = manager.config /\ manager'.started = manager.started
    /\ \A t \in Slots : t # s => entries'[t] = entries[t] /\ thread'[t] = thread[t]
    /\ \A t \in Slots :
          /\ entries'[t].occupied = entries[t].occupied
          /\ entries'[t].channel = entries[t].channel
          /\ entries'[t].globals = entries[t].globals
          /\ entries'[t].generation = entries[t].generation
          /\ entries'[t].thread_started = entries[t].thread_started

\* A publication stamps the channel of the thread, which is that of its entry.
LEMMA PublishFacts ==
    ASSUME IInv, NEW s \in Slots, thread[s].at \in {"idle", "busy"},
           NEW at \in {"idle", "busy", "returned"}, NEW state \in States,
           at = "returned" => state \in {"STOPPED", "FAILED"},
           NEW result \in {0, 1}, Publish(s, at, state, result), ThreadOnly
    PROVE  /\ ManagerTypeOK' /\ ThreadLeaves(s)
           /\ thread'[s].at = at /\ thread'[s].channel = entries[s].channel
           /\ SnapshotOfEntry(s)'
  <1> USE DEF ManagerTypeOK
  <1>0. /\ ManagerTypeOK /\ entries[s].channel \in Channels
        /\ thread[s].channel = entries[s].channel /\ entries[s].generation \in Nat
    BY DEF IInv, TypeOK, Threading, ThreadOfEntry, Entries
  <1> DEFINE shot == [id |-> thread[s].channel.id, state |-> state,
                      generation |-> entries[s].generation]
  <1>1. shot \in Snapshots /\ shot.id = entries[s].channel.id /\ shot.state = state
        /\ shot.generation = entries[s].generation
    BY <1>0 DEF Snapshots, Channels
  <1> HIDE DEF shot
  <1>2. entries' = [entries EXCEPT ![s].result = result, ![s].snapshot = shot]
    BY DEF Publish, shot
  <1>3. thread' = [thread EXCEPT ![s].at = at, ![s].state = state]
    BY DEF Publish
  <1>4. entries' \in [Slots -> Entries]
    <2>1. [entries[s] EXCEPT !.result = result, !.snapshot = shot] \in Entries
      BY <1>0, <1>1 DEF Entries
    <2>2. entries' = [entries EXCEPT ![s] = [@ EXCEPT !.result = result, !.snapshot = shot]]
      BY <1>0, <1>2 DEF Entries
    <2> QED BY <1>0, <2>1, <2>2
  <1>5. thread' \in [Slots -> Threads]
    BY <1>0, <1>3 DEF Threads, ThreadStates
  <1>6. thread'[s].at = at /\ thread'[s].channel = entries[s].channel
    BY <1>0, <1>3 DEF Threads
  <1>7. /\ entries'[s].snapshot = shot /\ entries'[s].channel = entries[s].channel
        /\ entries'[s].generation = entries[s].generation
    BY <1>0, <1>2 DEF Entries
  <1>8. SnapshotOfEntry(s)'
    BY <1>1, <1>6, <1>7 DEF SnapshotOfEntry
  <1>9. ThreadLeaves(s)
    BY <1>0, <1>2, <1>3 DEF ThreadLeaves, ThreadOnly, Entries
  <1> QED BY <1>0, <1>4, <1>5, <1>6, <1>8, <1>9 DEF ThreadOnly

\* What a step of a thread does.
LEMMA ThreadStep ==
    ASSUME IInv, NEW s \in Slots, run_channel(s)
    PROVE  /\ ManagerTypeOK' /\ ThreadLeaves(s)
           /\ thread[s].at # "none" /\ thread'[s].at # "none"
           /\ thread'[s].at \notin {"none", "begin"} => thread'[s].channel = entries[s].channel
           /\ SnapshotOfEntry(s)'
           /\ manager'.active_threads =
                 manager.active_threads - (IF thread'[s].at \in Alive THEN 0 ELSE 1)
           /\ thread[s].at \in Alive
  <1>0. /\ ManagerTypeOK /\ entries[s].occupied \in BOOLEAN
        /\ ThreadOfEntry(s) /\ SnapshotOfEntry(s) /\ manager.active_threads \in Nat
    BY DEF IInv, TypeOK, Threading, Snapshooting, Entries, ManagerTypeOK, Managers
  <1>1. CASE ThreadBegins(s)
    <2> DEFINE shot == [id |-> entries[s].channel.id, state |-> "STARTING",
                        generation |-> entries[s].generation]
    <2>1. entries[s].occupied /\ entries[s].channel \in Channels /\ entries[s].generation \in Nat
      BY <1>0, <1>1 DEF ThreadBegins, ThreadOfEntry, ManagerTypeOK, Entries
    <2>2. shot \in Snapshots /\ shot.id = entries[s].channel.id
          /\ shot.generation = entries[s].generation
      BY <2>1 DEF Snapshots, Channels, States
    <2> HIDE DEF shot
    <2>3. entries' = [entries EXCEPT ![s].snapshot = shot]
          /\ thread' = [thread EXCEPT ![s] = [at |-> "idle", channel |-> entries[s].channel,
                                              state |-> "STARTING"]]
      BY <1>1 DEF ThreadBegins, shot
    <2>4. entries' \in [Slots -> Entries]
      BY <1>0, <2>2, <2>3 DEF ManagerTypeOK, Entries
    <2>5. thread' \in [Slots -> Threads]
      BY <1>0, <2>1, <2>3 DEF ManagerTypeOK, Threads, ThreadStates, States
    <2>6. thread'[s].at = "idle" /\ thread'[s].channel = entries[s].channel
      BY <1>0, <2>3 DEF ManagerTypeOK
    <2>7. /\ entries'[s].snapshot = shot /\ entries'[s].channel = entries[s].channel
          /\ entries'[s].generation = entries[s].generation
      BY <1>0, <2>3 DEF ManagerTypeOK, Entries
    <2>8. SnapshotOfEntry(s)'
      BY <2>2, <2>6, <2>7 DEF SnapshotOfEntry
    <2>9. ThreadLeaves(s)
      BY <1>0, <1>1, <2>3 DEF ThreadLeaves, ThreadBegins, ThreadOnly, Entries, ManagerTypeOK
    <2> QED BY <1>0, <1>1, <2>4, <2>5, <2>6, <2>8, <2>9
            DEF ThreadBegins, ThreadOnly, ManagerTypeOK, Alive, ThreadStates
  <1>2. CASE SpawnsWorker(s) \/ WorkerGone(s)
    <2>1. PICK at \in {"idle", "busy"} : Goes(s, at)
      BY <1>2 DEF SpawnsWorker, WorkerGone
    <2>2. UNCHANGED entries /\ ThreadOnly /\ thread[s].at \in {"idle", "busy"}
      BY <1>2 DEF SpawnsWorker, WorkerGone
    <2>3. thread' \in [Slots -> Threads] /\ thread'[s].at = at
          /\ thread'[s].channel = thread[s].channel
      BY <1>0, <2>1 DEF Goes, ManagerTypeOK, Threads, ThreadStates
    <2>4. SnapshotOfEntry(s)'
      BY <1>0, <2>2, <2>3 DEF SnapshotOfEntry
    <2>5. ThreadLeaves(s)
      BY <1>0, <2>1, <2>2 DEF ThreadLeaves, ThreadOnly, Goes, ManagerTypeOK
    <2> QED BY <1>0, <2>2, <2>3, <2>4, <2>5
            DEF ThreadOnly, ManagerTypeOK, ThreadOfEntry, Alive, ThreadStates
  <1>3. CASE ReportsProgress(s) \/ Fails(s) \/ Retries(s) \/ Stops(s)
    <2>1. thread[s].at \in {"idle", "busy"} /\ ThreadOnly
      BY <1>3 DEF ReportsProgress, Fails, Retries, Stops
    <2>2. PICK at \in {"idle", "busy", "returned"}, state \in States, result \in {0, 1} :
             /\ Publish(s, at, state, result)
             /\ at = "returned" => state \in {"STOPPED", "FAILED"}
      <3>1. CASE ReportsProgress(s)
        BY <3>1 DEF ReportsProgress, States
      <3>2. CASE Fails(s)
        BY <3>2 DEF Fails, States
      <3>3. CASE Retries(s)
        BY <3>3 DEF Retries, States
      <3>4. CASE Stops(s)
        BY <3>4 DEF Stops, States
      <3> QED BY <1>3, <3>1, <3>2, <3>3, <3>4
    <2>3. /\ ManagerTypeOK' /\ ThreadLeaves(s)
          /\ thread'[s].at = at /\ thread'[s].channel = entries[s].channel
          /\ SnapshotOfEntry(s)'
      BY <2>1, <2>2, PublishFacts
    <2> QED BY <1>0, <2>1, <2>3 DEF ThreadOnly, Alive, ThreadStates
  <1>4. CASE ThreadRunningCleared(s)
    <2>1. entries' = [entries EXCEPT ![s].thread_running = FALSE]
          /\ thread' = [thread EXCEPT ![s].at = "leaving"]
          /\ thread[s].at = "returned" /\ ThreadOnly
      BY <1>4 DEF ThreadRunningCleared, Goes
    <2>2. thread' \in [Slots -> Threads] /\ thread'[s].at = "leaving"
          /\ thread'[s].channel = thread[s].channel
      BY <1>0, <2>1 DEF ManagerTypeOK, Threads, ThreadStates
    <2>3. entries' \in [Slots -> Entries]
      <3>1. [entries[s] EXCEPT !.thread_running = FALSE] \in Entries
        BY <1>0 DEF ManagerTypeOK, Entries
      <3>2. entries' = [entries EXCEPT ![s] = [@ EXCEPT !.thread_running = FALSE]]
        BY <2>1
      <3> QED BY <1>0, <3>1, <3>2 DEF ManagerTypeOK
    <2>4. ThreadLeaves(s) /\ entries'[s].snapshot = entries[s].snapshot
      BY <1>0, <2>1 DEF ThreadLeaves, ThreadOnly, ManagerTypeOK, Entries
    <2>5. SnapshotOfEntry(s)'
      BY <1>0, <2>1, <2>2, <2>4 DEF SnapshotOfEntry, ThreadLeaves
    <2> QED BY <1>0, <2>1, <2>2, <2>3, <2>4, <2>5
            DEF ThreadOnly, ManagerTypeOK, ThreadOfEntry, Alive, ThreadStates
  <1>5. CASE ActiveThreadsLowered(s)
    <2>1. manager' = [manager EXCEPT !.active_threads = @ - 1]
          /\ thread' = [thread EXCEPT ![s].at = "ended"]
          /\ thread[s].at = "leaving" /\ UNCHANGED <<entries, sampler, lock, frame, reply>>
      BY <1>5 DEF ActiveThreadsLowered, Goes
    <2>2. thread' \in [Slots -> Threads] /\ thread'[s].at = "ended"
          /\ thread'[s].channel = thread[s].channel
      BY <1>0, <2>1 DEF ManagerTypeOK, Threads, ThreadStates
    <2>3. manager.active_threads - 1 \in Nat
      BY <2>1, CountType DEF Alive, ThreadStates
    <2>4. manager' \in Managers /\ manager'.active_threads = manager.active_threads - 1
      BY <1>0, <2>1, <2>3 DEF ManagerTypeOK, Managers
    <2>5. ThreadLeaves(s)
      BY <1>0, <2>1, <2>4 DEF ThreadLeaves, ManagerTypeOK, Managers
    <2>6. SnapshotOfEntry(s)'
      BY <1>0, <2>1, <2>2 DEF SnapshotOfEntry
    <2> QED BY <1>0, <2>1, <2>2, <2>4, <2>5, <2>6
            DEF ManagerTypeOK, ThreadOfEntry, Alive, ThreadStates
  <1> QED BY <1>1, <1>2, <1>3, <1>4, <1>5 DEF run_channel

\* Tables whose entries have the same channels and settings are as good as each
\* other for what the invariant says of configurations.
LEMMA SameChannels ==
    ASSUME NEW a, NEW b,
           \A s \in Slots : /\ a[s].occupied = b[s].occupied
                            /\ a[s].channel = b[s].channel
                            /\ a[s].globals = b[s].globals
    PROVE  /\ DistinctIds(a) = DistinctIds(b)
           /\ \A config : \A S \in SUBSET Slots : FromConfig(a, config, S) = FromConfig(b, config, S)
           /\ \A config, n : HaveEntries(a, config, n) = HaveEntries(b, config, n)
           /\ \A config : InForce(a, config) = InForce(b, config)
           /\ \A f, globals : Reloading(a, f, globals) = Reloading(b, f, globals)
  <1>1. DistinctIds(a) = DistinctIds(b)
    BY DEF DistinctIds
  <1>2. \A config : \A S \in SUBSET Slots : FromConfig(a, config, S) = FromConfig(b, config, S)
    BY DEF FromConfig
  <1>3. \A config, n : HaveEntries(a, config, n) = HaveEntries(b, config, n)
    BY DEF HaveEntries
  <1>4. \A config : InForce(a, config) = InForce(b, config)
    BY <1>2, <1>3 DEF InForce
  <1>5. ASSUME NEW f, NEW globals PROVE Reloading(a, f, globals) = Reloading(b, f, globals)
    <2>1. Behind(f) \in SUBSET Slots
      BY DEF Behind
    <2>2. FirstLoop(a, f, globals) = FirstLoop(b, f, globals)
      BY <1>2, <2>1 DEF FirstLoop
    <2>3. SecondLoop(a, f) = SecondLoop(b, f)
      BY <1>2, <1>3 DEF SecondLoop
    <2> QED BY <2>2, <2>3 DEF Reloading
  <1> QED BY <1>1, <1>2, <1>3, <1>4, <1>5

\* A thread keeps the invariant.
LEMMA ThreadKeeps ==
    ASSUME IInv, NEW s \in Slots, run_channel(s), UNCHANGED gatewayVars
    PROVE  IInv'
  <1>0. /\ ManagerTypeOK' /\ ThreadLeaves(s)
        /\ thread[s].at # "none" /\ thread'[s].at # "none"
        /\ thread'[s].at \notin {"none", "begin"} => thread'[s].channel = entries[s].channel
        /\ SnapshotOfEntry(s)'
        /\ manager'.active_threads =
              manager.active_threads - (IF thread'[s].at \in Alive THEN 0 ELSE 1)
        /\ thread[s].at \in Alive
    BY ThreadStep
  <1>1. /\ UNCHANGED <<sampler, lock, frame, reply>> /\ UNCHANGED <<pc, http, signals, local>>
        /\ manager'.config = manager.config /\ manager'.started = manager.started
    BY <1>0 DEF ThreadLeaves, gatewayVars
  <1>2. \A t \in Slots : (thread'[t].at = "none") = (thread[t].at = "none")
    BY <1>0 DEF ThreadLeaves
  <1>3. TypeOK'
    BY <1>0, <1>1 DEF IInv, TypeOK, GatewayTypeOK
  <1>4. Control'
    BY <1>1 DEF IInv, Control, FramePlace, Holder, HttpThere
  <1>5. Threading'
    <2>1. ASSUME NEW t \in Slots PROVE ThreadOfEntry(t)'
      BY <1>0, <1>2 DEF ThreadLeaves, IInv, Threading, ThreadOfEntry
    <2>2. frame.at \in {"configure", "prepare", "create", "check"} => frame.slot \in Slots
      BY DEF IInv, Control, FramePlace
    <2>3. /\ frame.at \in {"configure", "prepare", "create"} => thread'[frame.slot].at = "none"
          /\ frame.at \in {"configure", "prepare", "create", "check"}
                => entries'[frame.slot].occupied
      BY <1>0, <1>2, <2>2 DEF ThreadLeaves, IInv, Threading
    <2> QED BY <1>1, <2>1, <2>3 DEF Threading
  <1>6. Snapshooting'
    <2>1. ASSUME NEW t \in Slots, t # s PROVE SnapshotOfEntry(t)'
      BY <1>0, <2>1 DEF ThreadLeaves, IInv, Snapshooting, SnapshotOfEntry
    <2> QED BY <1>0, <2>1 DEF Snapshooting
  <1>7. Lifetime'
    <2>1. Starting'
      BY <1>1, <1>2 DEF IInv, Lifetime, Starting
    <2>2. AllJoined' = AllJoined
      BY <1>2 DEF AllJoined
    <2>3. Stopping'
      BY <1>1, <1>2, <2>2 DEF IInv, Lifetime, Stopping
    <2>4. MainKnows'
      BY <1>1, <2>2 DEF IInv, Lifetime, MainKnows, Quiet
    <2> QED BY <2>1, <2>3, <2>4 DEF Lifetime
  <1>8. ActiveThreadsExact'
    <2>1. Cardinality(AliveThreads)' =
             Cardinality(AliveThreads) - (IF thread'[s].at \in Alive THEN 0 ELSE 1)
      BY <1>0, AliveSteps, AliveCounted DEF ThreadLeaves, IInv, TypeOK, ManagerTypeOK
    <2> QED BY <1>0, <1>1, <2>1, AliveCounted DEF IInv, ActiveThreadsExact, AliveThreads
  <1>9. Configuration'
    <2>1. DistinctIds(entries') = DistinctIds(entries)
          /\ Reloading(entries', frame, manager.config.globals)
               = Reloading(entries, frame, manager.config.globals)
          /\ InForce(entries', manager.config) = InForce(entries, manager.config)
      BY <1>0, SameChannels DEF ThreadLeaves
    <2> QED BY <1>1, <2>1 DEF IInv, Configuration
  <1> QED BY <1>3, <1>4, <1>5, <1>6, <1>7, <1>8, <1>9 DEF IInv

-----------------------------------------------------------------------------
(* The call that holds the mutex.                                          *)

\* Where a call goes when an entry has been started ...
LEMMA AfterCreateFacts ==
    ASSUME NEW f \in Frames
    PROVE  /\ AfterCreate(f).candidate = f.candidate /\ AfterCreate(f).status = f.status
           /\ f.call = "start" /\ f.status = "OK" =>
                 /\ AfterCreate(f).call = "start" /\ AfterCreate(f).at = "slot"
                 /\ AfterCreate(f).slot = f.slot + 1 /\ AfterCreate(f).next = f.next
           /\ f.call = "start" /\ f.status # "OK" =>
                 /\ AfterCreate(f).call = "abort" /\ AfterCreate(f).at = "slot"
                 /\ AfterCreate(f).slot = 1
           /\ f.call = "reload" /\ f.next = 0 =>
                 /\ AfterCreate(f).call = "reload" /\ AfterCreate(f).at = "slot"
                 /\ AfterCreate(f).slot = f.slot + 1 /\ AfterCreate(f).next = 0
           /\ f.call = "reload" /\ f.next # 0 =>
                 /\ AfterCreate(f).call = "reload" /\ AfterCreate(f).at = "add"
                 /\ AfterCreate(f).slot = f.slot /\ AfterCreate(f).next = f.next + 1
           /\ f.call \notin {"start", "reload"} =>
                 AfterCreate(f).call = f.call /\ AfterCreate(f).at = "leave"
  <1>1. CASE f.call = "start"
    BY <1>1 DEF AfterCreate, Frames
  <1>2. CASE f.call = "reload"
    BY <1>2 DEF AfterCreate, Frames
  <1>3. CASE f.call \notin {"start", "reload"}
    BY <1>3 DEF AfterCreate, Frames
  <1> QED BY <1>1, <1>2, <1>3

\* ... and when a thread has been joined.
LEMMA AfterJoinFacts ==
    ASSUME NEW f \in Frames
    PROVE  /\ AfterJoin(f).candidate = f.candidate /\ AfterJoin(f).status = f.status
           /\ AfterJoin(f).call = f.call /\ AfterJoin(f).next = f.next
           /\ f.call = "abort" => AfterJoin(f).at = "slot" /\ AfterJoin(f).slot = f.slot + 1
           /\ f.call # "abort" => AfterJoin(f).slot = f.slot
           /\ f.call = "reload" => AfterJoin(f).at = "configure"
           /\ f.call = "wait" => AfterJoin(f).at = "collect"
           /\ f.call = "start_channel" => AfterJoin(f).at = "check"
           /\ f.call = "restart_channel" => AfterJoin(f).at = "prepare"
           /\ f.call \in {"none", "start", "stop_channel"} => AfterJoin(f).at = "leave"
  <1>1. CASE f.call = "abort"
    BY <1>1 DEF AfterJoin, Frames
  <1>2. CASE f.call = "reload"
    BY <1>2 DEF AfterJoin, Frames
  <1>3. CASE f.call = "wait"
    BY <1>3 DEF AfterJoin, Frames
  <1>4. CASE f.call = "start_channel"
    BY <1>4 DEF AfterJoin, Frames
  <1>5. CASE f.call = "restart_channel"
    BY <1>5 DEF AfterJoin, Frames
  <1>6. CASE f.call \in {"none", "start", "stop_channel"}
    BY <1>6 DEF AfterJoin, Frames
  <1> QED BY <1>1, <1>2, <1>3, <1>4, <1>5, <1>6 DEF Frames, Calls

\* stop_entry: a thread that was started is joined, and otherwise the call goes on.
LEMMA StopEntryFacts ==
    ASSUME ManagerTypeOK, NEW s \in Slots, NEW after \in Frames, StopEntry(s, after)
    PROVE  /\ frame'.call = after.call /\ frame'.slot = s /\ frame'.next = after.next
           /\ frame'.candidate = after.candidate /\ frame'.status = after.status
           /\ frame'.at = IF entries[s].thread_started THEN "join" ELSE after.at
           /\ \A t \in Slots :
                 /\ entries'[t].occupied = entries[t].occupied
                 /\ entries'[t].channel = entries[t].channel
                 /\ entries'[t].globals = entries[t].globals
                 /\ entries'[t].generation = entries[t].generation
                 /\ entries'[t].thread_started = entries[t].thread_started
                 /\ entries'[t].snapshot = entries[t].snapshot
  <1>1. CASE entries[s].thread_started
    <2>1. /\ entries' = [entries EXCEPT ![s].stop_signal = TRUE]
          /\ frame' = [after EXCEPT !.slot = s, !.at = "join"]
      BY <1>1 DEF StopEntry
    <2> QED BY <1>1, <2>1 DEF ManagerTypeOK, Entries, Frames
  <1>2. CASE ~ entries[s].thread_started
    BY <1>2 DEF StopEntry, Frames
  <1> QED BY <1>1, <1>2

\* A start that gives up joins the thread of the entry it is at, or passes over an
\* entry that has none.
LEMMA AbortSlotFacts ==
    ASSUME ManagerTypeOK, FramePlace, AbortSlot, ~ LoopDone
    PROVE  /\ frame.slot \in Slots /\ frame.at = "slot"
           /\ frame'.call = "abort" /\ frame'.status = frame.status
           /\ \/ frame'.at = "join" /\ frame'.slot = frame.slot
              \/ /\ frame'.at = "slot" /\ frame'.slot = frame.slot + 1
                 /\ ~ entries[frame.slot].thread_started
           /\ \A t \in Slots :
                 /\ entries'[t].occupied = entries[t].occupied
                 /\ entries'[t].channel = entries[t].channel
                 /\ entries'[t].globals = entries[t].globals
                 /\ entries'[t].generation = entries[t].generation
                 /\ entries'[t].thread_started = entries[t].thread_started
                 /\ entries'[t].snapshot = entries[t].snapshot
  <1>1. frame.slot \in Slots /\ frame \in Frames /\ frame.at = "slot" /\ frame.call = "abort"
    BY ManagerAssumption DEF AbortSlot, FramePlace, LoopDone, Slots, ManagerTypeOK
  <1>2. CASE Here.thread_started /\ StopEntry(frame.slot, frame)
    BY <1>1, <1>2, StopEntryFacts DEF Here
  <1>3. CASE ~ Here.thread_started /\ frame' = NextSlot /\ UNCHANGED entries
    BY <1>1, <1>3 DEF Here, NextSlot, Frames
  <1> QED BY <1>1, <1>2, <1>3 DEF AbortSlot

\* The place of the call that goes on is one of its own.
LEMMA SectionControl ==
    ASSUME IInv, Section, UNCHANGED gatewayVars
    PROVE  Control'
  <1> USE ManagerAssumption
  <1>0. ManagerTypeOK /\ FramePlace /\ Holder /\ HttpThere /\ Configuration /\ frame \in Frames
        /\ Starting
    BY DEF IInv, TypeOK, Control, ManagerTypeOK, Lifetime
  <1>0a. UNCHANGED <<pc, http>>
    BY DEF gatewayVars
  <1>0b. SUFFICES FramePlace' /\ Holder'
    BY <1>0, <1>0a DEF Control, HttpThere
  <1>1. CASE PrepareEntry
    <2>1. frame' = [frame EXCEPT !.at = "create"] /\ UNCHANGED lock /\ frame.at = "prepare"
      BY <1>1 DEF PrepareEntry, GoOn, Stay
    <2> QED BY <1>0, <1>0a, <2>1 DEF FramePlace, Holder, Frames
  <1>2. CASE CreateSucceeds
    <2>1. frame' = AfterCreate(frame) /\ UNCHANGED lock /\ frame.at = "create"
      BY <1>2 DEF CreateSucceeds, Stay
    <2> QED BY <1>0, <1>0a, <2>1, AfterCreateFacts DEF FramePlace, Holder, Slots, Starting
  <1>3. CASE CreateFails
    <2> DEFINE f == [frame EXCEPT !.status = "IO"]
    <2>1. frame' = AfterCreate(f) /\ UNCHANGED lock /\ frame.at = "create"
      BY <1>3 DEF CreateFails, Stay
    <2>2. f \in Frames /\ f.call = frame.call /\ f.slot = frame.slot /\ f.status = "IO"
      BY <1>0 DEF Frames, Statuses
    <2> HIDE DEF f
    <2> QED BY <1>0, <1>0a, <2>1, <2>2, AfterCreateFacts DEF FramePlace, Holder, Slots
  <1>4. CASE Join
    <2>1. frame' = AfterJoin(frame) /\ UNCHANGED lock /\ frame.at = "join"
      BY <1>4 DEF Join, Stay
    <2> QED BY <1>0, <1>0a, <2>1, AfterJoinFacts DEF FramePlace, Holder, Slots
  <1>5. CASE Leave
    BY <1>0, <1>0a, <1>5 DEF Leave, NoFrame, FramePlace, Holder
  <1>6. CASE StartSlot
    BY <1>0, <1>0a, <1>6 DEF StartSlot, Stay, FramePlace, Holder, Slots, NextSlot, LoopDone, Frames
  <1>7. CASE StartSampler
    <2>1. /\ frame.call = "start" /\ UNCHANGED lock
          /\ \/ frame'.call = "start" /\ frame'.at = "leave"
             \/ frame'.call = "abort" /\ frame'.at = "slot" /\ frame'.slot = 1
      BY <1>0, <1>7 DEF StartSampler, Stay, GoOn, Frames
    <2> QED BY <1>0, <1>0a, <2>1 DEF FramePlace, Holder
  <1>8. CASE AbortSlot
    <2>1. CASE LoopDone
      BY <1>0, <1>0a, <1>8, <2>1 DEF AbortSlot, Stay, GoOn, FramePlace, Holder, Frames
    <2>2. CASE ~ LoopDone
      <3>1. /\ frame.slot \in Slots /\ frame'.call = "abort"
            /\ \/ frame'.at = "join" /\ frame'.slot = frame.slot
               \/ frame'.at = "slot" /\ frame'.slot = frame.slot + 1
        BY <1>0, <1>8, <2>2, AbortSlotFacts
      <3> QED BY <1>0, <1>0a, <1>8, <3>1, ManagerAssumption
              DEF AbortSlot, Stay, FramePlace, Holder, Slots
    <2> QED BY <2>1, <2>2
  <1>9. CASE ReloadSlot
    <2>1. CASE LoopDone \/ (~ LoopDone /\ (~ Here.occupied \/ Unchanged(Here, frame.candidate)))
      <3>1. /\ frame.call = "reload" /\ frame.at = "slot" /\ UNCHANGED lock
            /\ \/ frame'.call = "reload" /\ frame'.at = "add"
               \/ ~ LoopDone /\ frame' = NextSlot
        BY <1>0, <1>9, <2>1 DEF ReloadSlot, Stay, Frames
      <3>2. \/ frame'.call = "reload" /\ frame'.at = "add"
            \/ /\ frame'.call = "reload" /\ frame'.at = "slot"
               /\ frame'.slot \in 1 .. GW_MAX_CHANNELS + 1
        <4>1. CASE ~ LoopDone /\ frame' = NextSlot
          <5>1. frame'.call = "reload" /\ frame'.at = "slot" /\ frame'.slot = frame.slot + 1
            BY <1>0, <3>1, <4>1 DEF NextSlot, Frames
          <5>2. frame.slot \in 1 .. GW_MAX_CHANNELS
            BY <1>0, <3>1, <4>1 DEF FramePlace, LoopDone
          <5> QED BY <5>1, <5>2
        <4> QED BY <3>1, <4>1
      <3> QED BY <1>0, <1>0a, <3>1, <3>2 DEF FramePlace, Holder
    <2>2. CASE ~ LoopDone /\ ~ (~ Here.occupied \/ Unchanged(Here, frame.candidate))
      <3>1. [frame EXCEPT !.at = "configure"] \in Frames
        BY <1>0 DEF Frames, Places
      <3>2. frame.slot \in Slots /\ StopEntry(frame.slot, [frame EXCEPT !.at = "configure"])
        BY <1>0, <1>9, <2>2 DEF ReloadSlot, FramePlace, LoopDone, Slots
      <3>3. frame'.call = "reload" /\ frame'.slot = frame.slot
            /\ frame'.at \in {"join", "configure"}
        BY <1>0, <1>9, <3>1, <3>2, StopEntryFacts DEF ReloadSlot, Frames
      <3> QED BY <1>0, <1>0a, <1>9, <3>2, <3>3 DEF ReloadSlot, Stay, FramePlace, Holder
    <2> QED BY <2>1, <2>2
  <1>10. CASE ReloadConfigure
    <2>1. frame' = NextSlot \/ GoOn("prepare")
      BY <1>10 DEF ReloadConfigure
    <2>2. frame.call = "reload" /\ frame.at = "configure" /\ UNCHANGED lock
      BY <1>10 DEF ReloadConfigure, Stay
    <2>3. /\ frame.slot \in Slots
          /\ \/ frame'.call = "reload" /\ frame'.at = "slot" /\ frame'.slot = frame.slot + 1
             \/ frame'.call = "reload" /\ frame'.at = "prepare" /\ frame'.slot = frame.slot
      BY <1>0, <2>1, <2>2 DEF FramePlace, NextSlot, GoOn, Frames
    <2> QED BY <1>0, <1>0a, <2>2, <2>3 DEF FramePlace, Holder, Slots
  <1>11. CASE ReloadAdd
    <2>1. frame.call = "reload" /\ frame.at = "add" /\ UNCHANGED lock
      BY <1>11 DEF ReloadAdd, Stay
    <2>2. /\ frame'.call = "reload" /\ frame'.at \in {"add", "prepare"}
          /\ frame'.at = "prepare" => frame'.slot \in Slots
      <3>1. \/ frame' = [frame EXCEPT !.next = @ + 1]
            \/ frame' = [frame EXCEPT !.next = Len(frame.candidate.channels) + 1,
                                      !.status = "OVERFLOW"]
            \/ FreeEntries # {}
               /\ frame' = [frame EXCEPT !.slot = find_free_entry, !.at = "prepare"]
        BY <1>11 DEF ReloadAdd
      <3> QED BY <1>0, <2>1, <3>1, FirstFree DEF Frames
    <2> QED BY <1>0, <1>0a, <2>1, <2>2 DEF FramePlace, Holder
  <1>12. CASE ReloadCommit
    BY <1>0, <1>0a, <1>12 DEF ReloadCommit, Stay, GoOn, FramePlace, Holder, Frames
  <1>13. CASE CheckChannel
    BY <1>0, <1>0a, <1>13 DEF CheckChannel, Stay, FramePlace, Holder, Frames
  <1>14. CASE WaitSlot
    BY <1>0, <1>0a, <1>14 DEF WaitSlot, Stay, GoOn, FramePlace, Holder, Frames, LoopDone, Slots
  <1>15. CASE WaitCollect
    BY <1>0, <1>0a, <1>15 DEF WaitCollect, Stay, NextSlot, FramePlace, Holder, Frames, Slots
  <1>16. CASE WaitSampler
    BY <1>0, <1>0a, <1>16 DEF WaitSampler, Stay, GoOn, FramePlace, Holder, Frames
  <1> QED BY <1>1, <1>2, <1>3, <1>4, <1>5, <1>6, <1>7, <1>8, <1>9, <1>10, <1>11, <1>12,
             <1>13, <1>14, <1>15, <1>16 DEF Section

\* Outside the two steps of a reload that configure entries, a call leaves what the
\* entries are of and what is published of them.
SameEntries ==
    \A t \in Slots :
       /\ entries'[t].occupied = entries[t].occupied
       /\ entries'[t].channel = entries[t].channel
       /\ entries'[t].globals = entries[t].globals
       /\ entries'[t].generation = entries[t].generation
       /\ entries'[t].snapshot = entries[t].snapshot

LEMMA SectionEntries ==
    ASSUME IInv, Section, ~ ReloadConfigure, ~ ReloadAdd
    PROVE  SameEntries
  <1>0. ManagerTypeOK /\ FramePlace /\ frame \in Frames
    BY DEF IInv, TypeOK, Control, ManagerTypeOK
  <1>1. CASE PrepareEntry
    BY <1>0, <1>1 DEF PrepareEntry, SameEntries, FramePlace, ManagerTypeOK, Entries
  <1>2. CASE CreateSucceeds
    BY <1>0, <1>2 DEF CreateSucceeds, SameEntries, FramePlace, ManagerTypeOK, Entries
  <1>3. CASE CreateFails
    BY <1>0, <1>3 DEF CreateFails, SameEntries, FramePlace, ManagerTypeOK, Entries
  <1>4. CASE Join
    BY <1>0, <1>4 DEF Join, SameEntries, FramePlace, ManagerTypeOK, Entries
  <1>5. CASE AbortSlot
    <2>1. CASE LoopDone
      BY <1>5, <2>1 DEF AbortSlot, SameEntries
    <2>2. CASE ~ LoopDone
      BY <1>0, <1>5, <2>2, AbortSlotFacts DEF SameEntries
    <2> QED BY <2>1, <2>2
  <1>6. CASE ReloadSlot
    <2>1. CASE UNCHANGED entries
      BY <2>1 DEF SameEntries
    <2>2. CASE ~ UNCHANGED entries
      <3>1. [frame EXCEPT !.at = "configure"] \in Frames
        BY <1>0 DEF Frames, Places
      <3>2. frame.slot \in Slots /\ StopEntry(frame.slot, [frame EXCEPT !.at = "configure"])
        BY <1>0, <1>6, <2>2, ManagerAssumption DEF ReloadSlot, FramePlace, LoopDone, Slots
      <3> QED BY <1>0, <3>1, <3>2, StopEntryFacts DEF SameEntries
    <2> QED BY <2>1, <2>2
  <1>7. CASE \/ Leave \/ StartSlot \/ StartSampler \/ ReloadCommit \/ CheckChannel
             \/ WaitSlot \/ WaitCollect \/ WaitSampler
    BY <1>7 DEF SameEntries, Leave, StartSlot, StartSampler, ReloadCommit, CheckChannel,
                WaitSlot, WaitCollect, WaitSampler
  <1> QED BY <1>1, <1>2, <1>3, <1>4, <1>5, <1>6, <1>7 DEF Section

\* The table after one entry of it was configured.
LEMMA ConfigureFacts ==
    ASSUME NEW table \in [Slots -> Entries], NEW s \in Slots, NEW channel \in Channels,
           NEW config \in gw_config, NEW after,
           after = [table EXCEPT ![s] = configure_entry(@, channel, config)]
    PROVE  /\ \A t \in Slots : t # s => after[t] = table[t]
           /\ after[s].occupied /\ after[s].channel = channel
           /\ after[s].globals = config.globals
           /\ after[s].snapshot.id = channel.id
           /\ after[s].snapshot.generation = after[s].generation
           /\ after[s].snapshot.state = "STOPPED"
           /\ after[s].thread_started = table[s].thread_started
  <1> DEFINE e == table[s]
             configured == configure_entry(e, channel, config)
  <1>1. e \in Entries
    OBVIOUS
  <1>2. after[s] = configured /\ \A t \in Slots : t # s => after[t] = table[t]
    OBVIOUS
  <1> HIDE DEF e
  <1>3. /\ configured.occupied /\ configured.channel = channel
        /\ configured.globals = config.globals
        /\ configured.snapshot = [id |-> channel.id, state |-> "STOPPED",
                                  generation |-> configured.generation]
        /\ configured.thread_started = e.thread_started
    BY <1>1, ConfigureType
  <1> HIDE DEF configured
  <1> QED BY <1>2, <1>3 DEF e

\* The same of the entries, in the steps of a reload.
LEMMA ConfiguredEntries ==
    ASSUME ManagerTypeOK, NEW s \in Slots, NEW channel \in Channels,
           entries' = [entries EXCEPT ![s] = configure_entry(@, channel, frame.candidate)]
    PROVE  /\ \A t \in Slots : t # s => entries'[t] = entries[t]
           /\ entries'[s].occupied /\ entries'[s].channel = channel
           /\ entries'[s].globals = frame.candidate.globals
           /\ entries'[s].snapshot.id = channel.id
           /\ entries'[s].snapshot.generation = entries'[s].generation
           /\ entries'[s].snapshot.state = "STOPPED"
           /\ entries'[s].thread_started = entries[s].thread_started
  <1> DEFINE table == entries
             after == entries'
             config == frame.candidate
  <1>1. /\ table \in [Slots -> Entries] /\ config \in gw_config
        /\ after = [table EXCEPT ![s] = configure_entry(@, channel, config)]
    BY DEF ManagerTypeOK, Frames
  <1> HIDE DEF table, after, config
  <1>2. /\ \A t \in Slots : t # s => after[t] = table[t]
        /\ after[s].occupied /\ after[s].channel = channel
        /\ after[s].globals = config.globals
        /\ after[s].snapshot.id = channel.id
        /\ after[s].snapshot.generation = after[s].generation
        /\ after[s].snapshot.state = "STOPPED"
        /\ after[s].thread_started = table[s].thread_started
    BY <1>1, ConfigureFacts
  <1> QED BY <1>2 DEF table, after, config

\* The two steps of a reload that configure entries: the entry is removed, given
\* the channel with its id, or it was free and is given the next channel; or the
\* next channel needs no entry, or finds none.
Removes ==
    /\ frame.at = "configure" /\ frame' = NextSlot
    /\ find_enabled_channel(frame.candidate, Here.channel.id) = {}
    /\ entries' = [entries EXCEPT ![frame.slot].occupied = FALSE]

Replaces(ch) ==
    /\ frame.at = "configure" /\ frame' = [frame EXCEPT !.at = "prepare"]
    /\ ch \in EnabledChannels(frame.candidate) /\ ch.id = Here.channel.id
    /\ entries' = [entries EXCEPT ![frame.slot] = configure_entry(@, ch, frame.candidate)]

Adds(s) ==
    /\ frame.at = "add" /\ frame.next \in 1 .. Len(frame.candidate.channels)
    /\ ~ entries[s].occupied
    /\ frame.candidate.channels[frame.next].enabled
    /\ find_entry(frame.candidate.channels[frame.next].id) = {}
    /\ frame' = [frame EXCEPT !.slot = s, !.at = "prepare"]
    /\ entries' = [entries EXCEPT ![s] =
                      configure_entry(@, frame.candidate.channels[frame.next], frame.candidate)]

Skips ==
    /\ frame.at = "add" /\ frame.next \in 1 .. Len(frame.candidate.channels)
    /\ \/ /\ \/ ~ frame.candidate.channels[frame.next].enabled
             \/ find_entry(frame.candidate.channels[frame.next].id) # {}
          /\ frame' = [frame EXCEPT !.next = @ + 1]
       \/ /\ FreeEntries = {}
          /\ find_entry(frame.candidate.channels[frame.next].id) = {}
          /\ frame' = [frame EXCEPT !.next = Len(frame.candidate.channels) + 1,
                                    !.status = "OVERFLOW"]
    /\ UNCHANGED entries

LEMMA Configures ==
    ASSUME IInv, ReloadConfigure \/ ReloadAdd
    PROVE  /\ frame.call = "reload" /\ UNCHANGED <<thread, manager, sampler, lock, reply>>
           /\ \/ frame.slot \in Slots /\ Removes
              \/ frame.slot \in Slots /\ \E ch \in Channels : Replaces(ch)
              \/ \E s \in Slots : Adds(s)
              \/ Skips
           /\ \A t \in Slots : entries'[t].thread_started = entries[t].thread_started
  <1>0. ManagerTypeOK /\ FramePlace /\ frame \in Frames /\ Configuration
        /\ frame.candidate \in gw_config
    BY DEF IInv, TypeOK, Control, ManagerTypeOK, Frames
  <1>1. frame.call = "reload" /\ UNCHANGED <<thread, manager, sampler, lock, reply>>
    BY DEF ReloadConfigure, ReloadAdd, Stay
  <1>2. ASSUME NEW s \in Slots, NEW channel \in Channels,
               entries' = [entries EXCEPT ![s] = configure_entry(@, channel, frame.candidate)]
        PROVE  \A t \in Slots : entries'[t].thread_started = entries[t].thread_started
    BY <1>0, <1>2, ConfiguredEntries
  <1>3. CASE ReloadConfigure
    <2> DEFINE replacement == find_enabled_channel(frame.candidate, Here.channel.id)
    <2>1. frame.slot \in Slots
      BY <1>0, <1>3 DEF ReloadConfigure, FramePlace
    <2>2. CASE replacement = {}
      <3>1. Removes
        BY <1>3, <2>2 DEF ReloadConfigure, Removes
      <3>2. \A t \in Slots : entries'[t].thread_started = entries[t].thread_started
        BY <1>0, <2>1, <3>1 DEF Removes, ManagerTypeOK, Entries
      <3> QED BY <1>1, <2>1, <3>1, <3>2
    <2>3. CASE replacement # {}
      <3>1. PICK ch \in replacement :
               /\ entries' = [entries EXCEPT ![frame.slot] =
                                 configure_entry(@, ch, frame.candidate)]
               /\ GoOn("prepare")
        BY <1>3, <2>3 DEF ReloadConfigure
      <3>2. ch \in Channels
        BY <1>0, ChannelsType DEF find_enabled_channel
      <3>3. Replaces(ch)
        BY <1>3, <3>1 DEF ReloadConfigure, Replaces, GoOn, find_enabled_channel
      <3> QED BY <1>1, <1>2, <2>1, <3>1, <3>2, <3>3
    <2> QED BY <2>2, <2>3
  <1>4. CASE ReloadAdd
    <2> DEFINE channel == frame.candidate.channels[frame.next]
    <2>1. /\ frame.at = "add" /\ frame.next \in 1 .. Len(frame.candidate.channels)
      BY <1>0, <1>1, <1>4, ChannelsType DEF ReloadAdd, Configuration, Reloading, Frames
    <2>2. CASE ~ channel.enabled \/ find_entry(channel.id) # {} \/ FreeEntries = {}
      BY <1>1, <1>4, <2>1, <2>2 DEF ReloadAdd, Skips
    <2>3. CASE ~ (~ channel.enabled \/ find_entry(channel.id) # {} \/ FreeEntries = {})
      <3>1. /\ channel.enabled /\ find_entry(channel.id) = {} /\ FreeEntries # {}
            /\ entries' = [entries EXCEPT ![find_free_entry] =
                               configure_entry(@, channel, frame.candidate)]
            /\ frame' = [frame EXCEPT !.slot = find_free_entry, !.at = "prepare"]
        BY <1>4, <2>3 DEF ReloadAdd
      <3>3. channel \in Channels
        BY <1>0, <2>1, ChannelsType
      <3>4. find_free_entry \in Slots /\ ~ entries[find_free_entry].occupied
        BY <3>1, FirstFree
      <3>5. Adds(find_free_entry)
        BY <2>1, <3>1, <3>4 DEF Adds
      <3> QED BY <1>1, <1>2, <3>1, <3>3, <3>4, <3>5
    <2> QED BY <2>2, <2>3
  <1> QED BY <1>3, <1>4

\* Outside pthread_create and pthread_join a call leaves the threads, and whether
\* entries have one.
LEMMA SectionThreads ==
    ASSUME IInv, Section, ~ CreateSucceeds, ~ Join
    PROVE  /\ UNCHANGED thread
           /\ \A t \in Slots : entries'[t].thread_started = entries[t].thread_started
  <1>0. ManagerTypeOK /\ FramePlace /\ frame \in Frames /\ Configuration
    BY DEF IInv, TypeOK, Control, ManagerTypeOK
  <1>1. CASE PrepareEntry
    BY <1>0, <1>1 DEF PrepareEntry, FramePlace, ManagerTypeOK, Entries
  <1>2. CASE CreateFails
    BY <1>0, <1>2 DEF CreateFails, FramePlace, ManagerTypeOK, Entries
  <1>3. CASE AbortSlot
    <2>1. CASE LoopDone
      BY <1>3, <2>1 DEF AbortSlot
    <2>2. CASE ~ LoopDone
      BY <1>0, <1>3, <2>2, AbortSlotFacts DEF AbortSlot
    <2> QED BY <2>1, <2>2
  <1>4. CASE ReloadSlot
    <2>1. CASE UNCHANGED entries
      BY <1>4, <2>1 DEF ReloadSlot
    <2>2. CASE ~ UNCHANGED entries
      <3>1. [frame EXCEPT !.at = "configure"] \in Frames
        BY <1>0 DEF Frames, Places
      <3>2. frame.slot \in Slots /\ StopEntry(frame.slot, [frame EXCEPT !.at = "configure"])
        BY <1>0, <1>4, <2>2, ManagerAssumption DEF ReloadSlot, FramePlace, LoopDone, Slots
      <3> QED BY <1>0, <1>4, <3>1, <3>2, StopEntryFacts DEF ReloadSlot
    <2> QED BY <2>1, <2>2
  <1>5. CASE ReloadConfigure \/ ReloadAdd
    BY <1>0, <1>5, Configures
  <1>6. CASE \/ Leave \/ StartSlot \/ StartSampler \/ ReloadCommit \/ CheckChannel
             \/ WaitSlot \/ WaitCollect \/ WaitSampler
    BY <1>6 DEF Leave, StartSlot, StartSampler, ReloadCommit, CheckChannel,
                WaitSlot, WaitCollect, WaitSampler
  <1> QED BY <1>1, <1>2, <1>3, <1>4, <1>5, <1>6 DEF Section

\* A call that goes on keeps what the invariant says of threads and their entries.
LEMMA SectionThreading ==
    ASSUME IInv, Section
    PROVE  Threading'
  <1>0. /\ ManagerTypeOK /\ FramePlace /\ frame \in Frames /\ Threading /\ Starting
        /\ entries \in [Slots -> Entries] /\ thread \in [Slots -> Threads]
        /\ \A t \in Slots : ThreadOfEntry(t)
    BY DEF IInv, TypeOK, Control, ManagerTypeOK, Lifetime, Threading
  <1>1. CASE CreateSucceeds
    <2>0. PICK s \in Slots : s = frame.slot
      BY <1>0, <1>1 DEF CreateSucceeds, FramePlace
    <2>1. /\ frame.at = "create" /\ entries[s].occupied
          /\ thread' = [thread EXCEPT ![s] = [NoThread EXCEPT !.at = "begin"]]
          /\ entries' = [entries EXCEPT ![s].thread_started = TRUE]
      BY <1>0, <1>1, <2>0 DEF CreateSucceeds, Threading
    <2>2. frame'.at \in {"slot", "add", "leave"}
      BY <1>0, <1>1, AfterCreateFacts DEF CreateSucceeds
    <2>3. /\ thread'[s].at = "begin" /\ entries'[s].thread_started
          /\ entries'[s].occupied /\ entries'[s].channel = entries[s].channel
      BY <1>0, <2>1 DEF NoThread, Entries
    <2>4. ThreadOfEntry(s)'
      BY <1>0, <2>1, <2>3 DEF ThreadOfEntry
    <2>5. ASSUME NEW t \in Slots, t # s PROVE ThreadOfEntry(t)'
      BY <1>0, <2>1, <2>5 DEF ThreadOfEntry
    <2> QED BY <2>2, <2>4, <2>5 DEF Threading
  <1>2. CASE Join
    <2>0. PICK s \in Slots : s = frame.slot
      BY <1>0, <1>2 DEF Join, FramePlace
    <2>1. /\ frame.at = "join" /\ thread[s].at = "ended"
          /\ thread' = [thread EXCEPT ![s] = NoThread]
          /\ entries' = [entries EXCEPT ![s].thread_started = FALSE]
          /\ frame' = AfterJoin(frame)
      BY <1>0, <1>2, <2>0 DEF Join
    <2>2. entries[s].occupied
      BY <1>0, <2>1 DEF ThreadOfEntry
    <2>3. /\ thread'[s].at = "none" /\ ~ entries'[s].thread_started
          /\ entries'[s].occupied /\ entries'[s].channel = entries[s].channel
      BY <1>0, <2>1, <2>2 DEF NoThread, Entries
    <2>4. ThreadOfEntry(s)'
      BY <1>0, <2>2, <2>3 DEF ThreadOfEntry
    <2>5. ASSUME NEW t \in Slots, t # s PROVE ThreadOfEntry(t)'
      BY <1>0, <2>1, <2>5 DEF ThreadOfEntry
    <2>6. frame'.at \in {"configure", "prepare", "create", "check"} => frame'.slot = s
      BY <1>0, <2>0, <2>1, AfterJoinFacts
    <2> QED BY <2>3, <2>4, <2>5, <2>6 DEF Threading
  <1>3. CASE ReloadConfigure \/ ReloadAdd
    <2>1. /\ UNCHANGED thread
          /\ \/ frame.slot \in Slots /\ Removes
             \/ frame.slot \in Slots /\ \E ch \in Channels : Replaces(ch)
             \/ \E s \in Slots : Adds(s)
             \/ Skips
      BY <1>3, Configures
    <2>2. CASE frame.slot \in Slots /\ Removes
      <3>1. frame'.at = "slot" /\ thread[frame.slot].at = "none"
        BY <1>0, <2>2 DEF Removes, NextSlot, Frames, Threading
      <3>2. ASSUME NEW t \in Slots PROVE ThreadOfEntry(t)'
        <4>1. CASE t = frame.slot
          <5>1. ~ entries'[t].occupied /\ entries'[t].thread_started = entries[t].thread_started
            BY <1>0, <2>2, <4>1 DEF Removes, Entries
          <5> QED BY <1>0, <2>1, <3>1, <4>1, <5>1 DEF ThreadOfEntry
        <4>2. CASE t # frame.slot
          BY <1>0, <2>1, <2>2, <4>2 DEF Removes, ThreadOfEntry
        <4> QED BY <4>1, <4>2
      <3> QED BY <3>1, <3>2 DEF Threading
    <2>3. ASSUME NEW s \in Slots, NEW ch \in Channels, thread[s].at = "none",
                 entries' = [entries EXCEPT ![s] = configure_entry(@, ch, frame.candidate)],
                 frame'.at = "prepare", frame'.slot = s
          PROVE  Threading'
      <3>1. /\ \A t \in Slots : t # s => entries'[t] = entries[t]
            /\ entries'[s].occupied /\ entries'[s].channel = ch
            /\ entries'[s].thread_started = entries[s].thread_started
        BY <1>0, <2>3, ConfiguredEntries
      <3>2. ThreadOfEntry(s)'
        BY <1>0, <2>1, <2>3, <3>1 DEF ThreadOfEntry
      <3>3. ASSUME NEW t \in Slots, t # s PROVE ThreadOfEntry(t)'
        BY <1>0, <2>1, <3>1, <3>3 DEF ThreadOfEntry
      <3> QED BY <2>1, <2>3, <3>1, <3>2, <3>3 DEF Threading
    <2>4. CASE frame.slot \in Slots /\ \E ch \in Channels : Replaces(ch)
      <3>1. PICK ch \in Channels : Replaces(ch)
        BY <2>4
      <3>2. frame'.at = "prepare" /\ frame'.slot = frame.slot /\ thread[frame.slot].at = "none"
        BY <1>0, <3>1 DEF Replaces, Frames, Threading
      <3> QED BY <2>3, <2>4, <3>1, <3>2 DEF Replaces
    <2>5. CASE \E s \in Slots : Adds(s)
      <3>1. PICK s \in Slots : Adds(s)
        BY <2>5
      <3>2. frame'.at = "prepare" /\ frame'.slot = s /\ thread[s].at = "none"
        BY <1>0, <3>1 DEF Adds, Frames, ThreadOfEntry
      <3>3. frame.candidate.channels[frame.next] \in Channels
        BY <1>0, <3>1, ChannelsType DEF Adds, Frames
      <3> QED BY <2>3, <3>1, <3>2, <3>3 DEF Adds
    <2>6. CASE Skips
      <3>1. frame'.at = "add"
        BY <1>0, <2>6 DEF Skips, Frames
      <3> QED BY <1>0, <2>1, <2>6, <3>1 DEF Skips, Threading, ThreadOfEntry
    <2> QED BY <2>1, <2>2, <2>4, <2>5, <2>6
  <1>4. CASE ~ CreateSucceeds /\ ~ Join /\ ~ ReloadConfigure /\ ~ ReloadAdd
    <2>1. SameEntries /\ UNCHANGED thread
          /\ \A t \in Slots : entries'[t].thread_started = entries[t].thread_started
      BY <1>4, SectionEntries, SectionThreads
    <2>2. \A t \in Slots : ThreadOfEntry(t)'
      BY <1>0, <2>1 DEF SameEntries, ThreadOfEntry
    <2>3. \/ frame'.at \notin {"configure", "prepare", "create", "check"}
          \/ /\ frame'.slot \in Slots /\ thread[frame'.slot].at = "none"
             /\ entries[frame'.slot].occupied
      <3>1. CASE PrepareEntry
        BY <1>0, <3>1 DEF PrepareEntry, GoOn, Frames, FramePlace, Threading
      <3>2. CASE CreateFails
        <4> DEFINE f == [frame EXCEPT !.status = "IO"]
        <4>1. f \in Frames /\ frame' = AfterCreate(f)
          BY <1>0, <3>2 DEF CreateFails, Frames, Statuses
        <4> HIDE DEF f
        <4> QED BY <4>1, AfterCreateFacts
      <3>3. CASE StartSlot
        <4>1. CASE frame'.at = "prepare"
          <5>1. ~ LoopDone /\ Here.occupied /\ frame.call = "start" /\ frame.at = "slot"
                /\ frame'.slot = frame.slot
            BY <1>0, <3>3, <4>1 DEF StartSlot, Frames, NextSlot
          <5>2. frame.slot \in Slots
            BY <1>0, <5>1, ManagerAssumption DEF FramePlace, LoopDone, Slots
          <5>3. thread[frame.slot].at = "none"
            BY <1>0, <5>1, <5>2 DEF Starting, Slots
          <5> QED BY <5>1, <5>2, <5>3 DEF Here
        <4>2. CASE frame'.at # "prepare"
          BY <1>0, <3>3, <4>2 DEF StartSlot, Frames, NextSlot
        <4> QED BY <4>1, <4>2
      <3>4. CASE AbortSlot
        <4>1. CASE LoopDone
          BY <1>0, <3>4, <4>1 DEF AbortSlot, GoOn, Frames
        <4>2. CASE ~ LoopDone
          BY <1>0, <3>4, <4>2, AbortSlotFacts
        <4> QED BY <4>1, <4>2
      <3>5. CASE ReloadSlot
        <4>1. CASE LoopDone \/ ~ Here.occupied \/ Unchanged(Here, frame.candidate)
          BY <1>0, <3>5, <4>1 DEF ReloadSlot, NextSlot, Frames
        <4>2. CASE ~ (LoopDone \/ ~ Here.occupied \/ Unchanged(Here, frame.candidate))
          <5>1. [frame EXCEPT !.at = "configure"] \in Frames
            BY <1>0 DEF Frames, Places
          <5>2. frame.slot \in Slots /\ StopEntry(frame.slot, [frame EXCEPT !.at = "configure"])
            BY <1>0, <3>5, <4>2, ManagerAssumption DEF ReloadSlot, FramePlace, LoopDone, Slots
          <5>3. /\ frame'.slot = frame.slot
                /\ frame'.at = IF entries[frame.slot].thread_started THEN "join" ELSE "configure"
            BY <1>0, <5>1, <5>2, StopEntryFacts DEF Frames
          <5> QED BY <1>0, <4>2, <5>2, <5>3 DEF Here, ThreadOfEntry
        <4> QED BY <4>1, <4>2
      <3>6. CASE CheckChannel
        <4>1. frame.slot \in Slots /\ frame'.slot = frame.slot /\ entries[frame.slot].occupied
          BY <1>0, <3>6 DEF CheckChannel, Frames, FramePlace, Threading
        <4>2. \/ frame'.at = "prepare" /\ ~ entries[frame.slot].thread_started
              \/ frame'.at = "leave"
          BY <1>0, <3>6 DEF CheckChannel, Frames, Here
        <4> QED BY <1>0, <4>1, <4>2 DEF ThreadOfEntry
      <3>7. CASE Leave \/ StartSampler \/ ReloadCommit \/ WaitSlot \/ WaitCollect \/ WaitSampler
        <4>1. CASE Leave
          BY <4>1 DEF Leave, NoFrame
        <4>2. CASE StartSampler \/ WaitSlot
          BY <1>0, <4>2 DEF StartSampler, WaitSlot, GoOn, Frames
        <4>3. CASE ReloadCommit \/ WaitCollect \/ WaitSampler
          BY <1>0, <4>3 DEF ReloadCommit, WaitCollect, WaitSampler, GoOn, NextSlot, Frames
        <4> QED BY <3>7, <4>1, <4>2, <4>3
      <3> QED BY <1>4, <3>1, <3>2, <3>3, <3>4, <3>5, <3>6, <3>7 DEF Section
    <2> QED BY <2>1, <2>2, <2>3 DEF Threading, SameEntries
  <1> QED BY <1>1, <1>2, <1>3, <1>4

\* A call that goes on keeps what is published of the entries true.
LEMMA SectionSnapshooting ==
    ASSUME IInv, Section
    PROVE  Snapshooting'
  <1>0. /\ ManagerTypeOK /\ FramePlace /\ frame \in Frames /\ Threading
        /\ entries \in [Slots -> Entries] /\ thread \in [Slots -> Threads]
        /\ \A t \in Slots : SnapshotOfEntry(t)
        /\ \A t \in Slots : ThreadOfEntry(t)
    BY DEF IInv, TypeOK, Control, ManagerTypeOK, Threading, Snapshooting
  <1>1. CASE CreateSucceeds
    <2>0. PICK s \in Slots : s = frame.slot
      BY <1>0, <1>1 DEF CreateSucceeds, FramePlace
    <2>1. SameEntries
      BY <1>1, SectionEntries DEF CreateSucceeds, ReloadConfigure, ReloadAdd
    <2>2. thread' = [thread EXCEPT ![s] = [NoThread EXCEPT !.at = "begin"]]
      BY <1>1, <2>0 DEF CreateSucceeds
    <2>3. thread'[s].at = "begin" /\ \A t \in Slots : t # s => thread'[t] = thread[t]
      BY <1>0, <2>2 DEF NoThread
    <2>4. ASSUME NEW t \in Slots PROVE SnapshotOfEntry(t)'
      BY <1>0, <2>1, <2>3 DEF SameEntries, SnapshotOfEntry
    <2> QED BY <2>4 DEF Snapshooting
  <1>2. CASE Join
    <2>0. PICK s \in Slots : s = frame.slot
      BY <1>0, <1>2 DEF Join, FramePlace
    <2>1. SameEntries
      BY <1>2, SectionEntries DEF Join, ReloadConfigure, ReloadAdd
    <2>2. thread' = [thread EXCEPT ![s] = NoThread] /\ thread[s].at = "ended"
      BY <1>2, <2>0 DEF Join
    <2>3. thread'[s].at = "none" /\ \A t \in Slots : t # s => thread'[t] = thread[t]
      BY <1>0, <2>2 DEF NoThread
    <2>4. ASSUME NEW t \in Slots PROVE SnapshotOfEntry(t)'
      BY <1>0, <2>1, <2>2, <2>3 DEF SameEntries, SnapshotOfEntry
    <2> QED BY <2>4 DEF Snapshooting
  <1>3. CASE ReloadConfigure \/ ReloadAdd
    <2>1. /\ UNCHANGED thread
          /\ \/ frame.slot \in Slots /\ Removes
             \/ frame.slot \in Slots /\ \E ch \in Channels : Replaces(ch)
             \/ \E s \in Slots : Adds(s)
             \/ Skips
      BY <1>3, Configures
    <2>2. CASE frame.slot \in Slots /\ Removes
      <3>1. PICK s \in Slots : s = frame.slot
        BY <2>2
      <3>2. ~ entries'[s].occupied /\ \A t \in Slots : t # s => entries'[t] = entries[t]
        BY <1>0, <2>2, <3>1 DEF Removes, Entries
      <3>3. ASSUME NEW t \in Slots PROVE SnapshotOfEntry(t)'
        BY <1>0, <2>1, <3>2 DEF SnapshotOfEntry
      <3> QED BY <3>3 DEF Snapshooting
    <2>3. ASSUME NEW s \in Slots, NEW ch \in Channels,
                 entries' = [entries EXCEPT ![s] = configure_entry(@, ch, frame.candidate)]
          PROVE  Snapshooting'
      <3>1. /\ \A t \in Slots : t # s => entries'[t] = entries[t]
            /\ entries'[s].channel = ch
            /\ entries'[s].snapshot.id = ch.id
            /\ entries'[s].snapshot.generation = entries'[s].generation
            /\ entries'[s].snapshot.state = "STOPPED"
        BY <1>0, <2>3, ConfiguredEntries
      <3>2. SnapshotOfEntry(s)'
        BY <3>1 DEF SnapshotOfEntry
      <3>3. ASSUME NEW t \in Slots, t # s PROVE SnapshotOfEntry(t)'
        BY <1>0, <2>1, <3>1, <3>3 DEF SnapshotOfEntry
      <3> QED BY <3>2, <3>3 DEF Snapshooting
    <2>4. CASE frame.slot \in Slots /\ \E ch \in Channels : Replaces(ch)
      BY <2>3, <2>4 DEF Replaces
    <2>5. CASE \E s \in Slots : Adds(s)
      <3>1. PICK s \in Slots : Adds(s)
        BY <2>5
      <3>2. frame.candidate.channels[frame.next] \in Channels
        BY <1>0, <3>1, ChannelsType DEF Adds, Frames
      <3> QED BY <2>3, <3>1, <3>2 DEF Adds
    <2>6. CASE Skips
      BY <1>0, <2>1, <2>6 DEF Skips, Snapshooting, SnapshotOfEntry
    <2> QED BY <2>1, <2>2, <2>4, <2>5, <2>6
  <1>4. CASE ~ CreateSucceeds /\ ~ Join /\ ~ ReloadConfigure /\ ~ ReloadAdd
    <2>1. SameEntries /\ UNCHANGED thread
      BY <1>4, SectionEntries, SectionThreads
    <2> QED BY <1>0, <2>1 DEF SameEntries, Snapshooting, SnapshotOfEntry
  <1> QED BY <1>1, <1>2, <1>3, <1>4

\* A call that goes on keeps the count of threads exact.
LEMMA SectionCount ==
    ASSUME IInv, Section
    PROVE  ActiveThreadsExact'
  <1>0. /\ ManagerTypeOK /\ FramePlace /\ frame \in Frames /\ Threading /\ manager \in Managers
        /\ manager.active_threads \in Nat
        /\ manager.active_threads = Cardinality(AliveThreads)
                                      + (IF frame.at = "create" THEN 1 ELSE 0)
    BY DEF IInv, TypeOK, Control, ManagerTypeOK, ActiveThreadsExact, AliveThreads, Managers
  <1>1. Cardinality(AliveThreads) \in Nat
    BY AliveCounted
  <1>2. SUFFICES manager'.active_threads = Cardinality(AliveThreads)'
                                      + (IF frame'.at = "create" THEN 1 ELSE 0)
    BY DEF ActiveThreadsExact, AliveThreads
  <1>3. thread' \in [Slots -> Threads]
    BY SectionType DEF ManagerTypeOK
  <1>4. CASE CreateSucceeds
    <2>0. PICK s \in Slots : s = frame.slot
      BY <1>0, <1>4 DEF CreateSucceeds, FramePlace
    <2>1. /\ thread' = [thread EXCEPT ![s] = [NoThread EXCEPT !.at = "begin"]]
          /\ thread[s].at = "none" /\ frame.at = "create" /\ UNCHANGED manager
      BY <1>0, <1>4, <2>0 DEF CreateSucceeds, Threading
    <2>2. thread'[s].at = "begin" /\ \A t \in Slots : t # s => thread'[t] = thread[t]
      BY <1>0, <2>1 DEF NoThread, ManagerTypeOK
    <2>3. thread'[s].at \in Alive /\ thread[s].at \notin Alive
      BY <2>1, <2>2 DEF Alive, ThreadStates
    <2>4. Cardinality(AliveThreads)' = Cardinality(AliveThreads) + 1
      BY <1>0, <1>1, <1>3, <2>2, <2>3, AliveSteps
    <2>5. frame'.at # "create"
      BY <1>0, <1>4, AfterCreateFacts DEF CreateSucceeds
    <2> QED BY <1>0, <1>1, <2>1, <2>4, <2>5
  <1>5. CASE Join
    <2>0. PICK s \in Slots : s = frame.slot
      BY <1>0, <1>5 DEF Join, FramePlace
    <2>1. /\ thread' = [thread EXCEPT ![s] = NoThread]
          /\ thread[s].at = "ended" /\ frame.at = "join" /\ UNCHANGED manager
      BY <1>0, <1>5, <2>0 DEF Join
    <2>2. thread'[s].at = "none" /\ \A t \in Slots : t # s => thread'[t] = thread[t]
      BY <1>0, <2>1 DEF NoThread, ManagerTypeOK
    <2>3. thread'[s].at \notin Alive /\ thread[s].at \notin Alive
      BY <2>1, <2>2 DEF Alive, ThreadStates
    <2>4. Cardinality(AliveThreads)' = Cardinality(AliveThreads)
      BY <1>0, <1>1, <1>3, <2>2, <2>3, AliveSteps
    <2>5. frame'.at # "create"
      BY <1>0, <1>5, AfterJoinFacts DEF Join, Frames, Calls
    <2> QED BY <1>0, <1>1, <2>1, <2>4, <2>5
  <1>6. CASE ~ CreateSucceeds /\ ~ Join
    <2>1. Cardinality(AliveThreads)' = Cardinality(AliveThreads)
      <3>1. UNCHANGED thread
        BY <1>6, SectionThreads
      <3> QED BY <3>1 DEF AliveThreads
    <2>2. CASE PrepareEntry
      <3>1. /\ manager'.active_threads = manager.active_threads + 1
            /\ frame.at = "prepare" /\ frame'.at = "create"
        BY <1>0, <2>2 DEF PrepareEntry, GoOn, Frames, Managers
      <3> QED BY <1>0, <1>1, <2>1, <3>1
    <2>3. CASE CreateFails
      <3> DEFINE f == [frame EXCEPT !.status = "IO"]
      <3>1. /\ manager'.active_threads = manager.active_threads - 1
            /\ frame.at = "create" /\ f \in Frames /\ frame' = AfterCreate(f)
        BY <1>0, <2>3 DEF CreateFails, Frames, Managers, Statuses
      <3> HIDE DEF f
      <3>2. frame'.at # "create"
        BY <3>1, AfterCreateFacts
      <3> QED BY <1>0, <1>1, <2>1, <3>1, <3>2
    <2>4. ASSUME frame.at # "create", frame'.at # "create",
                 manager'.active_threads = manager.active_threads
          PROVE  manager'.active_threads = Cardinality(AliveThreads)'
                                      + (IF frame'.at = "create" THEN 1 ELSE 0)
      BY <1>0, <1>1, <2>1, <2>4
    <2>5. CASE AbortSlot
      <3>1. CASE LoopDone
        BY <1>0, <2>4, <2>5, <3>1 DEF AbortSlot, GoOn, Frames
      <3>2. CASE ~ LoopDone
        <4>1. frame.at = "slot" /\ frame'.at \in {"join", "slot"}
          BY <1>0, <2>5, <3>2, AbortSlotFacts
        <4> QED BY <2>4, <2>5, <4>1 DEF AbortSlot
      <3> QED BY <3>1, <3>2
    <2>6. CASE ReloadSlot
      <3>1. CASE LoopDone \/ ~ Here.occupied \/ Unchanged(Here, frame.candidate)
        BY <1>0, <2>4, <2>6, <3>1 DEF ReloadSlot, NextSlot, Frames
      <3>2. CASE ~ (LoopDone \/ ~ Here.occupied \/ Unchanged(Here, frame.candidate))
        <4>1. [frame EXCEPT !.at = "configure"] \in Frames
          BY <1>0 DEF Frames, Places
        <4>2. frame.slot \in Slots /\ StopEntry(frame.slot, [frame EXCEPT !.at = "configure"])
          BY <1>0, <2>6, <3>2, ManagerAssumption DEF ReloadSlot, FramePlace, LoopDone, Slots
        <4>3. frame'.at \in {"join", "configure"}
          BY <1>0, <4>1, <4>2, StopEntryFacts DEF Frames
        <4> QED BY <2>4, <2>6, <4>3 DEF ReloadSlot
      <3> QED BY <3>1, <3>2
    <2>7. CASE ReloadConfigure \/ ReloadAdd
      <3>1. /\ UNCHANGED manager
            /\ Removes \/ (\E ch \in Channels : Replaces(ch)) \/ (\E s \in Slots : Adds(s))
               \/ Skips
        BY <2>7, Configures
      <3>2. frame.at \in {"configure", "add"} /\ frame'.at # "create"
        <4>1. CASE Removes
          BY <1>0, <4>1 DEF Removes, NextSlot, Frames
        <4>2. CASE \E ch \in Channels : Replaces(ch)
          BY <1>0, <4>2 DEF Replaces, Frames
        <4>3. CASE \E s \in Slots : Adds(s)
          BY <1>0, <4>3 DEF Adds, Frames
        <4>4. CASE Skips
          BY <1>0, <4>4 DEF Skips, Frames
        <4> QED BY <3>1, <4>1, <4>2, <4>3, <4>4
      <3> QED BY <2>4, <3>1, <3>2
    <2>8. CASE Leave \/ StartSlot \/ CheckChannel
      <3>1. CASE Leave
        BY <2>4, <3>1 DEF Leave, NoFrame
      <3>2. CASE StartSlot
        BY <1>0, <2>4, <3>2 DEF StartSlot, NextSlot, Frames
      <3>3. CASE CheckChannel
        BY <1>0, <2>4, <3>3 DEF CheckChannel, Frames
      <3> QED BY <2>8, <3>1, <3>2, <3>3
    <2>9. CASE StartSampler \/ ReloadCommit
      BY <1>0, <2>4, <2>9 DEF StartSampler, ReloadCommit, GoOn, Frames, Managers
    <2>10. CASE WaitSlot \/ WaitCollect \/ WaitSampler
      BY <1>0, <2>4, <2>10 DEF WaitSlot, WaitCollect, WaitSampler, GoOn, NextSlot, Frames, Managers
    <2> QED BY <1>6, <2>2, <2>3, <2>5, <2>6, <2>7, <2>8, <2>9, <2>10 DEF Section
  <1> QED BY <1>4, <1>5, <1>6

\* Who holds the mutex, and where its caller is meanwhile.
LEMMA SectionHolder ==
    ASSUME IInv, Section
    PROVE  /\ \/ lock = "main" /\ pc = "booting" /\ frame.call \in {"start", "abort"}
              \/ lock = "main" /\ pc = "reloading" /\ frame.call = "reload"
              \/ lock = "main" /\ pc \in {"waiting", "rewaiting"} /\ frame.call = "wait"
              \/ /\ lock = "http" /\ pc \in {"loop", "act", "reload", "reloading", "shutdown"}
                 /\ frame.call \in {"start_channel", "stop_channel", "restart_channel"}
           /\ lock' = lock \/ Leave
  <1>0. /\ FramePlace /\ Holder /\ HttpThere /\ lock \in {"main", "http", "free"}
        /\ pc \in {"boot", "booting", "serve", "loop", "act", "reload", "reloading",
               "shutdown", "wait", "waiting", "destroy", "rewait", "rewaiting", "exited"}
    BY DEF IInv, TypeOK, Control, ManagerTypeOK, GatewayTypeOK, Clients
  <1>1. frame.at # "none"
    <2>1. CASE PrepareEntry \/ CreateSucceeds \/ CreateFails \/ Join \/ Leave \/ CheckChannel
               \/ WaitCollect
      BY <2>1 DEF PrepareEntry, CreateSucceeds, CreateFails, Join, Leave, CheckChannel, WaitCollect
    <2>2. CASE StartSlot \/ StartSampler \/ AbortSlot \/ WaitSlot \/ WaitSampler
      BY <2>2 DEF StartSlot, StartSampler, AbortSlot, WaitSlot, WaitSampler
    <2>3. CASE ReloadSlot \/ ReloadConfigure \/ ReloadAdd \/ ReloadCommit
      BY <2>3 DEF ReloadSlot, ReloadConfigure, ReloadAdd, ReloadCommit
    <2> QED BY <2>1, <2>2, <2>3 DEF Section
  <1>2. frame.call # "none"
    BY <1>0, <1>1 DEF FramePlace
  <1>3. lock' = lock \/ Leave
    BY DEF Section, PrepareEntry, CreateSucceeds, CreateFails, Join, CheckChannel, WaitCollect,
           StartSlot, StartSampler, AbortSlot, WaitSlot, WaitSampler, ReloadSlot,
           ReloadConfigure, ReloadAdd, ReloadCommit, Stay
  <1>4. CASE lock = "http"
    BY <1>0, <1>3, <1>4 DEF Holder, HttpThere
  <1>5. CASE lock = "main"
    BY <1>0, <1>3, <1>5 DEF Holder
  <1>6. lock # "free"
    BY <1>0, <1>2 DEF Holder
  <1> QED BY <1>0, <1>4, <1>5, <1>6

\* A call that goes on keeps what is known of the threads that are gone.
LEMMA SectionLifetime ==
    ASSUME IInv, Section, UNCHANGED gatewayVars
    PROVE  Lifetime'
  <1>0. /\ ManagerTypeOK /\ FramePlace /\ frame \in Frames /\ Threading /\ manager \in Managers
        /\ thread \in [Slots -> Threads] /\ Starting /\ Stopping /\ MainKnows
        /\ frame.slot \in Nat /\ frame.slot + 1 \in Nat
        /\ lock \in Clients \cup {"free"} /\ reply \in [Clients -> Statuses]
    BY DEF IInv, TypeOK, Control, ManagerTypeOK, Lifetime, Frames
  <1>0a. UNCHANGED <<pc, http>> /\ Holder' /\ Holder
    BY SectionControl DEF gatewayVars, Control, IInv
  <1>1. CASE Leave
    <2>1. /\ frame.at = "leave" /\ frame' = NoFrame(manager.config)
          /\ reply' = [reply EXCEPT ![lock] = frame.status]
          /\ UNCHANGED <<thread, manager, sampler>>
      BY <1>1 DEF Leave
    <2>2. Starting' /\ Stopping'
      BY <2>1 DEF Starting, Stopping, NoFrame
    <2>3. AllJoined' = AllJoined
      BY <2>1 DEF AllJoined
    <2>4. CASE lock = "main" /\ pc = "booting" /\ frame.call \in {"start", "abort"}
      <3>1. reply'["main"] = frame.status
        BY <1>0, <2>1, <2>4 DEF Clients
      <3>2. ASSUME frame.call = "start" PROVE MainKnows'
        BY <1>0, <1>0a, <2>1, <2>4, <3>1, <3>2 DEF Starting, MainKnows
      <3>3. ASSUME frame.call = "abort" PROVE MainKnows'
        <4>1. Quiet' /\ frame.status = "IO"
          BY <1>0, <2>1, <2>3, <3>3 DEF Stopping, Quiet
        <4> QED BY <1>0a, <2>4, <3>1, <4>1 DEF MainKnows
      <3>4. MainKnows'
        BY <2>4, <3>2, <3>3
      <3> QED BY <2>2, <3>4 DEF Lifetime
    <2>5. CASE lock = "main" /\ pc \in {"waiting", "rewaiting"} /\ frame.call = "wait"
      <3>1. Quiet'
        BY <1>0, <2>1, <2>3, <2>5 DEF Stopping, Quiet
      <3>2. MainKnows'
        BY <1>0, <1>0a, <2>1, <2>5, <3>1 DEF MainKnows
      <3> QED BY <2>2, <3>2 DEF Lifetime
    <2>6. CASE pc \in {"loop", "act", "reload", "reloading", "shutdown"}
      BY <1>0, <1>0a, <2>1, <2>2, <2>6 DEF MainKnows, Lifetime
    <2> QED BY <2>4, <2>5, <2>6, SectionHolder
  <1>2. CASE ~ Leave /\ frame.call \notin {"start", "abort", "wait"}
    <2>1. /\ pc \in {"loop", "act", "reload", "reloading", "shutdown"} /\ lock' = lock
          /\ lock = "main" => pc = "reloading"
          /\ lock \in {"main", "http"}
      BY <1>2, SectionHolder
    <2>2. frame'.call \notin {"start", "abort", "wait"}
      BY <1>0a, <2>1 DEF Holder
    <2>3. manager'.started = manager.started
      BY <1>0, <1>2 DEF Section, PrepareEntry, CreateSucceeds, CreateFails, Join, CheckChannel,
           WaitCollect, StartSlot, StartSampler, AbortSlot, WaitSlot, WaitSampler, ReloadSlot,
           ReloadConfigure, ReloadAdd, ReloadCommit, Managers
    <2> QED BY <1>0, <1>0a, <2>1, <2>2, <2>3 DEF Lifetime, Starting, Stopping, MainKnows
  <1>3. CASE ~ Leave /\ frame.call = "start"
    <2>1. pc = "booting" /\ lock = "main" /\ UNCHANGED lock
      BY <1>3, SectionHolder
    <2>2. MainKnows'
      BY <1>0a, <2>1 DEF MainKnows
    <2>3. CASE PrepareEntry
      <3>1. /\ frame'.call = "start" /\ frame'.status = frame.status /\ frame'.at = "create"
            /\ frame'.slot = frame.slot /\ frame.at = "prepare"
            /\ manager'.started = manager.started /\ UNCHANGED <<thread, sampler>>
        BY <1>0, <1>3, <2>3 DEF PrepareEntry, GoOn, Frames, Managers
      <3> QED BY <1>0, <1>3, <2>2, <3>1 DEF Lifetime, Starting, Stopping
    <2>4. CASE CreateSucceeds
      <3>1. frame.slot \in Slots /\ frame.at = "create" /\ frame.status = "OK"
        BY <1>0, <1>3, <2>4 DEF CreateSucceeds, FramePlace, Starting
      <3>2. /\ frame'.call = "start" /\ frame'.status = "OK" /\ frame'.at = "slot"
            /\ frame'.slot = frame.slot + 1 /\ UNCHANGED <<manager, sampler>>
        BY <1>0, <1>3, <2>4, <3>1, AfterCreateFacts DEF CreateSucceeds
      <3>3. \A s \in Slots : s >= frame'.slot => thread'[s].at = "none"
        BY <1>0, <1>3, <2>4, <3>1, <3>2 DEF CreateSucceeds, Starting, Slots
      <3> QED BY <1>0, <1>3, <2>2, <3>1, <3>2, <3>3 DEF Lifetime, Starting, Stopping
    <2>5. CASE CreateFails
      <3> DEFINE f == [frame EXCEPT !.status = "IO"]
      <3>1. f \in Frames /\ f.call = "start" /\ f.status = "IO"
        BY <1>0, <1>3 DEF Frames, Statuses
      <3>2. frame' = AfterCreate(f) /\ frame.at = "create" /\ UNCHANGED <<thread, sampler>>
        BY <2>5 DEF CreateFails
      <3> HIDE DEF f
      <3>3. /\ frame'.call = "abort" /\ frame'.at = "slot" /\ frame'.slot = 1
            /\ frame'.status = "IO"
        BY <3>1, <3>2, AfterCreateFacts
      <3> QED BY <1>0, <1>3, <2>2, <3>2, <3>3 DEF Lifetime, Starting, Stopping, Slots
    <2>6. CASE StartSlot
      <3>1. /\ frame'.call = "start" /\ frame'.status = frame.status /\ frame.at = "slot"
            /\ UNCHANGED <<thread, sampler, manager>>
            /\ \/ frame'.at = "sampler"
               \/ frame'.at = "prepare" /\ frame'.slot = frame.slot
               \/ frame'.at = "slot" /\ frame'.slot = frame.slot + 1
        BY <1>0, <1>3, <2>6 DEF StartSlot, NextSlot, Frames
      <3>2. frame'.at \in {"prepare", "slot"} =>
               \A s \in Slots : s >= frame'.slot => thread'[s].at = "none"
        BY <1>0, <1>3, <3>1 DEF Starting, Slots
      <3> QED BY <1>0, <1>3, <2>2, <3>1, <3>2 DEF Lifetime, Starting, Stopping
    <2>7. CASE StartSampler
      <3>1. sampler = "none" /\ frame.status = "OK" /\ manager.started /\ UNCHANGED thread
        BY <1>0, <1>3, <2>7 DEF StartSampler, Starting
      <3>2. \/ /\ frame'.call = "start" /\ frame'.at = "leave" /\ frame'.status = "OK"
               /\ UNCHANGED manager
            \/ /\ frame'.call = "abort" /\ frame'.at = "slot" /\ frame'.slot = 1
               /\ frame'.status = "IO" /\ UNCHANGED sampler
        BY <1>0, <1>3, <2>7, <3>1 DEF StartSampler, GoOn, Frames
      <3> QED BY <2>2, <3>1, <3>2 DEF Lifetime, Starting, Stopping, Slots
    <2>8. \/ PrepareEntry \/ CreateSucceeds \/ CreateFails \/ StartSlot \/ StartSampler
      BY <1>0, <1>3 DEF FramePlace, Section, Join, CheckChannel, WaitCollect, AbortSlot,
                        WaitSlot, WaitSampler, ReloadSlot, ReloadConfigure, ReloadAdd, ReloadCommit
    <2> QED BY <2>3, <2>4, <2>5, <2>6, <2>7, <2>8
  <1>4. CASE ~ Leave /\ frame.call = "abort"
    <2>1. pc = "booting" /\ lock = "main" /\ UNCHANGED lock
      BY <1>4, SectionHolder
    <2>2. MainKnows'
      BY <1>0a, <2>1 DEF MainKnows
    <2>3. sampler = "none" /\ frame.status = "IO"
      BY <1>0, <1>4 DEF Stopping
    <2>4. CASE AbortSlot
      <3>1. CASE LoopDone
        <4>1. /\ frame'.call = "abort" /\ frame'.at = "leave" /\ frame'.status = "IO"
              /\ UNCHANGED <<thread, sampler>> /\ frame.at = "slot"
          BY <1>0, <2>3, <2>4, <3>1 DEF AbortSlot, GoOn, Frames
        <4>2. AllJoined
          BY <1>0, <1>4, <3>1, <4>1, ManagerAssumption DEF LoopDone, AllJoined, Stopping, Slots
        <4>3. AllJoined'
          BY <4>1, <4>2 DEF AllJoined
        <4> QED BY <2>2, <2>3, <4>1, <4>3 DEF Lifetime, Starting, Stopping
      <3>2. CASE ~ LoopDone
        <4>1. /\ frame.slot \in Slots /\ frame.at = "slot"
              /\ frame'.call = "abort" /\ frame'.status = "IO"
              /\ \/ frame'.at = "join" /\ frame'.slot = frame.slot
                 \/ /\ frame'.at = "slot" /\ frame'.slot = frame.slot + 1
                    /\ ~ entries[frame.slot].thread_started
              /\ UNCHANGED <<thread, sampler>>
          BY <1>0, <2>3, <2>4, <3>2, AbortSlotFacts DEF AbortSlot
        <4>2. ~ entries[frame.slot].thread_started => thread[frame.slot].at = "none"
          BY <4>1 DEF IInv, Threading, ThreadOfEntry
        <4>3. \A s \in Slots : s < frame'.slot => thread[s].at = "none"
          BY <1>0, <1>4, <4>1, <4>2 DEF Stopping, Slots
        <4> QED BY <2>2, <2>3, <4>1, <4>3 DEF Lifetime, Starting, Stopping
      <3> QED BY <3>1, <3>2
    <2>5. CASE Join
      <3>1. /\ frame.slot \in Slots /\ frame.at = "join" /\ frame' = AfterJoin(frame)
            /\ thread' = [thread EXCEPT ![frame.slot] = NoThread] /\ UNCHANGED sampler
        BY <1>0, <2>5 DEF Join, FramePlace
      <3>2. /\ frame'.call = "abort" /\ frame'.at = "slot" /\ frame'.slot = frame.slot + 1
            /\ frame'.status = "IO"
        BY <1>0, <1>4, <2>3, <3>1, AfterJoinFacts
      <3>3. \A s \in Slots : s < frame'.slot => thread'[s].at = "none"
        BY <1>0, <1>4, <3>1, <3>2 DEF Stopping, NoThread, Slots
      <3> QED BY <2>2, <2>3, <3>1, <3>2, <3>3 DEF Lifetime, Starting, Stopping
    <2>6. AbortSlot \/ Join
      BY <1>0, <1>4 DEF FramePlace, Section, PrepareEntry, CreateSucceeds, CreateFails,
                        StartSlot, StartSampler, CheckChannel, WaitCollect,
                        WaitSlot, WaitSampler, ReloadSlot, ReloadConfigure, ReloadAdd, ReloadCommit
    <2> QED BY <2>4, <2>5, <2>6
  <1>5. CASE ~ Leave /\ frame.call = "wait"
    <2>1. pc \in {"waiting", "rewaiting"} /\ lock = "main" /\ UNCHANGED lock
      BY <1>5, SectionHolder
    <2>2. ASSUME manager'.started = manager.started, Quiet => Quiet'
          PROVE  MainKnows'
      BY <1>0, <1>0a, <2>1, <2>2 DEF MainKnows
    <2>3. CASE WaitSlot
      <3>1. /\ frame'.call = "wait" /\ frame'.slot = frame.slot /\ frame.at = "slot"
            /\ frame'.at = IF LoopDone THEN "sampler"
                           ELSE IF Here.occupied /\ Here.thread_started THEN "join" ELSE "collect"
            /\ UNCHANGED <<thread, sampler>> /\ manager'.started = manager.started
        BY <1>0, <1>5, <2>3 DEF WaitSlot, GoOn, Frames, Managers
      <3>2. AllJoined' = AllJoined
        BY <3>1 DEF AllJoined
      <3>3. MainKnows'
        BY <2>2, <3>1, <3>2 DEF Quiet
      <3>4. CASE LoopDone
        <4>1. AllJoined'
          BY <1>0, <1>5, <3>1, <3>2, <3>4, ManagerAssumption
          DEF LoopDone, AllJoined, Stopping, Slots
        <4> QED BY <3>1, <3>3, <3>4, <4>1 DEF Lifetime, Starting, Stopping
      <3>5. CASE ~ LoopDone /\ Here.occupied /\ Here.thread_started
        BY <1>0, <1>5, <3>1, <3>3, <3>5 DEF Lifetime, Starting, Stopping
      <3>6. CASE ~ LoopDone /\ ~ (Here.occupied /\ Here.thread_started)
        <4>1. frame.slot \in Slots
          BY <1>0, <3>1, <3>6, ManagerAssumption DEF FramePlace, LoopDone, Slots
        <4>2. thread[frame.slot].at = "none"
          BY <1>0, <3>6, <4>1 DEF Here, Threading, ThreadOfEntry
        <4>3. \A s \in Slots : s <= frame.slot => thread[s].at = "none"
          BY <1>0, <1>5, <3>1, <4>2 DEF Stopping, Slots
        <4> QED BY <3>1, <3>3, <3>6, <4>3 DEF Lifetime, Starting, Stopping
      <3> QED BY <3>4, <3>5, <3>6
    <2>4. CASE Join
      <3>1. /\ frame.slot \in Slots /\ frame.at = "join" /\ frame' = AfterJoin(frame)
            /\ thread[frame.slot].at = "ended"
            /\ thread' = [thread EXCEPT ![frame.slot] = NoThread] /\ UNCHANGED <<sampler, manager>>
        BY <1>0, <2>4 DEF Join, FramePlace
      <3>2. frame'.call = "wait" /\ frame'.at = "collect" /\ frame'.slot = frame.slot
        BY <1>0, <1>5, <3>1, AfterJoinFacts
      <3>3. \A s \in Slots : s <= frame.slot => thread'[s].at = "none"
        BY <1>0, <1>5, <3>1 DEF Stopping, NoThread, Slots
      <3>4. MainKnows'
        BY <2>2, <3>1 DEF Quiet, AllJoined
      <3> QED BY <3>2, <3>3, <3>4 DEF Lifetime, Starting, Stopping
    <2>5. CASE WaitCollect
      <3>1. /\ frame'.call = "wait" /\ frame'.at = "slot" /\ frame'.slot = frame.slot + 1
            /\ frame.at = "collect"
            /\ manager'.started = manager.started /\ UNCHANGED <<thread, sampler>>
        BY <1>0, <1>5, <2>5 DEF WaitCollect, NextSlot, Frames, Managers
      <3>2. \A s \in Slots : s < frame'.slot => thread'[s].at = "none"
        BY <1>0, <1>5, <3>1 DEF Stopping, Slots
      <3>3. MainKnows'
        BY <2>2, <3>1 DEF Quiet, AllJoined
      <3> QED BY <3>1, <3>2, <3>3 DEF Lifetime, Starting, Stopping
    <2>6. CASE WaitSampler
      <3>1. /\ frame'.call = "wait" /\ frame'.at = "leave" /\ frame.at = "sampler"
            /\ sampler' = "none" /\ UNCHANGED <<thread, manager>>
        BY <1>0, <1>5, <2>6 DEF WaitSampler, GoOn, Frames
      <3>2. AllJoined'
        BY <1>0, <1>5, <3>1 DEF Stopping, AllJoined
      <3>3. MainKnows'
        BY <2>2, <3>1, <3>2 DEF Quiet
      <3> QED BY <3>1, <3>2, <3>3 DEF Lifetime, Starting, Stopping
    <2>7. WaitSlot \/ Join \/ WaitCollect \/ WaitSampler
      BY <1>0, <1>5 DEF FramePlace, Section, PrepareEntry, CreateSucceeds, CreateFails,
                        StartSlot, StartSampler, CheckChannel, AbortSlot,
                        ReloadSlot, ReloadConfigure, ReloadAdd, ReloadCommit
    <2> QED BY <2>3, <2>4, <2>5, <2>6, <2>7
  <1> QED BY <1>1, <1>2, <1>3, <1>4, <1>5

\* The table has an entry for every channel a valid configuration can enable.
LEMMA NeverOverflows ==
    ASSUME NEW table \in [Slots -> Entries], NEW config \in gw_config,
           Loaded(config), DistinctIds(table), FromConfig(table, config, Slots),
           NEW next \in 1 .. Len(config.channels),
           \A s \in Slots : table[s].occupied,
           \A s \in Slots : table[s].channel.id # config.channels[next].id
    PROVE  FALSE
  <1> DEFINE n == Len(config.channels)
             others == 1 .. n \ {next}
             Index(s) == CHOOSE i \in 1 .. n : config.channels[i] = table[s].channel
             index == [s \in Slots |-> Index(s)]
  <1>1. n \in 1 .. GW_MAX_CHANNELS /\ n \in Nat
    BY ManagerAssumption, ChannelsType DEF Loaded, parse_document
  <1>2. ASSUME NEW s \in Slots
        PROVE  Index(s) \in 1 .. n /\ config.channels[Index(s)] = table[s].channel
    <2>1. \E i \in 1 .. n : config.channels[i] = table[s].channel
      BY DEF FromConfig, EnabledChannels
    <2> QED BY <2>1
  <1>3. ASSUME NEW s \in Slots PROVE Index(s) \in others
    BY <1>2
  <1>4. ASSUME NEW s \in Slots, NEW t \in Slots, Index(s) = Index(t) PROVE s = t
    <2>1. table[s].channel = table[t].channel
      BY <1>2, <1>4
    <2> QED BY <2>1 DEF DistinctIds
  <1> HIDE DEF Index
  <1>5. index \in Injection(Slots, others)
    BY <1>3, <1>4 DEF Injection, IsInjective
  <1>6. IsFiniteSet(Slots) /\ Cardinality(Slots) = GW_MAX_CHANNELS
    BY ManagerAssumption, FS_Interval DEF Slots
  <1>6a. next \in 1 .. n
    OBVIOUS
  <1> HIDE DEF n
  <1>7. IsFiniteSet(1 .. n) /\ Cardinality(1 .. n) = n
    BY <1>1, FS_Interval
  <1>8. IsFiniteSet(others) /\ Cardinality(others) = n - 1
    BY <1>6a, <1>7, FS_RemoveElement
  <1>9. Cardinality(Slots) <= Cardinality(others)
    BY <1>5, <1>6, <1>8, FS_Injection
  <1> QED BY <1>1, <1>6, <1>8, <1>9, ManagerAssumption

\* A call that goes on keeps the entries those of the configuration in force, or,
\* in a reload, on their way to the candidate's.
LEMMA SectionConfiguration ==
    ASSUME IInv, Section, UNCHANGED gatewayVars
    PROVE  Configuration'
  <1> DEFINE globals == manager.config.globals
  <1>0. /\ ManagerTypeOK /\ FramePlace /\ frame \in Frames /\ Threading /\ manager \in Managers
        /\ entries \in [Slots -> Entries] /\ Configuration /\ DistinctIds(entries)
        /\ Loaded(manager.config) /\ frame.candidate \in gw_config
        /\ frame.slot \in Nat /\ frame.next \in Nat
    BY DEF IInv, TypeOK, Control, ManagerTypeOK, Configuration, Frames
  <1>0a. UNCHANGED <<pc, http>> /\ Holder' /\ Holder
    BY SectionControl DEF gatewayVars, Control, IInv
  <1>1. ~ ReloadCommit => manager'.config = manager.config
    BY <1>0 DEF Section, PrepareEntry, CreateSucceeds, CreateFails, Join, CheckChannel, Leave,
           WaitCollect, StartSlot, StartSampler, AbortSlot, WaitSlot, WaitSampler, ReloadSlot,
           ReloadConfigure, ReloadAdd, Managers
  <1>2. ASSUME ~ ReloadConfigure, ~ ReloadAdd
        PROVE  /\ DistinctIds(entries')
               /\ \A config : InForce(entries', config) = InForce(entries, config)
               /\ \A f, g : Reloading(entries', f, g) = Reloading(entries, f, g)
    <2>1. SameEntries
      BY <1>2, SectionEntries
    <2> QED BY <1>0, <2>1, SameChannels DEF SameEntries
  <1>3. CASE frame.call # "reload" \/ Leave
    <2>1. ~ ReloadConfigure /\ ~ ReloadAdd /\ ~ ReloadCommit
      BY <1>3 DEF ReloadConfigure, ReloadAdd, ReloadCommit, Leave
    <2>2. InForce(entries, manager.config)
      BY <1>0, <1>3 DEF Configuration, Leave
    <2>3. frame'.call # "reload"
      <3>1. CASE Leave
        BY <3>1 DEF Leave, NoFrame
      <3>2. CASE ~ Leave
        BY <1>0a, <1>3, <3>2, SectionHolder DEF Holder
      <3> QED BY <3>1, <3>2
    <2> QED BY <1>0, <1>1, <1>2, <2>1, <2>2, <2>3 DEF Configuration
  <1>4. CASE frame.call = "reload" /\ ReloadCommit
    <2>1. /\ frame.next > Len(frame.candidate.channels) /\ frame.at = "add"
          /\ manager'.config = frame.candidate /\ frame'.at = "leave"
          /\ frame'.candidate = frame.candidate
          /\ ~ ReloadConfigure /\ ~ ReloadAdd
      BY <1>0, <1>4, ChannelsType
      DEF ReloadCommit, ReloadConfigure, ReloadAdd, GoOn, Frames, Managers
    <2>2. SecondLoop(entries, frame) /\ Loaded(frame.candidate)
      BY <1>0, <1>4, <2>1 DEF Configuration, Reloading
    <2>3. InForce(entries, frame.candidate)
      BY <1>0, <2>1, <2>2, ChannelsType DEF InForce, SecondLoop, HaveEntries
    <2> QED BY <1>2, <2>1, <2>2, <2>3 DEF Configuration
  <1>5. CASE frame.call = "reload" /\ (ReloadConfigure \/ ReloadAdd)
    <2>0. /\ Reloading(entries, frame, globals) /\ Loaded(frame.candidate)
          /\ UNCHANGED manager
          /\ \/ frame.slot \in Slots /\ Removes
             \/ frame.slot \in Slots /\ \E ch \in Channels : Replaces(ch)
             \/ \E s \in Slots : Adds(s)
             \/ Skips
      BY <1>0, <1>5, Configures DEF Configuration, ReloadConfigure, ReloadAdd
    <2>1. SUFFICES /\ frame'.call = "reload" /\ frame'.at # "leave"
                   /\ frame'.candidate = frame.candidate
                   /\ DistinctIds(entries')
                   /\ Reloading(entries', frame', globals)
      BY <1>0, <2>0 DEF Configuration
    <2>2. CASE frame.slot \in Slots /\ Removes
      <3>1. /\ frame.at = "configure" /\ frame'.call = "reload" /\ frame'.at = "slot"
            /\ frame'.slot = frame.slot + 1
            /\ frame'.next = frame.next /\ frame'.candidate = frame.candidate
        BY <1>0, <1>5, <2>2 DEF Removes, NextSlot, Frames
      <3>2. /\ \A t \in Slots : t # frame.slot => entries'[t] = entries[t]
            /\ ~ entries'[frame.slot].occupied
        BY <1>0, <2>2 DEF Removes, Entries
      <3>3. frame.next = 0 /\ FirstLoop(entries, frame, globals)
        BY <2>0, <3>1 DEF Reloading
      <3>4. Behind(frame') = Behind(frame) \cup {frame.slot} /\ frame.slot \notin Behind(frame)
        BY <2>2, <3>1 DEF Behind, Slots
      <3>5. FirstLoop(entries', frame', globals)
        <4>1. Behind(frame) \subseteq Slots
          BY DEF Behind
        <4> QED BY <3>1, <3>2, <3>3, <3>4, <4>1 DEF FirstLoop, FromConfig
      <3>6. DistinctIds(entries')
        BY <1>0, <3>2 DEF DistinctIds
      <3> QED BY <3>1, <3>3, <3>5, <3>6 DEF Reloading
    <2>3. CASE frame.slot \in Slots /\ \E ch \in Channels : Replaces(ch)
      <3>0. PICK ch \in Channels : Replaces(ch)
        BY <2>3
      <3>1. /\ frame.at = "configure" /\ frame'.call = "reload" /\ frame'.at = "prepare"
            /\ frame'.slot = frame.slot /\ ch.id = entries[frame.slot].channel.id
            /\ frame'.next = frame.next /\ frame'.candidate = frame.candidate
            /\ ch \in EnabledChannels(frame.candidate) /\ entries[frame.slot].occupied
        BY <1>0, <1>5, <3>0 DEF Replaces, Here, Frames, Threading
      <3>2. /\ \A t \in Slots : t # frame.slot => entries'[t] = entries[t]
            /\ entries'[frame.slot].channel = ch
            /\ entries'[frame.slot].globals = frame.candidate.globals
        BY <1>0, <2>3, <3>0, ConfiguredEntries DEF Replaces
      <3>3. frame.next = 0 /\ FirstLoop(entries, frame, globals)
        BY <2>0, <3>1 DEF Reloading
      <3>4. Behind(frame') = Behind(frame) \cup {frame.slot} /\ frame.slot \notin Behind(frame)
        BY <2>3, <3>1 DEF Behind, Slots
      <3>5. FirstLoop(entries', frame', globals)
        <4>1. Behind(frame) \subseteq Slots
          BY DEF Behind
        <4> QED BY <3>1, <3>2, <3>3, <3>4, <4>1 DEF FirstLoop, FromConfig
      <3>6. DistinctIds(entries')
        BY <1>0, <2>3, <3>1, <3>2 DEF DistinctIds
      <3> QED BY <3>1, <3>3, <3>5, <3>6 DEF Reloading
    <2>4. CASE \E s \in Slots : Adds(s)
      <3>0. PICK s \in Slots : Adds(s)
        BY <2>4
      <3> DEFINE channel == frame.candidate.channels[frame.next]
      <3>1. /\ frame.at = "add" /\ frame'.call = "reload" /\ frame'.at = "prepare"
            /\ frame'.next = frame.next /\ frame'.candidate = frame.candidate
            /\ frame.next \in 1 .. Len(frame.candidate.channels) /\ channel.enabled
            /\ ~ entries[s].occupied /\ find_entry(channel.id) = {}
        BY <1>0, <1>5, <3>0 DEF Adds, Frames
      <3>2. channel \in Channels /\ channel \in EnabledChannels(frame.candidate)
        BY <1>0, <3>1, ChannelsType DEF EnabledChannels
      <3>3. /\ \A t \in Slots : t # s => entries'[t] = entries[t]
            /\ entries'[s].channel = channel /\ entries'[s].occupied
            /\ entries'[s].globals = frame.candidate.globals
        BY <1>0, <3>0, <3>2, ConfiguredEntries DEF Adds
      <3> HIDE DEF channel
      <3>4. SecondLoop(entries, frame) /\ frame.next # 0
        BY <2>0, <3>1 DEF Reloading
      <3>5. FromConfig(entries', frame.candidate, Slots)
        BY <3>2, <3>3, <3>4 DEF SecondLoop, FromConfig
      <3>6. HaveEntries(entries', frame.candidate, frame.next)
        <4>1. SUFFICES ASSUME NEW i \in 1 .. Len(frame.candidate.channels), i <= frame.next,
                              frame.candidate.channels[i].enabled
                       PROVE  \E t \in Slots :
                                 /\ entries'[t].occupied
                                 /\ entries'[t].channel.id = frame.candidate.channels[i].id
          BY DEF HaveEntries
        <4>2. CASE i = frame.next
          BY <3>3, <4>2 DEF channel
        <4>3. CASE i # frame.next
          <5>1. i <= frame.next - 1
            BY <1>0, <4>1, <4>3, ChannelsType
          <5>2. PICK t \in Slots : /\ entries[t].occupied
                                   /\ entries[t].channel.id = frame.candidate.channels[i].id
            BY <3>1, <3>4, <4>1, <5>1 DEF SecondLoop, HaveEntries
          <5> QED BY <3>1, <3>3, <5>2
        <4> QED BY <4>2, <4>3
      <3>7. DistinctIds(entries')
        <4>1. \A t \in Slots : entries[t].occupied => entries[t].channel.id # channel.id
          BY <3>1 DEF find_entry
        <4> QED BY <1>0, <3>3, <4>1 DEF DistinctIds
      <3> QED BY <3>1, <3>4, <3>5, <3>6, <3>7 DEF Reloading, SecondLoop
    <2>5. CASE Skips
      <3> DEFINE channel == frame.candidate.channels[frame.next]
      <3>1. /\ frame.at = "add" /\ frame.next \in 1 .. Len(frame.candidate.channels)
            /\ UNCHANGED entries
        BY <2>5 DEF Skips
      <3>2. SecondLoop(entries, frame) /\ frame.next # 0
        BY <2>0, <3>1 DEF Reloading
      <3>3. FreeEntries # {} \/ find_entry(channel.id) # {}
        <4>1. SUFFICES ASSUME FreeEntries = {}, find_entry(channel.id) = {} PROVE FALSE
          OBVIOUS
        <4>2. /\ \A s \in Slots : entries[s].occupied
              /\ \A s \in Slots : entries[s].channel.id # channel.id
          BY <4>1 DEF FreeEntries, find_entry
        <4> DEFINE table == entries
                   config == frame.candidate
                   next == frame.next
        <4>3. /\ table \in [Slots -> Entries] /\ config \in gw_config
              /\ Loaded(config) /\ DistinctIds(table)
              /\ FromConfig(table, config, Slots) /\ next \in 1 .. Len(config.channels)
              /\ \A s \in Slots : table[s].occupied
              /\ \A s \in Slots : table[s].channel.id # config.channels[next].id
          BY <1>0, <2>0, <3>1, <3>2, <4>2 DEF SecondLoop
        <4> HIDE DEF table, config, next
        <4> QED BY <4>3, NeverOverflows
      <3>4. /\ ~ channel.enabled \/ find_entry(channel.id) # {}
            /\ frame' = [frame EXCEPT !.next = @ + 1]
        BY <2>5, <3>3 DEF Skips
      <3>5. /\ frame'.call = "reload" /\ frame'.at = "add"
            /\ frame'.next = frame.next + 1 /\ frame'.candidate = frame.candidate
        BY <1>0, <1>5, <3>1, <3>4 DEF Frames
      <3>6. HaveEntries(entries, frame.candidate, frame.next)
        <4>1. SUFFICES ASSUME NEW i \in 1 .. Len(frame.candidate.channels), i <= frame.next,
                              frame.candidate.channels[i].enabled
                       PROVE  \E t \in Slots :
                                 /\ entries[t].occupied
                                 /\ entries[t].channel.id = frame.candidate.channels[i].id
          BY DEF HaveEntries
        <4>2. CASE i = frame.next
          BY <3>4, <4>1, <4>2 DEF find_entry
        <4>3. CASE i # frame.next
          <5>1. i <= frame.next - 1
            BY <1>0, <4>1, <4>3, ChannelsType
          <5> QED BY <3>1, <3>2, <4>1, <5>1 DEF SecondLoop, HaveEntries
        <4> QED BY <4>2, <4>3
      <3>7. frame'.next # 0 /\ frame'.next - 1 = frame.next
        BY <1>0, <3>5
      <3> QED BY <1>0, <3>1, <3>2, <3>5, <3>6, <3>7 DEF Reloading, SecondLoop
    <2> QED BY <2>0, <2>2, <2>3, <2>4, <2>5
  <1>6. CASE /\ frame.call = "reload" /\ ~ ReloadConfigure /\ ~ ReloadAdd /\ ~ ReloadCommit
             /\ ~ Leave
    <2>0. /\ Reloading(entries, frame, globals) /\ Loaded(frame.candidate)
          /\ PrepareEntry \/ CreateSucceeds \/ CreateFails \/ Join \/ ReloadSlot
      <3>1. PrepareEntry \/ CreateSucceeds \/ CreateFails \/ Join \/ ReloadSlot
        BY <1>0, <1>6 DEF FramePlace, Section, AbortSlot, StartSlot, StartSampler, CheckChannel,
                          WaitCollect, WaitSlot, WaitSampler
      <3>2. frame.at # "leave"
        BY <3>1 DEF PrepareEntry, CreateSucceeds, CreateFails, Join, ReloadSlot
      <3> QED BY <1>0, <1>6, <3>1, <3>2 DEF Configuration
    <2>1. SUFFICES /\ frame'.call = "reload" /\ frame'.at # "leave"
                   /\ frame'.candidate = frame.candidate
                   /\ Reloading(entries, frame', globals)
      BY <1>0, <1>1, <1>2, <1>6, <2>0 DEF Configuration
    <2>2. CASE PrepareEntry
      <3>1. /\ frame.at = "prepare" /\ frame'.at = "create" /\ frame'.call = frame.call
            /\ frame'.next = frame.next /\ frame'.slot = frame.slot
            /\ frame'.candidate = frame.candidate
        BY <1>0, <2>2 DEF PrepareEntry, GoOn, Frames
      <3>2. Behind(frame') = Behind(frame)
        BY <3>1 DEF Behind
      <3> QED BY <1>6, <2>0, <3>1, <3>2 DEF Reloading, FirstLoop, SecondLoop
    <2>3. CASE CreateSucceeds \/ CreateFails
      <3>1. PICK f \in Frames : /\ frame' = AfterCreate(f) /\ f.candidate = frame.candidate
                                /\ f.slot = frame.slot /\ f.next = frame.next
                                /\ f.call = "reload"
        <4>1. CASE CreateSucceeds
          BY <1>0, <1>6, <4>1 DEF CreateSucceeds
        <4>2. CASE CreateFails
          <5> DEFINE f == [frame EXCEPT !.status = "IO"]
          <5>1. /\ f \in Frames /\ f.candidate = frame.candidate /\ f.slot = frame.slot
                /\ f.next = frame.next /\ f.call = "reload"
            BY <1>0, <1>6 DEF Frames, Statuses
          <5>2. frame' = AfterCreate(f)
            BY <4>2 DEF CreateFails
          <5> HIDE DEF f
          <5> QED BY <5>1, <5>2
        <4> QED BY <2>3, <4>1, <4>2
      <3>2. frame.at = "create" /\ frame.slot \in Slots
        BY <1>0, <2>3 DEF CreateSucceeds, CreateFails, FramePlace
      <3>3. CASE frame.next = 0
        <4>1. /\ frame'.call = "reload" /\ frame'.at = "slot" /\ frame'.slot = frame.slot + 1
              /\ frame'.next = 0 /\ frame'.candidate = frame.candidate
          BY <3>1, <3>3, AfterCreateFacts
        <4>2. Behind(frame') = Behind(frame)
          BY <3>2, <4>1 DEF Behind, Slots
        <4> QED BY <2>0, <3>3, <4>1, <4>2 DEF Reloading, FirstLoop
      <3>4. CASE frame.next # 0
        <4>1. /\ frame'.call = "reload" /\ frame'.at = "add"
              /\ frame'.next = frame.next + 1 /\ frame'.candidate = frame.candidate
          BY <3>1, <3>4, AfterCreateFacts
        <4>2. frame'.next # 0 /\ frame'.next - 1 = frame.next
          BY <1>0, <4>1
        <4> QED BY <2>0, <3>2, <3>4, <4>1, <4>2 DEF Reloading, SecondLoop
      <3> QED BY <3>3, <3>4
    <2>4. CASE Join
      <3>1. frame.at = "join" /\ frame' = AfterJoin(frame)
        BY <2>4 DEF Join
      <3>2. /\ frame'.at = "configure" /\ frame'.call = frame.call
            /\ frame'.next = frame.next /\ frame'.slot = frame.slot
            /\ frame'.candidate = frame.candidate
        BY <1>0, <1>6, <3>1, AfterJoinFacts
      <3>3. Behind(frame') = Behind(frame)
        BY <3>1, <3>2 DEF Behind
      <3> QED BY <1>6, <2>0, <3>1, <3>2, <3>3 DEF Reloading, FirstLoop
    <2>5. CASE ReloadSlot
      <3>0. frame.at = "slot" /\ frame.next = 0 /\ FirstLoop(entries, frame, globals)
        BY <2>0, <2>5 DEF ReloadSlot, Reloading
      <3>1. CASE LoopDone
        <4>1. /\ frame'.call = "reload" /\ frame'.at = "add" /\ frame'.next = 1
              /\ frame'.candidate = frame.candidate
          BY <1>0, <2>5, <3>1 DEF ReloadSlot, Frames
        <4>2. Behind(frame) = Slots
          BY <1>0, <3>1, ManagerAssumption DEF Behind, Slots, LoopDone
        <4>3. SecondLoop(entries, frame')
          BY <3>0, <4>1, <4>2 DEF FirstLoop, SecondLoop, HaveEntries
        <4> QED BY <4>1, <4>3 DEF Reloading
      <3>2. CASE ~ LoopDone /\ (~ Here.occupied \/ Unchanged(Here, frame.candidate))
        <4>1. /\ frame'.call = "reload" /\ frame'.at = "slot" /\ frame'.slot = frame.slot + 1
              /\ frame'.next = 0 /\ frame'.candidate = frame.candidate
          BY <1>0, <1>6, <2>5, <3>0, <3>2 DEF ReloadSlot, NextSlot, Frames
        <4>2. frame.slot \in Slots
          BY <1>0, <3>0, <3>2, ManagerAssumption DEF FramePlace, LoopDone, Slots
        <4>3. Behind(frame') = Behind(frame) \cup {frame.slot} /\ frame.slot \notin Behind(frame)
          BY <3>0, <4>1, <4>2 DEF Behind, Slots
        <4>4. entries[frame.slot].occupied =>
                 /\ entries[frame.slot].channel \in EnabledChannels(frame.candidate)
                 /\ entries[frame.slot].globals = frame.candidate.globals
          BY <3>0, <3>2, <4>2, <4>3 DEF Here, Unchanged, FirstLoop
        <4>5. FirstLoop(entries, frame', globals)
          BY <3>0, <4>1, <4>3, <4>4 DEF FirstLoop, FromConfig
        <4> QED BY <4>1, <4>5 DEF Reloading
      <3>3. CASE ~ LoopDone /\ ~ (~ Here.occupied \/ Unchanged(Here, frame.candidate))
        <4>1. [frame EXCEPT !.at = "configure"] \in Frames
          BY <1>0 DEF Frames, Places
        <4>2. frame.slot \in Slots /\ StopEntry(frame.slot, [frame EXCEPT !.at = "configure"])
          BY <1>0, <2>5, <3>3, ManagerAssumption DEF ReloadSlot, FramePlace, LoopDone, Slots
        <4>3. /\ frame'.call = "reload" /\ frame'.slot = frame.slot /\ frame'.next = 0
              /\ frame'.at \in {"join", "configure"} /\ frame'.candidate = frame.candidate
          BY <1>0, <1>6, <3>0, <4>1, <4>2, StopEntryFacts DEF Frames
        <4>4. Behind(frame') = Behind(frame)
          BY <3>0, <4>3 DEF Behind
        <4> QED BY <3>0, <4>3, <4>4 DEF Reloading, FirstLoop
      <3> QED BY <3>1, <3>2, <3>3
    <2> QED BY <2>0, <2>2, <2>3, <2>4, <2>5
  <1> QED BY <1>3, <1>4, <1>5, <1>6

\* A call that goes on keeps the invariant.
LEMMA SectionKeeps ==
    ASSUME IInv, Section, UNCHANGED gatewayVars
    PROVE  IInv'
  <1>1. TypeOK'
    BY SectionType DEF IInv, TypeOK, GatewayTypeOK, gatewayVars
  <1> QED BY <1>1, SectionControl, SectionThreading, SectionSnapshooting, SectionLifetime,
             SectionCount, SectionConfiguration DEF IInv

-----------------------------------------------------------------------------
(* The main thread, the HTTP thread and the signals.                       *)

\* What a caller does to the manager outside the mutex, or when it takes it.
LEMMA CallerKeeps ==
    ASSUME IInv, TypeOK', Control', Lifetime', UNCHANGED thread, SameEntries,
           \A t \in Slots : entries'[t].thread_started = entries[t].thread_started,
           manager'.config = manager.config,
           manager'.active_threads = manager.active_threads,
           \/ frame' = frame
           \/ /\ frame.call = "none" /\ frame'.at # "create"
              /\ frame'.at \in {"configure", "prepare"} => thread[frame'.slot].at = "none"
              /\ frame'.at \in {"configure", "prepare", "check"} => entries[frame'.slot].occupied
              /\ frame'.call = "reload" =>
                    /\ frame'.at = "slot" /\ frame'.slot = 1 /\ frame'.next = 0
                    /\ Loaded(frame'.candidate)
    PROVE  IInv'
  <1>0. /\ FramePlace /\ FramePlace' /\ Threading /\ Snapshooting /\ Configuration
        /\ frame \in Frames /\ frame' \in Frames
    BY DEF IInv, Control, TypeOK, ManagerTypeOK
  <1>1. \A t \in Slots : ThreadOfEntry(t)'
    BY <1>0 DEF SameEntries, Threading, ThreadOfEntry
  <1>2. Threading'
    BY <1>0, <1>1 DEF SameEntries, Threading, FramePlace
  <1>3. Snapshooting'
    BY <1>0 DEF SameEntries, Snapshooting, SnapshotOfEntry
  <1>4. ActiveThreadsExact'
    <2>1. (frame'.at = "create") <=> (frame.at = "create")
      BY <1>0 DEF FramePlace
    <2> QED BY <2>1 DEF IInv, ActiveThreadsExact
  <1>5. Configuration'
    <2>1. /\ DistinctIds(entries') = DistinctIds(entries)
          /\ \A config : InForce(entries', config) = InForce(entries, config)
          /\ \A f, g : Reloading(entries', f, g) = Reloading(entries, f, g)
      BY SameChannels DEF SameEntries
    <2>2. CASE frame' = frame
      BY <1>0, <2>1, <2>2 DEF Configuration
    <2>3. CASE frame.call = "none" /\ frame'.call # "reload"
      BY <1>0, <2>1, <2>3 DEF Configuration
    <2>4. CASE /\ frame.call = "none" /\ frame'.call = "reload"
               /\ frame'.at = "slot" /\ frame'.slot = 1 /\ frame'.next = 0
               /\ Loaded(frame'.candidate)
      <3>1. InForce(entries, manager.config)
        BY <1>0, <2>4 DEF Configuration
      <3>2. Behind(frame') = {}
        BY <2>4 DEF Behind, Slots
      <3>3. FirstLoop(entries, frame', manager.config.globals)
        BY <3>1, <3>2 DEF FirstLoop, InForce, FromConfig
      <3>4. Reloading(entries, frame', manager.config.globals)
        BY <2>4, <3>3 DEF Reloading
      <3> QED BY <1>0, <2>1, <2>4, <3>4 DEF Configuration
    <2> QED BY <2>2, <2>3, <2>4
  <1> QED BY <1>2, <1>3, <1>4, <1>5 DEF IInv

\* ... the same, when the mutex stays with whoever has it.
LEMMA OutsideKeeps ==
    ASSUME IInv, GatewayTypeOK', UNCHANGED <<entries, thread, sampler, lock, frame>>,
           manager' \in Managers, reply' \in [Clients -> Statuses],
           manager'.config = manager.config, manager'.started = manager.started,
           manager'.active_threads = manager.active_threads,
           Holder', HttpThere', MainKnows'
    PROVE  IInv'
  <1>1. TypeOK'
    BY DEF IInv, TypeOK, ManagerTypeOK
  <1>2. Control'
    BY DEF IInv, Control, FramePlace
  <1>3. Lifetime'
    BY DEF IInv, Lifetime, Starting, Stopping, AllJoined
  <1>4. SameEntries
    BY DEF SameEntries
  <1> QED BY <1>1, <1>2, <1>3, <1>4, CallerKeeps

\* A call that is refused leaves the manager as it was.
LEMMA RefuseKeeps ==
    ASSUME IInv, NEW c \in Clients, NEW status \in Statuses, Refuse(c, status), GatewayTypeOK',
           HttpThere', MainKnows'
    PROVE  IInv'
  <1>1. /\ UNCHANGED <<entries, thread, manager, sampler, lock, frame>> /\ lock = "free"
        /\ manager \in Managers /\ reply' \in [Clients -> Statuses] /\ frame.call = "none"
    BY DEF Refuse, IInv, TypeOK, ManagerTypeOK, Control, Holder
  <1>2. Holder'
    BY <1>1 DEF Holder
  <1> QED BY <1>1, <1>2, OutsideKeeps

\* A stop request leaves all the invariant speaks of in the manager.
LEMMA StopRequestedFacts ==
    ASSUME NEW m \in Managers
    PROVE  /\ StopRequested(m) \in Managers
           /\ StopRequested(m).config = m.config /\ StopRequested(m).started = m.started
           /\ StopRequested(m).active_threads = m.active_threads
  BY DEF StopRequested, Managers

\* An answer that is taken.
LEMMA ReturnedFacts ==
    ASSUME IInv, NEW c \in Clients, Returned(c)
    PROVE  /\ UNCHANGED <<entries, thread, manager, sampler, lock, frame>> /\ lock # c
           /\ manager \in Managers /\ reply' \in [Clients -> Statuses]
           /\ \A d \in Clients : d # c => reply'[d] = reply[d]
  BY DEF Returned, IInv, TypeOK, ManagerTypeOK, Statuses

\* The steps of the main thread that make no call on the manager that locks.
LEMMA MainOutside ==
    ASSUME IInv, \/ Booted \/ Serve \/ Sample \/ ActStop \/ ActReload \/ Reloaded \/ ActIdle
                 \/ StopHttp \/ JoinHttp \/ Waited \/ gw_channel_manager_destroy \/ Exit
    PROVE  IInv'
  <1>0. /\ GatewayTypeOK /\ Holder /\ HttpThere /\ MainKnows
        /\ manager \in Managers /\ reply \in [Clients -> Statuses]
        /\ lock \in {"main", "http", "free"} /\ "main" \in Clients
    BY DEF IInv, TypeOK, ManagerTypeOK, Control, Lifetime, Clients
  <1>0a. /\ StopRequested(manager) \in Managers
         /\ StopRequested(manager).config = manager.config
         /\ StopRequested(manager).started = manager.started
         /\ StopRequested(manager).active_threads = manager.active_threads
    BY <1>0, StopRequestedFacts
  <1>0b. ASSUME UNCHANGED <<thread, sampler>> PROVE Quiet' = Quiet
    BY <1>0b DEF Quiet, AllJoined
  <1>1. CASE Booted
    <2>1. /\ UNCHANGED <<entries, thread, manager, sampler, lock, frame>> /\ lock # "main"
          /\ reply' \in [Clients -> Statuses]
      BY <1>0, <1>1, ReturnedFacts DEF Booted
    <2>2. /\ pc = "booting" /\ UNCHANGED <<http, signals, local>>
          /\ pc' = IF reply["main"] = "OK" THEN "serve" ELSE "destroy"
      BY <1>1 DEF Booted
    <2>3. GatewayTypeOK' /\ Holder' /\ HttpThere'
      BY <1>0, <2>1, <2>2 DEF GatewayTypeOK, Holder, HttpThere
    <2>4. MainKnows'
      BY <1>0, <1>0b, <2>1, <2>2 DEF MainKnows
    <2> QED BY <1>0, <2>1, <2>3, <2>4, OutsideKeeps
  <1>2. CASE Serve
    <2>1. /\ pc = "serve" /\ UNCHANGED <<signals, local, entries, thread, sampler, lock, frame, reply>>
          /\ \/ pc' = "loop" /\ UNCHANGED manager
             \/ pc' = "wait" /\ manager' = StopRequested(manager) /\ UNCHANGED http
      BY <1>2 DEF Serve
    <2>2. lock = "free"
      BY <1>0, <2>1 DEF Holder, HttpThere
    <2>3. GatewayTypeOK' /\ HttpThere'
      BY <1>0, <1>2 DEF Serve, gw_http_server_start, GatewayTypeOK, HttpThere
    <2>4. Holder'
      BY <1>0, <2>1, <2>2 DEF Holder
    <2>5. MainKnows'
      BY <1>0, <1>0a, <2>1 DEF MainKnows
    <2> QED BY <1>0, <1>0a, <2>1, <2>3, <2>4, <2>5, OutsideKeeps
  <1>3. CASE Sample
    <2>1. /\ pc = "loop" /\ pc' = "act" /\ UNCHANGED <<http, signals>>
          /\ UNCHANGED <<entries, thread, manager, sampler, lock, frame, reply>>
      BY <1>3 DEF Sample, MainGoes, managerVars
    <2>2. GatewayTypeOK'
      BY <1>0, <1>3, <2>1 DEF Sample, GatewayTypeOK, gw_channel_manager_is_finished
    <2>3. Holder' /\ HttpThere' /\ MainKnows'
      BY <1>0, <2>1 DEF Holder, HttpThere, MainKnows
    <2> QED BY <1>0, <2>1, <2>2, <2>3, OutsideKeeps
  <1>4. CASE ActStop
    <2>1. /\ pc = "act" /\ pc' \in {"shutdown", "loop"} /\ UNCHANGED http /\ signals' = {}
          /\ UNCHANGED <<entries, thread, sampler, lock, frame, reply>>
          /\ manager' = StopRequested(manager)
      BY <1>4 DEF ActStop
    <2>2. GatewayTypeOK'
      BY <1>0, <1>4, <2>1 DEF ActStop, GatewayTypeOK
    <2>3. Holder' /\ HttpThere' /\ MainKnows'
      BY <1>0, <1>0a, <2>1 DEF Holder, HttpThere, MainKnows
    <2> QED BY <1>0, <1>0a, <2>1, <2>2, <2>3, OutsideKeeps
  <1>5. CASE ActReload
    <2>1. /\ pc = "act" /\ pc' \in {"loop", "reload"} /\ UNCHANGED http /\ signals' = {}
          /\ UNCHANGED <<entries, thread, manager, sampler, lock, frame, reply>>
      BY <1>5 DEF ActReload, managerVars
    <2>2. GatewayTypeOK'
      BY <1>0, <1>5, <2>1 DEF ActReload, GatewayTypeOK
    <2>3. Holder' /\ HttpThere' /\ MainKnows'
      BY <1>0, <2>1 DEF Holder, HttpThere, MainKnows
    <2> QED BY <1>0, <2>1, <2>2, <2>3, OutsideKeeps
  <1>6. CASE Reloaded
    <2>1. /\ UNCHANGED <<entries, thread, manager, sampler, lock, frame>> /\ lock # "main"
          /\ reply' \in [Clients -> Statuses]
      BY <1>0, <1>6, ReturnedFacts DEF Reloaded
    <2>2. pc = "reloading" /\ pc' = "loop" /\ UNCHANGED <<http, signals, local>>
      BY <1>6 DEF Reloaded, MainGoes
    <2>3. GatewayTypeOK' /\ Holder' /\ HttpThere' /\ MainKnows'
      BY <1>0, <2>1, <2>2 DEF GatewayTypeOK, Holder, HttpThere, MainKnows
    <2> QED BY <1>0, <2>1, <2>3, OutsideKeeps
  <1>7. CASE ActIdle
    <2>1. /\ pc = "act" /\ pc' \in {"shutdown", "loop"} /\ UNCHANGED <<http, signals>>
          /\ UNCHANGED <<entries, thread, manager, sampler, lock, frame, reply>>
      BY <1>7 DEF ActIdle, managerVars
    <2>2. GatewayTypeOK'
      BY <1>0, <1>7, <2>1 DEF ActIdle, GatewayTypeOK
    <2>3. Holder' /\ HttpThere' /\ MainKnows'
      BY <1>0, <2>1 DEF Holder, HttpThere, MainKnows
    <2> QED BY <1>0, <2>1, <2>2, <2>3, OutsideKeeps
  <1>8. CASE StopHttp
    <2>1. /\ pc = "shutdown" /\ http' = [http EXCEPT !.stop_requested = TRUE]
          /\ UNCHANGED <<pc, signals, local>>
          /\ UNCHANGED <<entries, thread, manager, sampler, lock, frame, reply>>
      BY <1>8 DEF StopHttp, managerVars
    <2>2. GatewayTypeOK' /\ http'.at = http.at
      BY <1>0, <2>1 DEF GatewayTypeOK
    <2>3. Holder' /\ HttpThere' /\ MainKnows'
      BY <1>0, <2>1, <2>2 DEF Holder, HttpThere, MainKnows
    <2> QED BY <1>0, <2>1, <2>2, <2>3, OutsideKeeps
  <1>9. CASE JoinHttp
    <2>1. /\ pc = "shutdown" /\ pc' = "wait" /\ UNCHANGED <<http, signals, local>>
          /\ http.at \in {"off", "ended"}
          /\ UNCHANGED <<entries, thread, manager, sampler, lock, frame, reply>>
      BY <1>9 DEF JoinHttp, MainGoes, managerVars
    <2>2. GatewayTypeOK' /\ Holder' /\ HttpThere' /\ MainKnows'
      BY <1>0, <2>1 DEF GatewayTypeOK, Holder, HttpThere, MainKnows
    <2> QED BY <1>0, <2>1, <2>2, OutsideKeeps
  <1>10. CASE Waited
    <2>1. /\ UNCHANGED <<entries, thread, manager, sampler, lock, frame>> /\ lock # "main"
          /\ reply' \in [Clients -> Statuses]
      BY <1>0, <1>10, ReturnedFacts DEF Waited
    <2>2. pc = "waiting" /\ pc' = "destroy" /\ UNCHANGED <<http, signals, local>>
      BY <1>10 DEF Waited, MainGoes
    <2>3. GatewayTypeOK' /\ Holder' /\ HttpThere'
      BY <1>0, <2>1, <2>2 DEF GatewayTypeOK, Holder, HttpThere
    <2>4. MainKnows'
      BY <1>0, <1>0b, <2>1, <2>2 DEF MainKnows
    <2> QED BY <1>0, <2>1, <2>3, <2>4, OutsideKeeps
  <1>11. CASE gw_channel_manager_destroy
    <2>1. /\ pc = "destroy" /\ pc' \in {"rewait", "exited"} /\ UNCHANGED <<http, signals, local>>
          /\ manager' \in {manager, StopRequested(manager)}
          /\ UNCHANGED <<entries, thread, sampler, lock, frame, reply>>
      BY <1>11 DEF gw_channel_manager_destroy
    <2>2. GatewayTypeOK' /\ Holder' /\ HttpThere'
      BY <1>0, <2>1 DEF GatewayTypeOK, Holder, HttpThere
    <2>3. MainKnows'
      BY <1>0, <1>0b, <2>1 DEF MainKnows
    <2> QED BY <1>0, <1>0a, <2>1, <2>2, <2>3, OutsideKeeps
  <1>12. CASE Exit
    <2>1. /\ UNCHANGED <<entries, thread, manager, sampler, lock, frame>> /\ lock # "main"
          /\ reply' \in [Clients -> Statuses]
      BY <1>0, <1>12, ReturnedFacts DEF Exit
    <2>2. pc = "rewaiting" /\ pc' = "exited" /\ UNCHANGED <<http, signals, local>>
      BY <1>12 DEF Exit, MainGoes
    <2>3. GatewayTypeOK' /\ Holder' /\ HttpThere'
      BY <1>0, <2>1, <2>2 DEF GatewayTypeOK, Holder, HttpThere
    <2>4. MainKnows'
      BY <1>0, <1>0b, <2>1, <2>2 DEF MainKnows
    <2> QED BY <1>0, <2>1, <2>3, <2>4, OutsideKeeps
  <1> QED BY <1>1, <1>2, <1>3, <1>4, <1>5, <1>6, <1>7, <1>8, <1>9, <1>10, <1>11, <1>12

\* The steps of the main thread that make a call that takes the mutex.
LEMMA MainCalls ==
    ASSUME IInv, Boot \/ Reload \/ Wait \/ Rewait
    PROVE  IInv'
  <1>0. /\ GatewayTypeOK /\ FramePlace /\ Holder /\ HttpThere /\ MainKnows /\ ManagerTypeOK
        /\ manager \in Managers /\ reply \in [Clients -> Statuses] /\ "main" \in Clients
        /\ frame \in Frames
    BY DEF IInv, TypeOK, ManagerTypeOK, Control, Lifetime, Clients
  <1>0a. ASSUME UNCHANGED <<thread, sampler>> PROVE Quiet' = Quiet
    BY <1>0a DEF Quiet, AllJoined
  <1>1. ASSUME NEW f \in Frames, Enter("main", f), UNCHANGED <<entries, thread, sampler>>,
               f.call \in {"start", "reload", "wait"}, f.at = "slot", f.slot = 1,
               f.call = "reload" => f.next = 0 /\ Loaded(f.candidate),
               manager' \in Managers, manager'.config = manager.config,
               manager'.active_threads = manager.active_threads,
               GatewayTypeOK', Holder', HttpThere', Starting', MainKnows'
        PROVE  IInv'
    <2>1. /\ lock = "free" /\ frame' = f /\ frame.call = "none"
          /\ reply' \in [Clients -> Statuses] /\ lock' = "main"
      BY <1>0, <1>1 DEF Enter, Holder, Statuses
    <2>2. TypeOK'
      BY <1>0, <1>1, <2>1 DEF TypeOK, ManagerTypeOK
    <2>3. FramePlace'
      BY <1>1, <2>1, ManagerAssumption DEF FramePlace
    <2>4. Stopping'
      <3>1. \A s \in Slots : ~ (s < 1)
        BY DEF Slots
      <3> QED BY <1>1, <2>1, <3>1 DEF Stopping
    <2>5. SameEntries
      BY <1>1 DEF SameEntries
    <2> QED BY <1>1, <2>1, <2>2, <2>3, <2>4, <2>5, CallerKeeps DEF Control, Lifetime
  <1>2. ASSUME NEW call \in {"start", "reload", "wait"}
        PROVE  LET f == [Frame(call) EXCEPT !.at = "slot"]
               IN  /\ f \in Frames /\ f.call = call /\ f.at = "slot" /\ f.slot = 1 /\ f.next = 0
                   /\ f.status = "OK"
    <2>1. call \in Calls
      BY DEF Calls
    <2>2. Frame(call) \in Frames
      BY <1>0, <2>1, FrameType
    <2>3. /\ Frame(call).call = call /\ Frame(call).slot = 1 /\ Frame(call).next = 0
          /\ Frame(call).status = "OK"
      BY DEF Frame, NoFrame
    <2> QED BY <2>2, <2>3 DEF Frames, Places
  <1>3. CASE Boot
    <2> DEFINE f == [Frame("start") EXCEPT !.at = "slot"]
    <2>1. /\ f \in Frames /\ f.call = "start" /\ f.at = "slot" /\ f.slot = 1 /\ f.next = 0
          /\ f.status = "OK"
      BY <1>2
    <2>2. /\ pc = "boot" /\ pc' = "booting" /\ UNCHANGED <<http, signals, local>>
          /\ gw_channel_manager_start("main")
      BY <1>3 DEF Boot, MainGoes
    <2>3. Quiet /\ ~ manager.started
      BY <1>0, <2>2 DEF MainKnows
    <2>4. /\ Enter("main", f) /\ UNCHANGED <<entries, thread, sampler>>
          /\ manager' = [manager EXCEPT !.started = TRUE, !.metrics_stop_requested = FALSE]
      BY <2>2, <2>3 DEF gw_channel_manager_start
    <2>5. /\ manager' \in Managers /\ manager'.config = manager.config /\ manager'.started
          /\ manager'.active_threads = manager.active_threads
      BY <1>0, <2>4 DEF Managers
    <2> HIDE DEF f
    <2>6. GatewayTypeOK' /\ HttpThere'
      BY <1>0, <2>2 DEF GatewayTypeOK, HttpThere
    <2>7. Holder' /\ MainKnows'
      BY <2>1, <2>2, <2>4 DEF Enter, Holder, MainKnows
    <2>8. Starting'
      BY <2>1, <2>3, <2>4, <2>5 DEF Enter, Starting, Quiet, AllJoined
    <2> QED BY <1>1, <2>1, <2>4, <2>5, <2>6, <2>7, <2>8
  <1>4. CASE Reload
    <2>1. /\ pc = "reload" /\ pc' = "reloading" /\ UNCHANGED <<http, signals, local>>
      BY <1>4 DEF Reload, MainGoes
    <2>2. PICK candidate \in gw_config_load_file : gw_channel_manager_reload("main", candidate)
      BY <1>4 DEF Reload
    <2>3. candidate \in gw_config /\ Loaded(candidate)
      BY GatewayAssumption DEF gw_config_load_file, Loaded
    <2>4. GatewayTypeOK' /\ HttpThere'
      BY <1>0, <2>1 DEF GatewayTypeOK, HttpThere
    <2>5. CASE Refuse("main", "VALIDATION")
      <3>1. MainKnows'
        BY <1>0, <2>1, <2>5 DEF Refuse, MainKnows
      <3> QED BY <1>0, <2>4, <2>5, <3>1, RefuseKeeps DEF Statuses
    <2>6. CASE ~ Refuse("main", "VALIDATION")
      <3> DEFINE f == [Frame("reload") EXCEPT !.at = "slot"]
                 g == [Frame("reload") EXCEPT !.at = "slot", !.candidate = candidate]
      <3>1. /\ f \in Frames /\ f.call = "reload" /\ f.at = "slot" /\ f.slot = 1 /\ f.next = 0
        BY <1>2
      <3>2. g = [f EXCEPT !.candidate = candidate]
        OBVIOUS
      <3>3. Enter("main", g) /\ UNCHANGED <<entries, thread, manager, sampler>>
        BY <2>2, <2>6 DEF gw_channel_manager_reload
      <3> HIDE DEF f, g
      <3>4. /\ g \in Frames /\ g.call = "reload" /\ g.at = "slot" /\ g.slot = 1 /\ g.next = 0
            /\ g.candidate = candidate
        BY <2>3, <3>1, <3>2 DEF Frames
      <3>5. Holder' /\ MainKnows' /\ Starting'
        BY <1>0, <2>1, <3>3, <3>4 DEF Enter, Holder, MainKnows, Starting
      <3> QED BY <1>0, <1>1, <2>3, <2>4, <3>3, <3>4, <3>5
    <2> QED BY <2>5, <2>6
  <1>5. CASE Wait \/ Rewait
    <2> DEFINE f == [Frame("wait") EXCEPT !.at = "slot"]
    <2>1. f \in Frames /\ f.call = "wait" /\ f.at = "slot" /\ f.slot = 1
      BY <1>2
    <2>2. /\ \/ pc = "wait" /\ pc' = "waiting"
             \/ pc = "rewait" /\ pc' = "rewaiting"
          /\ UNCHANGED <<http, signals, local>>
          /\ gw_channel_manager_wait("main")
      BY <1>5 DEF Wait, Rewait, MainGoes
    <2>3. GatewayTypeOK' /\ HttpThere'
      BY <1>0, <2>2 DEF GatewayTypeOK, HttpThere
    <2>4. CASE ~ manager.started
      <3>1. Refuse("main", "VALIDATION")
        BY <2>2, <2>4 DEF gw_channel_manager_wait
      <3>2. UNCHANGED <<thread, manager, sampler>>
        BY <3>1 DEF Refuse
      <3>3. MainKnows'
        BY <1>0, <1>0a, <2>2, <2>4, <3>2 DEF MainKnows
      <3> QED BY <1>0, <2>3, <3>1, <3>3, RefuseKeeps DEF Statuses
    <2>5. CASE manager.started
      <3>1. /\ Enter("main", f) /\ UNCHANGED <<entries, thread, sampler>>
            /\ manager' = [manager EXCEPT !.result = 0]
        BY <2>2, <2>5 DEF gw_channel_manager_wait
      <3>2. /\ manager' \in Managers /\ manager'.config = manager.config /\ manager'.started
            /\ manager'.active_threads = manager.active_threads
        BY <1>0, <2>5, <3>1 DEF Managers
      <3> HIDE DEF f
      <3>3. Holder' /\ Starting'
        BY <2>1, <2>2, <3>1 DEF Enter, Holder, Starting
      <3>4. MainKnows'
        BY <1>0, <1>0a, <2>2, <3>1, <3>2 DEF Enter, MainKnows
      <3> QED BY <1>1, <2>1, <2>3, <3>1, <3>2, <3>3, <3>4
    <2> QED BY <2>4, <2>5
  <1> QED BY <1>3, <1>4, <1>5

\* The steps of the HTTP thread that make no call on the manager that locks, and the
\* signals.
LEMMA OthersOutside ==
    ASSUME IInv, \/ HttpCheck \/ HttpPoll \/ HttpRecv \/ HttpCommanded \/ HttpSend
                 \/ StopSignal \/ ReloadSignal
    PROVE  IInv'
  <1>0. /\ GatewayTypeOK /\ Holder /\ HttpThere /\ MainKnows
        /\ manager \in Managers /\ reply \in [Clients -> Statuses]
        /\ lock \in {"main", "http", "free"} /\ "http" \in Clients /\ "main" \in Clients
    BY DEF IInv, TypeOK, ManagerTypeOK, Control, Lifetime, Clients
  <1>1. ASSUME UNCHANGED <<pc, signals, local>>, http' \in [at : {"off", "check", "poll", "recv",
                  "command", "busy", "send", "ended"}, used : 0 .. HTTP_REQUEST_CAP - 1,
                  stop_requested : BOOLEAN],
               http.at \in {"check", "poll", "recv", "busy", "send"},
               http'.at \in {"check", "poll", "recv", "command", "send", "ended"},
               lock # "http",
               UNCHANGED <<entries, thread, manager, sampler, lock, frame>>,
               reply' \in [Clients -> Statuses], reply'["main"] = reply["main"]
        PROVE  IInv'
    <2>1. GatewayTypeOK'
      BY <1>0, <1>1 DEF GatewayTypeOK
    <2>2. Holder' /\ HttpThere'
      BY <1>0, <1>1 DEF Holder, HttpThere
    <2>3. Quiet' = Quiet
      BY <1>1 DEF Quiet, AllJoined
    <2>4. MainKnows'
      BY <1>0, <1>1, <2>3 DEF MainKnows
    <2> QED BY <1>0, <1>1, <2>1, <2>2, <2>4, OutsideKeeps
  <1>2. CASE HttpCheck \/ HttpPoll \/ HttpSend
    <2>1. PICK at \in {"check", "poll", "recv", "ended"} : http' = [http EXCEPT !.at = at]
      BY <1>2 DEF HttpCheck, HttpPoll, HttpSend, HttpGoes
    <2>2. http.at \in {"check", "poll", "send"} /\ UNCHANGED <<pc, signals, local>>
          /\ UNCHANGED <<entries, thread, manager, sampler, lock, frame, reply>>
      BY <1>2 DEF HttpCheck, HttpPoll, HttpSend, HttpGoes, managerVars
    <2>3. /\ http' \in [at : {"off", "check", "poll", "recv",
                  "command", "busy", "send", "ended"}, used : 0 .. HTTP_REQUEST_CAP - 1,
                  stop_requested : BOOLEAN]
          /\ http'.at = at
      BY <1>0, <2>1 DEF GatewayTypeOK
    <2>4. lock # "http"
      BY <1>0, <2>2 DEF Holder
    <2> QED BY <1>0, <1>1, <2>2, <2>3, <2>4
  <1>3. CASE HttpRecv
    <2>1. http.at = "recv" /\ UNCHANGED <<pc, signals, local>>
          /\ UNCHANGED <<entries, thread, manager, sampler, lock, frame, reply>>
      BY <1>3 DEF HttpRecv, RequestEnds, Receives, managerVars
    <2>2. http.used \in 0 .. HTTP_REQUEST_CAP - 1
      BY <1>0 DEF GatewayTypeOK
    <2>3. /\ http' \in [at : {"off", "check", "poll", "recv",
                  "command", "busy", "send", "ended"}, used : 0 .. HTTP_REQUEST_CAP - 1,
                  stop_requested : BOOLEAN]
          /\ http'.at \in {"recv", "command", "send"}
      <3>1. CASE RequestEnds
        <4>1. 0 \in 0 .. HTTP_REQUEST_CAP - 1
          BY GatewayAssumption
        <4> QED BY <1>0, <3>1, <4>1 DEF RequestEnds, GatewayTypeOK
      <3>2. CASE \E n \in 1 .. HTTP_REQUEST_CAP : Receives(n)
        <4>1. PICK n \in 1 .. HTTP_REQUEST_CAP : Receives(n)
          BY <3>2
        <4>2. http.used + n \in 0 .. HTTP_REQUEST_CAP - 1
          BY <2>2, <4>1, GatewayAssumption DEF Receives
        <4> QED BY <1>0, <2>1, <4>1, <4>2 DEF Receives, GatewayTypeOK
      <3> QED BY <1>3, <3>1, <3>2 DEF HttpRecv
    <2>4. lock # "http"
      BY <1>0, <2>1 DEF Holder
    <2> QED BY <1>0, <1>1, <2>1, <2>3, <2>4
  <1>4. CASE HttpCommanded
    <2>1. /\ UNCHANGED <<entries, thread, manager, sampler, lock, frame>> /\ lock # "http"
          /\ reply' \in [Clients -> Statuses] /\ reply'["main"] = reply["main"]
      BY <1>0, <1>4, ReturnedFacts DEF HttpCommanded
    <2>2. http.at = "busy" /\ http' = [http EXCEPT !.at = "send"] /\ UNCHANGED <<pc, signals, local>>
      BY <1>4 DEF HttpCommanded, HttpGoes
    <2>3. /\ http' \in [at : {"off", "check", "poll", "recv",
                  "command", "busy", "send", "ended"}, used : 0 .. HTTP_REQUEST_CAP - 1,
                  stop_requested : BOOLEAN]
          /\ http'.at = "send"
      BY <1>0, <2>2 DEF GatewayTypeOK
    <2> QED BY <1>1, <2>1, <2>2, <2>3
  <1>5. CASE StopSignal \/ ReloadSignal
    <2>1. /\ UNCHANGED <<pc, http, local>> /\ signals' \in SUBSET {"STOP", "HUP"}
          /\ UNCHANGED <<entries, thread, manager, sampler, lock, frame, reply>>
      BY <1>0, <1>5 DEF StopSignal, ReloadSignal, managerVars, GatewayTypeOK
    <2>2. GatewayTypeOK' /\ Holder' /\ HttpThere'
      BY <1>0, <2>1 DEF GatewayTypeOK, Holder, HttpThere
    <2>3. Quiet' = Quiet
      BY <2>1 DEF Quiet, AllJoined
    <2>4. MainKnows'
      BY <1>0, <2>1, <2>3 DEF MainKnows
    <2> QED BY <1>0, <2>1, <2>2, <2>4, OutsideKeeps
  <1> QED BY <1>2, <1>3, <1>4, <1>5

\* The metrics thread ends only where nobody relies on there being none.
LEMMA SamplerKeeps ==
    ASSUME IInv, SamplerEnds, UNCHANGED gatewayVars
    PROVE  IInv'
  <1>1. /\ sampler = "running" /\ sampler' = "ended"
        /\ UNCHANGED <<entries, thread, manager, lock, frame, reply>>
        /\ UNCHANGED <<pc, http, signals, local>>
    BY DEF SamplerEnds, gatewayVars
  <1>2. TypeOK'
    BY <1>1 DEF IInv, TypeOK, ManagerTypeOK, GatewayTypeOK
  <1>3. Control'
    BY <1>1 DEF IInv, Control, FramePlace, Holder, HttpThere
  <1>4. Lifetime'
    <2>1. Starting'
      BY <1>1 DEF IInv, Lifetime, Starting
    <2>2. AllJoined' = AllJoined
      BY <1>1 DEF AllJoined
    <2>3. Stopping'
      BY <1>1, <2>2 DEF IInv, Lifetime, Stopping
    <2>4. MainKnows'
      BY <1>1 DEF IInv, Lifetime, MainKnows, Quiet
    <2> QED BY <2>1, <2>3, <2>4 DEF Lifetime
  <1>5. SameEntries
    BY <1>1 DEF SameEntries
  <1> QED BY <1>1, <1>2, <1>3, <1>4, <1>5, CallerKeeps

\* A command on one channel starts where its entry is, with no thread to collect
\* unless it joins it first.
LEMMA CommandKeeps ==
    ASSUME IInv, gw_http_route
    PROVE  IInv'
  <1>0. /\ GatewayTypeOK /\ FramePlace /\ Holder /\ HttpThere /\ MainKnows /\ ManagerTypeOK
        /\ manager \in Managers /\ reply \in [Clients -> Statuses] /\ "http" \in Clients
        /\ frame \in Frames /\ entries \in [Slots -> Entries] /\ Threading
    BY DEF IInv, TypeOK, ManagerTypeOK, Control, Lifetime, Clients
  <1>1. http.at = "command" /\ http' = [http EXCEPT !.at = "busy"] /\ UNCHANGED <<pc, signals, local>>
    BY DEF gw_http_route, HttpGoes
  <1>2. PICK id \in Ids : \/ gw_channel_manager_start_channel("http", id)
                          \/ gw_channel_manager_stop_channel("http", id)
                          \/ gw_channel_manager_restart_channel("http", id)
    BY DEF gw_http_route
  <1>3. GatewayTypeOK' /\ http'.at = "busy"
    BY <1>0, <1>1 DEF GatewayTypeOK
  <1>4. HttpThere'
    BY <1>0, <1>1, <1>3 DEF HttpThere
  <1>5. pc \in {"loop", "act", "reload", "reloading", "shutdown"}
    BY <1>0, <1>1 DEF HttpThere, GatewayTypeOK
  <1>6. CASE command_entry(id) # "OK"
    <2>1. Refuse("http", command_entry(id))
      BY <1>2, <1>6 DEF gw_channel_manager_start_channel, gw_channel_manager_stop_channel,
                        gw_channel_manager_restart_channel, Command
    <2>2. command_entry(id) \in Statuses
      BY DEF command_entry, Statuses
    <2>3. MainKnows'
      BY <1>0, <1>1, <1>5, <2>1 DEF Refuse, MainKnows
    <2> DEFINE status == command_entry(id)
    <2> HIDE DEF status
    <2>4. status \in Statuses /\ Refuse("http", status)
      BY <2>1, <2>2 DEF status
    <2> QED BY <1>0, <1>3, <1>4, <2>3, <2>4, RefuseKeeps
  <1>7. CASE command_entry(id) = "OK"
    <2>1. /\ lock = "free" /\ lock' = "http" /\ reply' = [reply EXCEPT !["http"] = "none"]
          /\ UNCHANGED <<thread, manager, sampler>>
          /\ \E s \in find_entry(id) : StartChannel(s) \/ StopChannel(s) \/ RestartChannel(s)
      BY <1>2, <1>7 DEF gw_channel_manager_start_channel, gw_channel_manager_stop_channel,
                        gw_channel_manager_restart_channel, Command
    <2>2. PICK s \in Slots : /\ entries[s].occupied
                             /\ StartChannel(s) \/ StopChannel(s) \/ RestartChannel(s)
      BY <2>1 DEF find_entry
    <2>3. ASSUME NEW call \in {"start_channel", "stop_channel", "restart_channel"},
                 NEW at \in Places
          PROVE  [Frame(call) EXCEPT !.at = at] \in Frames
      <3>1. Frame(call) \in Frames
        BY <1>0, FrameType DEF Calls
      <3> QED BY <3>1 DEF Frames
    <2>4. ASSUME NEW after \in Frames, StopEntry(s, after),
                 \/ after.call = "stop_channel" /\ after.at = "leave"
                 \/ after.call = "restart_channel" /\ after.at = "prepare"
          PROVE  /\ entries' \in [Slots -> Entries] /\ frame' \in Frames /\ SameEntries
                 /\ \A t \in Slots : entries'[t].thread_started = entries[t].thread_started
                 /\ frame'.slot = s
                 /\ \/ frame'.call = "stop_channel" /\ frame'.at \in {"join", "leave"}
                    \/ frame'.call = "restart_channel" /\ frame'.at = "join"
                    \/ frame'.call = "restart_channel" /\ frame'.at = "prepare"
                       /\ ~ entries[s].thread_started
      <3>1. s \in Nat
        BY DEF Slots
      <3>2. [after EXCEPT !.slot = s] \in Frames /\ [after EXCEPT !.slot = s, !.at = "join"] \in Frames
        BY <3>1 DEF Frames, Places
      <3>3. frame' \in Frames
        BY <2>4, <3>2 DEF StopEntry
      <3>4. entries' \in [Slots -> Entries]
        <4>1. [entries[s] EXCEPT !.stop_signal = TRUE] \in Entries
          BY <1>0 DEF Entries
        <4>2. \/ UNCHANGED entries
              \/ entries' = [entries EXCEPT ![s] = [@ EXCEPT !.stop_signal = TRUE]]
          BY <2>4 DEF StopEntry
        <4> QED BY <1>0, <4>1, <4>2
      <3>5. /\ frame'.call = after.call /\ frame'.slot = s
            /\ frame'.at = IF entries[s].thread_started THEN "join" ELSE after.at
            /\ \A t \in Slots :
                 /\ entries'[t].occupied = entries[t].occupied
                 /\ entries'[t].channel = entries[t].channel
                 /\ entries'[t].globals = entries[t].globals
                 /\ entries'[t].generation = entries[t].generation
                 /\ entries'[t].thread_started = entries[t].thread_started
                 /\ entries'[t].snapshot = entries[t].snapshot
        BY <1>0, <2>4, StopEntryFacts
      <3> QED BY <2>4, <3>3, <3>4, <3>5 DEF SameEntries
    <2>5. /\ entries' \in [Slots -> Entries] /\ frame' \in Frames /\ SameEntries
          /\ \A t \in Slots : entries'[t].thread_started = entries[t].thread_started
          /\ frame'.slot = s
          /\ \/ frame'.call = "start_channel" /\ frame'.at \in {"join", "check"}
             \/ frame'.call = "stop_channel" /\ frame'.at \in {"join", "leave"}
             \/ frame'.call = "restart_channel" /\ frame'.at = "join"
             \/ frame'.call = "restart_channel" /\ frame'.at = "prepare"
                /\ ~ entries[s].thread_started
      <3>1. CASE StartChannel(s)
        <4>1. PICK at \in {"join", "check"} :
                 frame' = [Frame("start_channel") EXCEPT !.slot = s, !.at = at]
          BY <3>1 DEF StartChannel
        <4>2. Frame("start_channel") \in Frames /\ s \in Nat
          BY <1>0, FrameType DEF Calls, Slots
        <4>3. frame' \in Frames /\ frame'.slot = s /\ frame'.at = at
          BY <4>1, <4>2 DEF Frames, Places
        <4>4. frame'.call = "start_channel"
          BY <4>1 DEF Frame, NoFrame
        <4> QED BY <1>0, <3>1, <4>3, <4>4 DEF StartChannel, SameEntries
      <3>2. CASE StopChannel(s)
        <4>1. CASE entries[s].thread_started /\ entries[s].thread_running
          <5> DEFINE after == [Frame("stop_channel") EXCEPT !.at = "leave"]
          <5>1. StopEntry(s, after)
            BY <3>2, <4>1 DEF StopChannel
          <5>2. after \in Frames
            BY <2>3 DEF Places
          <5>3. after.call = "stop_channel" /\ after.at = "leave"
            BY DEF Frame, NoFrame
          <5> HIDE DEF after
          <5> QED BY <2>4, <5>1, <5>2, <5>3
        <4>2. CASE ~ (entries[s].thread_started /\ entries[s].thread_running)
          <5>1. PICK at \in {"join", "leave"} :
                   frame' = [Frame("stop_channel") EXCEPT !.slot = s, !.status = "CONFLICT",
                                                          !.at = at]
            BY <3>2, <4>2 DEF StopChannel
          <5>2. Frame("stop_channel") \in Frames /\ s \in Nat
            BY <1>0, FrameType DEF Calls, Slots
          <5>3. frame' \in Frames /\ frame'.slot = s /\ frame'.at = at
            BY <5>1, <5>2 DEF Frames, Places, Statuses
          <5>4. frame'.call = "stop_channel"
            BY <5>1 DEF Frame, NoFrame
          <5> QED BY <1>0, <3>2, <4>2, <5>3, <5>4 DEF StopChannel, SameEntries
        <4> QED BY <4>1, <4>2
      <3>3. CASE RestartChannel(s)
        <4> DEFINE after == [Frame("restart_channel") EXCEPT !.at = "prepare"]
        <4>1. StopEntry(s, after)
          BY <3>3 DEF RestartChannel
        <4>2. after \in Frames
          BY <2>3 DEF Places
        <4>3. after.call = "restart_channel" /\ after.at = "prepare"
          BY DEF Frame, NoFrame
        <4> HIDE DEF after
        <4> QED BY <2>4, <4>1, <4>2, <4>3
      <3> QED BY <2>2, <3>1, <3>2, <3>3
    <2>6. TypeOK'
      BY <1>0, <1>3, <2>1, <2>5 DEF TypeOK, ManagerTypeOK, Statuses
    <2>7. Control'
      BY <1>3, <1>4, <2>1, <2>5 DEF Control, FramePlace, Holder
    <2>8. Lifetime'
      <3>1. Starting' /\ Stopping'
        BY <2>5 DEF Starting, Stopping
      <3>2. MainKnows'
        BY <1>0, <1>1, <1>5, <2>1 DEF MainKnows
      <3> QED BY <3>1, <3>2 DEF Lifetime
    <2>9. frame'.at = "prepare" => thread[s].at = "none"
      BY <1>0, <2>5 DEF Threading, ThreadOfEntry
    <2>10. frame.call = "none"
      BY <1>0, <2>1 DEF Holder
    <2> QED BY <2>1, <2>2, <2>5, <2>6, <2>7, <2>8, <2>9, <2>10, CallerKeeps
  <1> QED BY <1>6, <1>7

-----------------------------------------------------------------------------
(* The table gw_channel_manager_create fills.                              *)

\* The places of the enabled channels are entries of the table, all different.
LEMMA PlaceFacts ==
    ASSUME NEW config \in gw_config, Loaded(config)
    PROVE  /\ \A i \in 1 .. Len(config.channels) :
                 config.channels[i].enabled => Place(config, i) \in Slots
           /\ \A i, j \in 1 .. Len(config.channels) :
                 /\ config.channels[i].enabled /\ config.channels[j].enabled
                 /\ Place(config, i) = Place(config, j)
                 => i = j
  <1> DEFINE n == Len(config.channels)
             Upto(i) == {k \in 1 .. i : config.channels[k].enabled}
  <1>1. n \in Nat /\ n <= GW_MAX_CHANNELS
    BY ManagerAssumption, ChannelsType DEF Loaded, parse_document
  <1> HIDE DEF n
  <1>2. ASSUME NEW i \in 1 .. n
        PROVE  /\ IsFiniteSet(Upto(i)) /\ Place(config, i) = Cardinality(Upto(i))
               /\ Place(config, i) \in Nat /\ Place(config, i) <= i
    <2>1. IsFiniteSet(1 .. i) /\ Cardinality(1 .. i) = i
      BY <1>1, FS_Interval
    <2> DEFINE U == Upto(i)
               I == 1 .. i
    <2>2. U \in SUBSET I /\ IsFiniteSet(I)
      BY <2>1
    <2> HIDE DEF U, I
    <2>3. IsFiniteSet(U) /\ Cardinality(U) <= Cardinality(I)
      BY <2>2, FS_Subset
    <2>4. Cardinality(U) \in Nat
      BY <2>3, FS_CardinalityType
    <2> QED BY <2>1, <2>3, <2>4 DEF U, I, Place
  <1>3. ASSUME NEW i \in 1 .. n, config.channels[i].enabled
        PROVE  Place(config, i) \in Slots
    <2>1. i \in Upto(i)
      BY <1>1, <1>3
    <2> DEFINE U == Upto(i)
    <2>2. IsFiniteSet(U) /\ i \in U
      BY <1>2, <2>1
    <2> HIDE DEF U
    <2>3. Cardinality(U) # 0
      BY <2>2, FS_EmptySet
    <2>4. Place(config, i) # 0
      BY <1>2, <2>3 DEF U
    <2> DEFINE p == Place(config, i)
    <2>5. p \in Nat /\ p <= i /\ p # 0
      BY <1>2, <2>4
    <2> HIDE DEF p
    <2>6. p \in Slots
      BY <1>1, <2>5, ManagerAssumption DEF Slots
    <2> QED BY <2>6 DEF p
  <1>4. ASSUME NEW i \in 1 .. n, NEW j \in 1 .. n, i < j, config.channels[j].enabled
        PROVE  Place(config, i) # Place(config, j)
    <2> DEFINE U == Upto(i)
               V == Upto(j)
    <2>1. U \in SUBSET V /\ j \in V /\ j \notin U
      BY <1>1, <1>4
    <2>2. IsFiniteSet(V) /\ Place(config, i) = Cardinality(U) /\ Place(config, j) = Cardinality(V)
      BY <1>2
    <2> HIDE DEF U, V
    <2>3. Cardinality(V) = Cardinality(U) => V = U
      BY <2>1, <2>2, FS_Subset
    <2> QED BY <2>1, <2>2, <2>3
  <1>5. ASSUME NEW i \in 1 .. n, NEW j \in 1 .. n,
               config.channels[i].enabled, config.channels[j].enabled,
               Place(config, i) = Place(config, j)
        PROVE  i = j
    BY <1>1, <1>4, <1>5
  <1> QED BY <1>3, <1>5 DEF n

\* An entry is in use if it is the place of a channel, and it is of that channel.
LEMMA FirstEntryFacts ==
    ASSUME NEW config \in gw_config, Loaded(config), NEW s \in Slots
    PROVE  /\ FirstEntry(config, s) \in Entries
           /\ ~ FirstEntry(config, s).thread_started
           /\ PlacedAt(config, s) # {} => FirstEntry(config, s).occupied
           /\ FirstEntry(config, s).occupied =>
                 \E i \in PlacedAt(config, s) :
                    /\ FirstEntry(config, s).channel = config.channels[i]
                    /\ FirstEntry(config, s).channel \in Channels
                    /\ FirstEntry(config, s).globals = config.globals
                    /\ FirstEntry(config, s).snapshot.id = config.channels[i].id
                    /\ FirstEntry(config, s).snapshot.generation
                          = FirstEntry(config, s).generation
                    /\ FirstEntry(config, s).snapshot.state = "STOPPED"
  <1>0. /\ config.globals \in Globals
        /\ \A i \in 1 .. Len(config.channels) : config.channels[i] \in Channels
    BY ChannelsType
  <1>1. Blank(config) \in Entries /\ ~ Blank(config).occupied /\ ~ Blank(config).thread_started
    BY <1>0 DEF Blank, Entries
  <1>2. CASE PlacedAt(config, s) = {}
    BY <1>1, <1>2 DEF FirstEntry
  <1>3. CASE PlacedAt(config, s) # {}
    <2>1. PICK i \in PlacedAt(config, s) :
             FirstEntry(config, s) = configure_entry(Blank(config), config.channels[i], config)
      <3> DEFINE i == CHOOSE i \in PlacedAt(config, s) : TRUE
      <3>1. i \in PlacedAt(config, s)
        BY <1>3
      <3>2. FirstEntry(config, s) = configure_entry(Blank(config), config.channels[i], config)
        BY <1>3 DEF FirstEntry
      <3> HIDE DEF i
      <3> QED BY <3>1, <3>2
    <2> DEFINE entry == Blank(config)
               channel == config.channels[i]
               configured == configure_entry(entry, channel, config)
    <2>2. entry \in Entries /\ channel \in Channels /\ ~ entry.thread_started
      BY <1>0, <1>1, <2>1 DEF PlacedAt
    <2>3. FirstEntry(config, s) = configured
      BY <2>1
    <2> HIDE DEF entry, channel
    <2>4. /\ configured \in Entries
          /\ configured.occupied
          /\ configured.channel = channel
          /\ configured.globals = config.globals
          /\ configured.snapshot = [id |-> channel.id, state |-> "STOPPED",
                                    generation |-> configured.generation]
          /\ configured.thread_started = entry.thread_started
      BY <2>2, ConfigureType
    <2> HIDE DEF configured
    <2>5. /\ configured.snapshot.id = channel.id /\ configured.snapshot.state = "STOPPED"
          /\ configured.snapshot.generation = configured.generation
      BY <2>4
    <2> QED BY <2>1, <2>2, <2>3, <2>4, <2>5 DEF channel
  <1> QED BY <1>2, <1>3

\* The first states satisfy the invariant.
LEMMA InitKeeps == Init => IInv
  <1> SUFFICES ASSUME Init PROVE IInv
    OBVIOUS
  <1>1. PICK config \in gw_config_load_file : gw_channel_manager_create(config)
    BY DEF Init
  <1>2. config \in gw_config /\ Loaded(config)
    BY GatewayAssumption DEF gw_config_load_file, Loaded
  <1>3. /\ entries = [s \in Slots |-> FirstEntry(config, s)]
        /\ thread = [s \in Slots |-> NoThread]
        /\ manager = [config |-> config, started |-> FALSE, stop_signal |-> FALSE,
                  active_threads |-> 0, metrics_stop_requested |-> FALSE, result |-> 0]
        /\ sampler = "none" /\ lock = "free" /\ frame = NoFrame(config)
        /\ reply = [c \in Clients |-> "none"]
    BY <1>1 DEF gw_channel_manager_create
  <1>4. ASSUME NEW s \in Slots
        PROVE  /\ entries[s] \in Entries /\ ~ entries[s].thread_started
               /\ PlacedAt(config, s) # {} => entries[s].occupied
               /\ entries[s].occupied =>
                     \E i \in PlacedAt(config, s) :
                        /\ entries[s].channel = config.channels[i]
                        /\ entries[s].channel \in Channels
                        /\ entries[s].globals = config.globals
                        /\ entries[s].snapshot.id = config.channels[i].id
                        /\ entries[s].snapshot.generation = entries[s].generation
                        /\ entries[s].snapshot.state = "STOPPED"
    <2>1. entries[s] = FirstEntry(config, s)
      BY <1>3
    <2> QED BY <1>2, <2>1, FirstEntryFacts
  <1>5. TypeOK
    <2>1. entries \in [Slots -> Entries]
      BY <1>3, <1>4
    <2>2. thread \in [Slots -> Threads]
      BY <1>3 DEF NoThread, Threads, ThreadStates, States
    <2>3. manager \in Managers /\ frame \in Frames
      BY <1>2, <1>3 DEF Managers, Frames, NoFrame, Calls, Places, Statuses
    <2>4. GatewayTypeOK
      BY GatewayAssumption DEF Init, GatewayTypeOK
    <2> QED BY <1>3, <2>1, <2>2, <2>3, <2>4 DEF TypeOK, ManagerTypeOK, Statuses
  <1>6. /\ frame.call = "none" /\ frame.at = "none" /\ frame.slot = 1
        /\ \A s \in Slots : thread[s].at = "none"
    BY <1>3 DEF NoFrame, NoThread
  <1>7. Control
    BY <1>3, <1>6 DEF Init, Control, FramePlace, Holder, HttpThere
  <1>8. Threading
    BY <1>4, <1>6 DEF Threading, ThreadOfEntry
  <1>9. Snapshooting
    BY <1>4 DEF Snapshooting, SnapshotOfEntry
  <1>10. Lifetime
    BY <1>3, <1>6 DEF Init, Lifetime, Starting, Stopping, MainKnows, Quiet, AllJoined
  <1>11. ActiveThreadsExact
    <2>1. {s \in Slots : thread[s].at \in Alive} = {}
      BY <1>6 DEF Alive
    <2>2. Cardinality({s \in Slots : thread[s].at \in Alive}) = 0
      BY <2>1, FS_EmptySet
    <2>3. manager.active_threads = 0 /\ frame.at # "create"
      BY <1>3, <1>6
    <2> QED BY <2>2, <2>3 DEF ActiveThreadsExact
  <1>12. Configuration
    <2>1. ASSUME NEW s \in Slots, NEW t \in Slots, s # t, entries[s].occupied, entries[t].occupied
          PROVE  entries[s].channel.id # entries[t].channel.id
      <3>1. PICK i \in PlacedAt(config, s) : entries[s].channel = config.channels[i]
        BY <1>4, <2>1
      <3>2. PICK j \in PlacedAt(config, t) : entries[t].channel = config.channels[j]
        BY <1>4, <2>1
      <3>3. i \in 1 .. Len(config.channels) /\ j \in 1 .. Len(config.channels) /\ i # j
        BY <2>1 DEF PlacedAt
      <3> QED BY <1>2, <3>1, <3>2, <3>3 DEF Loaded, gw_config_validate
    <2>2. FromConfig(entries, config, Slots)
      BY <1>4 DEF FromConfig, PlacedAt, EnabledChannels
    <2>3. HaveEntries(entries, config, Len(config.channels))
      <3>1. SUFFICES ASSUME NEW i \in 1 .. Len(config.channels), config.channels[i].enabled
                     PROVE  \E s \in Slots : /\ entries[s].occupied
                                             /\ entries[s].channel.id = config.channels[i].id
        BY DEF HaveEntries
      <3>2. PICK s \in Slots : s = Place(config, i)
        BY <1>2, <3>1, PlaceFacts
      <3>3. i \in PlacedAt(config, s)
        BY <3>1, <3>2 DEF PlacedAt
      <3>4. entries[s].occupied
        BY <1>4, <3>3
      <3>5. PICK j \in PlacedAt(config, s) : entries[s].channel = config.channels[j]
        BY <1>4, <3>4
      <3>6. j = i
        BY <1>2, <3>1, <3>3, <3>5, PlaceFacts DEF PlacedAt
      <3> QED BY <3>4, <3>5, <3>6
    <2>4. manager.config = config
      BY <1>3
    <2> QED BY <1>2, <1>6, <2>1, <2>2, <2>3, <2>4 DEF Configuration, DistinctIds, InForce
  <1> QED BY <1>5, <1>7, <1>8, <1>9, <1>10, <1>11, <1>12 DEF IInv

-----------------------------------------------------------------------------
(* The theorems.                                                           *)

\* Every step keeps the invariant.
LEMMA NextKeeps == IInv /\ [Next]_vars => IInv'
  <1> SUFFICES ASSUME IInv, [Next]_vars PROVE IInv'
    OBVIOUS
  <1>1. CASE Main
    BY <1>1, MainOutside, MainCalls DEF Main
  <1>2. CASE Http
    BY <1>2, OthersOutside, CommandKeeps DEF Http
  <1>3. CASE Section /\ UNCHANGED gatewayVars
    BY <1>3, SectionKeeps
  <1>4. CASE (\E s \in Slots : run_channel(s)) /\ UNCHANGED gatewayVars
    BY <1>4, ThreadKeeps
  <1>5. CASE SamplerEnds /\ UNCHANGED gatewayVars
    BY <1>5, SamplerKeeps
  <1>6. CASE StopSignal \/ ReloadSignal
    BY <1>6, OthersOutside
  <1>7. CASE UNCHANGED vars
    <2>1. /\ UNCHANGED <<entries, thread, manager, sampler, lock, frame, reply>>
          /\ UNCHANGED <<pc, http, signals, local>>
      BY <1>7 DEF vars, managerVars, gatewayVars
    <2>2. TypeOK'
      BY <2>1 DEF IInv, TypeOK, ManagerTypeOK, GatewayTypeOK
    <2>3. Control'
      BY <2>1 DEF IInv, Control, FramePlace, Holder, HttpThere
    <2>4. Lifetime'
      BY <2>1 DEF IInv, Lifetime, Starting, Stopping, MainKnows, Quiet, AllJoined
    <2>5. SameEntries
      BY <2>1 DEF SameEntries
    <2> QED BY <2>1, <2>2, <2>3, <2>4, <2>5, CallerKeeps
  <1> QED BY <1>1, <1>2, <1>3, <1>4, <1>5, <1>6, <1>7 DEF Next

\* gatewayd keeps the inductive invariant, whatever calls, signals, failures and
\* threads interleave.
THEOREM GatewayInvariant == Spec => []IInv
  BY InitKeeps, NextKeeps, PTL DEF Spec

\* The manager, both threads and every frame are well typed; the bytes of a request
\* stay within the buffer and active_threads never goes below zero.
THEOREM GatewayTypes == Spec => []TypeOK
  <1>1. IInv => TypeOK
    BY DEF IInv
  <1> QED BY <1>1, GatewayInvariant, PTL

\* start_entry never meets an entry that has a thread, and no two entries in use
\* are of the same channel: a channel is never started twice.
THEOREM OneThreadPerChannel == Spec => []NeverStartedTwice
  <1>1. IInv => NeverStartedTwice
    <2> SUFFICES ASSUME IInv PROVE NeverStartedTwice
      OBVIOUS
    <2>1. frame.at \in {"prepare", "create"} => thread[frame.slot].at = "none"
      BY DEF IInv, Threading
    <2> QED BY <2>1 DEF IInv, Configuration, DistinctIds, NeverStartedTwice
  <1> QED BY <1>1, GatewayInvariant, PTL

\* active_threads is the number of supervisor threads that live, and the one that
\* start_entry is about to create.
THEOREM ThreadsCounted == Spec => []ActiveThreadsExact
  <1>1. IInv => ActiveThreadsExact
    BY DEF IInv
  <1> QED BY <1>1, GatewayInvariant, PTL

\* The snapshot of an entry in use is of its channel and its generation, and at
\* rest when there is no thread.
THEOREM SnapshotsCurrent == Spec => []SnapshotCurrent
  <1>1. IInv => SnapshotCurrent
    BY DEF IInv, Snapshooting, SnapshotOfEntry, SnapshotCurrent
  <1> QED BY <1>1, GatewayInvariant, PTL

\* Whenever the mutex is free, the entries in use are exactly the enabled channels
\* of the configuration in force.
THEOREM ReloadsComplete == Spec => []ConfigurationInForce
  <1>1. IInv => ConfigurationInForce
    <2> SUFFICES ASSUME IInv, lock = "free"
                 PROVE  {<<entries[s].channel, entries[s].globals>> :
                            s \in {t \in Slots : entries[t].occupied}}
                          = EnabledChannels(manager.config) \X {manager.config.globals}
      BY DEF ConfigurationInForce
    <2> DEFINE config == manager.config
               Used == {t \in Slots : entries[t].occupied}
    <2>1. InForce(entries, config) /\ Loaded(config) /\ config \in gw_config
      BY DEF IInv, Control, Holder, Configuration, TypeOK, ManagerTypeOK, Managers
    <2> HIDE DEF config
    <2>2. ASSUME NEW s \in Used
          PROVE  <<entries[s].channel, entries[s].globals>>
                    \in EnabledChannels(config) \X {config.globals}
      BY <2>1 DEF InForce, FromConfig
    <2>3. ASSUME NEW ch \in EnabledChannels(config)
          PROVE  \E s \in Used : entries[s].channel = ch /\ entries[s].globals = config.globals
      <3>1. PICK i \in 1 .. Len(config.channels) : config.channels[i].enabled
                                                   /\ ch = config.channels[i]
        BY DEF EnabledChannels
      <3>2. i <= Len(config.channels)
        <4>1. Len(config.channels) \in Nat
          BY <2>1, ChannelsType
        <4> QED BY <4>1
      <3>3. PICK s \in Slots : entries[s].occupied /\ entries[s].channel.id = ch.id
        BY <2>1, <3>1, <3>2 DEF InForce, HaveEntries
      <3>4. entries[s].channel \in EnabledChannels(config) /\ entries[s].globals = config.globals
        BY <2>1, <3>3 DEF InForce, FromConfig
      <3>5. PICK j \in 1 .. Len(config.channels) : entries[s].channel = config.channels[j]
        BY <3>4 DEF EnabledChannels
      <3>6. i = j
        BY <2>1, <3>1, <3>3, <3>5 DEF Loaded, gw_config_validate
      <3> QED BY <3>1, <3>3, <3>4, <3>5, <3>6
    <2> QED BY <2>2, <2>3 DEF config
  <1> QED BY <1>1, GatewayInvariant, PTL

\* When run_channels has returned there is no supervisor thread, no metrics thread,
\* no HTTP thread and no call left on the manager it freed.
THEOREM ExitIsOrderly == Spec => []OrderlyExit
  <1>1. IInv => OrderlyExit
    <2> SUFFICES ASSUME IInv, pc = "exited"
                 PROVE  /\ \A s \in Slots : thread[s].at = "none"
                        /\ sampler = "none" /\ http.at \in {"off", "ended"} /\ lock = "free"
      BY DEF OrderlyExit
    <2>1. /\ \A s \in Slots : thread[s].at = "none"
          /\ sampler = "none"
      BY DEF IInv, Lifetime, MainKnows, Quiet, AllJoined
    <2>2. http.at \in {"off", "ended"}
      BY DEF IInv, Control, HttpThere
    <2>3. lock = "free"
      BY <2>2 DEF IInv, TypeOK, ManagerTypeOK, Clients, Control, Holder
    <2> QED BY <2>1, <2>2, <2>3
  <1> QED BY <1>1, GatewayInvariant, PTL

\* Outside a reload no two workers publish to the same MediaMTX path.
THEOREM PathsExclusive == Spec => []PathExclusive
  <1>1. IInv => PathExclusive
    <2> SUFFICES ASSUME IInv, NEW s \in Slots, NEW t \in Slots, s # t,
                        thread[s].at = "busy", thread[t].at = "busy", frame.call # "reload"
                 PROVE  thread[s].channel.path # thread[t].channel.path
      BY DEF PathExclusive
    <2> DEFINE config == manager.config
    <2>1. InForce(entries, config) /\ Loaded(config)
      BY DEF IInv, Configuration
    <2>2. /\ entries[s].occupied /\ thread[s].channel = entries[s].channel
          /\ entries[t].occupied /\ thread[t].channel = entries[t].channel
      BY DEF IInv, Threading, ThreadOfEntry
    <2>3. entries[s].channel.id # entries[t].channel.id
      BY <2>2 DEF IInv, Configuration, DistinctIds
    <2> HIDE DEF config
    <2>4. PICK i \in 1 .. Len(config.channels) : entries[s].channel = config.channels[i]
      BY <2>1, <2>2 DEF InForce, FromConfig, EnabledChannels
    <2>5. PICK j \in 1 .. Len(config.channels) : entries[t].channel = config.channels[j]
      BY <2>1, <2>2 DEF InForce, FromConfig, EnabledChannels
    <2> QED BY <2>1, <2>2, <2>3, <2>4, <2>5 DEF Loaded, gw_config_validate
  <1> QED BY <1>1, GatewayInvariant, PTL
=============================================================================
