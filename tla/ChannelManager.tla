--------------------------- MODULE ChannelManager ---------------------------
(***************************************************************************)
(* The channel manager of src/channel/channel_manager.c: a table of        *)
(* entries, one supervisor thread per started entry, a lifecycle mutex     *)
(* that serialises start, reload, the three channel commands and wait, and *)
(* a stop request that takes no lock.                                      *)
(*                                                                         *)
(* A call that holds the lifecycle mutex is a small program: lock is its   *)
(* caller and frame the place it has reached (in which call, at which      *)
(* statement, on which entry).  A step is what happens between two moments *)
(* another thread can see: an atomic, the snapshot lock, a thread created  *)
(* or joined.  Gateway.tla makes the calls.                                *)
(*                                                                         *)
(* gw_supervisor_run is known here by the contract Supervisor.tla is shown *)
(* to implement (ChannelContract.tla), with the count of failures left out.*)
(***************************************************************************)
EXTENDS Integers, Sequences, FiniteSets

CONSTANTS GW_MAX_CHANNELS,  \* entries in the table, and channels in a configuration
          Ids, Paths,       \* channel ids and MediaMTX output paths
          Globals,          \* values of the settings all workers share
          NoChannel,        \* what an entry that was never configured holds
          OneShot,          \* exit_on_retry_exhaustion and stop_on_clean_exit
          CanFail           \* may pthread_create fail?

Channels == [id : Ids, path : Paths, enabled : BOOLEAN]
gw_config == [globals : Globals, channels : Seq(Channels)]

ASSUME ManagerAssumption ==
    /\ GW_MAX_CHANNELS \in Nat \ {0}
    /\ NoChannel \notin Channels
    /\ OneShot \in BOOLEAN /\ CanFail \in BOOLEAN

Slots == 1 .. GW_MAX_CHANNELS
Clients == {"main", "http"}

VARIABLES entries,   \* manager->entries
          thread,    \* the supervisor thread of each entry
          manager,   \* the other fields of the gw_channel_manager
          sampler,   \* the metrics thread
          lock,      \* who holds lifecycle_lock
          frame,     \* the progress of the call that holds it
          reply      \* what the last call of each client returned
managerVars == <<entries, thread, manager, sampler, lock, frame, reply>>

States == {"STOPPED", "STARTING", "RUNNING", "BACKOFF", "FAILED"}

Snapshots == [id : Ids, state : States, generation : Nat]

\* "begin": created; "idle", "busy": in gw_supervisor_run without and with a
\* worker; "returned": its result is stored; "leaving": thread_running is
\* cleared; "ended": active_threads is lowered and the thread can be joined.
ThreadStates == {"none", "begin", "idle", "busy", "returned", "leaving", "ended"}
Alive == ThreadStates \ {"none", "ended"}

\* channel and state are the supervisor's own copies.
Threads == [at : ThreadStates, channel : Channels \cup {NoChannel}, state : States]
NoThread == [at |-> "none", channel |-> NoChannel, state |-> "STOPPED"]

Entries == [occupied       : BOOLEAN,
            channel        : Channels \cup {NoChannel},   \* run_config
            globals        : Globals,
            generation     : Nat,
            thread_started : BOOLEAN,
            thread_running : BOOLEAN,
            stop_signal    : BOOLEAN,
            result         : {0, 1},
            snapshot       : Snapshots \cup {NoChannel}]

Managers == [config                 : gw_config,
             started                : BOOLEAN,
             stop_signal            : BOOLEAN,
             active_threads         : Nat,
             metrics_stop_requested : BOOLEAN,
             result                 : {0, 1}]

Calls == {"none", "start", "abort", "reload", "start_channel", "stop_channel",
          "restart_channel", "wait"}
Places == {"none", "slot", "join", "configure", "prepare", "create", "add", "check",
           "collect", "sampler", "leave"}
Statuses == {"none", "OK", "IO", "VALIDATION", "CONFLICT", "NOT_FOUND", "OVERFLOW"}

Frames == [call      : Calls,
           at        : Places,
           slot      : Nat,          \* the entry the call is at
           next      : Nat,          \* reload: the channel it adds next, 0 before
           candidate : gw_config,
           status    : Statuses]

ManagerTypeOK ==
    /\ entries \in [Slots -> Entries]
    /\ thread \in [Slots -> Threads]
    /\ manager \in Managers
    /\ sampler \in {"none", "running", "ended"}
    /\ lock \in Clients \cup {"free"}
    /\ frame \in Frames
    /\ reply \in [Clients -> Statuses]

-----------------------------------------------------------------------------
\* Configurations.

\* What gw_config_validate demands of the channels: of their number nothing, a list
\* without a channel is as good as any other.
gw_config_validate(config) ==
    LET channels == config.channels
    IN  \A i, j \in 1 .. Len(channels) :
           i # j => /\ channels[i].id # channels[j].id
                    /\ channels[i].path # channels[j].path

EnabledChannels(config) ==
    {config.channels[i] : i \in {j \in 1 .. Len(config.channels) : config.channels[j].enabled}}

find_enabled_channel(config, id) == {ch \in EnabledChannels(config) : ch.id = id}

find_entry(id) == {s \in Slots : entries[s].occupied /\ entries[s].channel.id = id}

FreeEntries == {s \in Slots : ~ entries[s].occupied}
find_free_entry == CHOOSE s \in FreeEntries : \A t \in FreeEntries : s <= t

\* A wrong configure_entry: the published snapshot is left as it was.
configure_entry_unpublished(entry, channel, config) ==
    [entry EXCEPT
        !.occupied    = TRUE,
        !.channel     = channel,
        !.globals     = config.globals,
        !.generation  = (IF entry.occupied THEN @ ELSE 0) + 1,
        !.stop_signal = FALSE,
        !.result      = 0,
        !.snapshot    = IF entry.snapshot # NoChannel THEN @
                        ELSE [id |-> channel.id, state |-> "STOPPED", generation |-> 1]]

configure_entry(entry, channel, config) ==
    LET generation == (IF entry.occupied THEN entry.generation ELSE 0) + 1
    IN  [entry EXCEPT
            !.occupied    = TRUE,
            !.channel     = channel,
            !.globals     = config.globals,
            !.generation  = generation,
            !.stop_signal = FALSE,
            !.result      = 0,
            !.snapshot    = [id |-> channel.id, state |-> "STOPPED",
                             generation |-> generation]]

-----------------------------------------------------------------------------
\* gw_channel_manager_create: one after the other the enabled channels get the
\* first free entry, which is their place among the enabled channels.

Blank(config) ==
    [occupied |-> FALSE, channel |-> NoChannel, globals |-> config.globals,
     generation |-> 0, thread_started |-> FALSE, thread_running |-> FALSE,
     stop_signal |-> FALSE, result |-> 0, snapshot |-> NoChannel]

NoFrame(config) ==
    [call |-> "none", at |-> "none", slot |-> 1, next |-> 0, candidate |-> config,
     status |-> "none"]

\* create gives the enabled channels the free entries in the order of the file: the
\* entry of channel i is the number of enabled channels up to it.
Place(config, i) == Cardinality({j \in 1 .. i : config.channels[j].enabled})

PlacedAt(config, s) ==
    {i \in 1 .. Len(config.channels) :
        config.channels[i].enabled /\ Place(config, i) = s}

FirstEntry(config, s) ==
    IF PlacedAt(config, s) = {} THEN Blank(config)
    ELSE LET i == CHOOSE i \in PlacedAt(config, s) : TRUE
         IN  configure_entry(Blank(config), config.channels[i], config)

gw_channel_manager_create(config) ==
    /\ gw_config_validate(config) /\ EnabledChannels(config) # {}
    /\ entries = [s \in Slots |-> FirstEntry(config, s)]
    /\ thread = [s \in Slots |-> NoThread]
    /\ manager = [config |-> config, started |-> FALSE, stop_signal |-> FALSE,
                  active_threads |-> 0, metrics_stop_requested |-> FALSE,
                  result |-> 0]
    /\ sampler = "none"
    /\ lock = "free"
    /\ frame = NoFrame(config)
    /\ reply = [c \in Clients |-> "none"]

-----------------------------------------------------------------------------
\* The lifecycle mutex.

Enter(c, f) ==
    /\ lock = "free" /\ lock' = c
    /\ frame' = f
    /\ reply' = [reply EXCEPT ![c] = "none"]

\* A call that is refused takes the mutex and gives it back at once.
Refuse(c, status) ==
    /\ lock = "free" /\ UNCHANGED <<lock, frame>>
    /\ reply' = [reply EXCEPT ![c] = status]
    /\ UNCHANGED <<entries, thread, manager, sampler>>

Leave ==
    /\ frame.at = "leave"
    /\ lock' = "free"
    /\ frame' = NoFrame(manager.config)
    /\ reply' = [reply EXCEPT ![lock] = frame.status]
    /\ UNCHANGED <<entries, thread, manager, sampler>>

Frame(call) == [NoFrame(manager.config) EXCEPT !.call = call, !.status = "OK"]

GoOn(label) == frame' = [frame EXCEPT !.at = label]
NextSlot == [frame EXCEPT !.at = "slot", !.slot = @ + 1]
Here == entries[frame.slot]
LoopDone == frame.slot > GW_MAX_CHANNELS

Stay == UNCHANGED <<lock, reply>>

-----------------------------------------------------------------------------
\* start_entry, in two steps, and stop_entry with the pthread_join that every
\* other user of it shares.

\* Where a call goes when start_entry is done with the entry.
AfterCreate(f) ==
    CASE f.call = "start" ->
           IF f.status = "OK" THEN [f EXCEPT !.at = "slot", !.slot = @ + 1]
           ELSE [f EXCEPT !.call = "abort", !.at = "slot", !.slot = 1]
      [] f.call = "reload" ->
           IF f.next = 0 THEN [f EXCEPT !.at = "slot", !.slot = @ + 1]
           ELSE [f EXCEPT !.at = "add", !.next = @ + 1]
      [] OTHER -> [f EXCEPT !.at = "leave"]

PrepareEntry ==
    /\ frame.at = "prepare"
    /\ entries' = [entries EXCEPT ![frame.slot].result = 0,
                                  ![frame.slot].stop_signal = FALSE,
                                  ![frame.slot].thread_running = TRUE]
    /\ manager' = [manager EXCEPT !.active_threads = @ + 1]
    /\ GoOn("create")
    /\ Stay /\ UNCHANGED <<thread, sampler>>

CreateSucceeds ==
    /\ frame.at = "create"
    /\ thread' = [thread EXCEPT ![frame.slot] = [NoThread EXCEPT !.at = "begin"]]
    /\ entries' = [entries EXCEPT ![frame.slot].thread_started = TRUE]
    /\ frame' = AfterCreate(frame)
    /\ Stay /\ UNCHANGED <<manager, sampler>>

\* A wrong CreateFails: a thread that does not exist stays counted.
CreateFailsCounted ==
    /\ frame.at = "create" /\ CanFail
    /\ entries' = [entries EXCEPT ![frame.slot].thread_running = FALSE]
    /\ manager' = [manager EXCEPT
                      !.stop_signal = @ \/ frame.call = "start",
                      !.metrics_stop_requested = @ \/ frame.call = "start"]
    /\ frame' = AfterCreate([frame EXCEPT !.status = "IO"])
    /\ Stay /\ UNCHANGED <<thread, sampler>>

\* gw_channel_manager_start gives up at the first failure and requests a stop.
CreateFails ==
    /\ frame.at = "create" /\ CanFail
    /\ entries' = [entries EXCEPT ![frame.slot].thread_running = FALSE]
    /\ manager' = [manager EXCEPT
                      !.active_threads = @ - 1,
                      !.stop_signal = @ \/ frame.call = "start",
                      !.metrics_stop_requested = @ \/ frame.call = "start"]
    /\ frame' = AfterCreate([frame EXCEPT !.status = "IO"])
    /\ Stay /\ UNCHANGED <<thread, sampler>>

\* A wrong StopEntry: the thread is told to stop and not waited for.
StopEntryNoJoin(s, after) ==
    /\ entries' = [entries EXCEPT ![s].stop_signal = entries[s].thread_started,
                                  ![s].thread_started = FALSE]
    /\ frame' = [after EXCEPT !.slot = s]

\* stop_entry up to the join, in a call that continues with frame after.
StopEntry(s, after) ==
    IF entries[s].thread_started
    THEN /\ entries' = [entries EXCEPT ![s].stop_signal = TRUE]
         /\ frame' = [after EXCEPT !.slot = s, !.at = "join"]
    ELSE /\ UNCHANGED entries
         /\ frame' = [after EXCEPT !.slot = s]

\* Where a call goes after the join.
AfterJoin(f) ==
    CASE f.call = "reload"          -> [f EXCEPT !.at = "configure"]
      [] f.call = "wait"            -> [f EXCEPT !.at = "collect"]
      [] f.call = "abort"           -> [f EXCEPT !.at = "slot", !.slot = @ + 1]
      [] f.call = "start_channel"   -> [f EXCEPT !.at = "check"]
      [] f.call = "restart_channel" -> [f EXCEPT !.at = "prepare"]
      [] OTHER                      -> [f EXCEPT !.at = "leave"]

Join ==
    /\ frame.at = "join" /\ thread[frame.slot].at = "ended"
    /\ thread' = [thread EXCEPT ![frame.slot] = NoThread]
    /\ entries' = [entries EXCEPT ![frame.slot].thread_started = FALSE]
    /\ frame' = AfterJoin(frame)
    /\ Stay /\ UNCHANGED <<manager, sampler>>

-----------------------------------------------------------------------------
\* gw_channel_manager_start.

gw_channel_manager_start(c) ==
    IF manager.started THEN Refuse(c, "VALIDATION")
    ELSE /\ Enter(c, [Frame("start") EXCEPT !.at = "slot"])
         /\ manager' = [manager EXCEPT !.started = TRUE, !.metrics_stop_requested = FALSE]
         /\ UNCHANGED <<entries, thread, sampler>>

StartSlot ==
    /\ frame.call = "start" /\ frame.at = "slot"
    /\ frame' = IF LoopDone THEN [frame EXCEPT !.at = "sampler"]
                ELSE IF Here.occupied THEN [frame EXCEPT !.at = "prepare"]
                ELSE NextSlot
    /\ Stay /\ UNCHANGED <<entries, thread, manager, sampler>>

\* When the metrics thread cannot be created everything is stopped again; the code
\* clears started after that, which only callers that wait for the lock, and the main
\* thread after this call, could tell.
StartSampler ==
    /\ frame.call = "start" /\ frame.at = "sampler"
    /\ \/ /\ sampler' = "running"
          /\ GoOn("leave")
          /\ UNCHANGED manager
       \/ /\ CanFail
          /\ manager' = [manager EXCEPT !.stop_signal = TRUE, !.started = FALSE,
                                        !.metrics_stop_requested = TRUE]
          /\ frame' = [frame EXCEPT !.call = "abort", !.at = "slot", !.slot = 1,
                                    !.status = "IO"]
          /\ UNCHANGED sampler
    /\ Stay /\ UNCHANGED <<entries, thread>>

\* stop_entry is called for every entry of the table: those that have a thread are
\* stopped again, the one whose thread could not be created and those after it are
\* passed over.
AbortSlot ==
    /\ frame.call = "abort" /\ frame.at = "slot"
    /\ \/ LoopDone /\ GoOn("leave") /\ UNCHANGED entries
       \/ ~ LoopDone /\ Here.thread_started /\ StopEntry(frame.slot, frame)
       \/ ~ LoopDone /\ ~ Here.thread_started /\ frame' = NextSlot /\ UNCHANGED entries
    /\ Stay /\ UNCHANGED <<thread, manager, sampler>>

-----------------------------------------------------------------------------
\* gw_channel_manager_reload.

Available == manager.started /\ ~ manager.stop_signal

gw_channel_manager_reload(c, candidate) ==
    IF ~ Available \/ ~ gw_config_validate(candidate) THEN Refuse(c, "VALIDATION")
    ELSE /\ Enter(c, [Frame("reload") EXCEPT !.at = "slot", !.candidate = candidate])
         /\ UNCHANGED <<entries, thread, manager, sampler>>

\* A wrong Unchanged: a channel that is still in the file is taken for unchanged.
UnchangedId(entry, candidate) == find_enabled_channel(candidate, entry.channel.id) # {}

\* worker_globals_equal and channel_config_equal.
Unchanged(entry, candidate) ==
    /\ manager.config.globals = candidate.globals
    /\ entry.channel \in EnabledChannels(candidate)

\* The first loop keeps, stops or replaces the entries in use, one by one ...
ReloadSlot ==
    /\ frame.call = "reload" /\ frame.at = "slot"
    /\ IF LoopDone
       THEN frame' = [frame EXCEPT !.at = "add", !.next = 1] /\ UNCHANGED entries
       ELSE IF ~ Here.occupied \/ Unchanged(Here, frame.candidate)
       THEN frame' = NextSlot /\ UNCHANGED entries
       ELSE StopEntry(frame.slot, [frame EXCEPT !.at = "configure"])
    /\ Stay /\ UNCHANGED <<thread, manager, sampler>>

ReloadConfigure ==
    /\ frame.call = "reload" /\ frame.at = "configure"
    /\ LET replacement == find_enabled_channel(frame.candidate, Here.channel.id)
       IN  IF replacement = {}
           THEN /\ entries' = [entries EXCEPT ![frame.slot].occupied = FALSE]
                /\ frame' = NextSlot
           ELSE \E ch \in replacement :
                /\ entries' = [entries EXCEPT
                                  ![frame.slot] = configure_entry(@, ch, frame.candidate)]
                /\ GoOn("prepare")
    /\ Stay /\ UNCHANGED <<thread, manager, sampler>>

\* ... the second adds the channels that have no entry yet, and then the
\* candidate is the configuration, whatever start_entry said.
ReloadAdd ==
    /\ frame.call = "reload" /\ frame.at = "add" /\ frame.next <= Len(frame.candidate.channels)
    /\ LET channel == frame.candidate.channels[frame.next]
       IN  IF ~ channel.enabled \/ find_entry(channel.id) # {}
           THEN /\ frame' = [frame EXCEPT !.next = @ + 1]
                /\ UNCHANGED entries
           ELSE IF FreeEntries = {}
           THEN /\ frame' = [frame EXCEPT !.next = Len(frame.candidate.channels) + 1,
                                          !.status = "OVERFLOW"]
                /\ UNCHANGED entries
           ELSE /\ entries' = [entries EXCEPT ![find_free_entry] =
                                  configure_entry(@, channel, frame.candidate)]
                /\ frame' = [frame EXCEPT !.slot = find_free_entry, !.at = "prepare"]
    /\ Stay /\ UNCHANGED <<thread, manager, sampler>>

ReloadCommit ==
    /\ frame.call = "reload" /\ frame.at = "add" /\ frame.next > Len(frame.candidate.channels)
    /\ manager' = [manager EXCEPT !.config = frame.candidate]
    /\ GoOn("leave")
    /\ Stay /\ UNCHANGED <<entries, thread, sampler>>

-----------------------------------------------------------------------------
\* The commands on one channel; command_entry comes first in all three.

command_entry(id) ==
    IF ~ Available THEN "CONFLICT" ELSE IF find_entry(id) = {} THEN "NOT_FOUND" ELSE "OK"

Command(c, id, Body(_)) ==
    IF command_entry(id) # "OK" THEN Refuse(c, command_entry(id))
    ELSE /\ lock = "free" /\ lock' = c
         /\ reply' = [reply EXCEPT ![c] = "none"]
         /\ \E s \in find_entry(id) : Body(s)
         /\ UNCHANGED <<thread, manager, sampler>>

\* A thread that is done is collected before the state is looked at.
StartChannel(s) ==
    /\ frame' = [Frame("start_channel") EXCEPT
                    !.slot = s,
                    !.at = IF entries[s].thread_started /\ ~ entries[s].thread_running
                           THEN "join" ELSE "check"]
    /\ UNCHANGED entries

gw_channel_manager_start_channel(c, id) == Command(c, id, StartChannel)

\* A wrong CheckChannel: an active thread is not noticed.
CheckChannelHasty ==
    /\ frame.at = "check"
    /\ GoOn("prepare")
    /\ Stay /\ UNCHANGED <<entries, thread, manager, sampler>>

CheckChannel ==
    /\ frame.at = "check"
    /\ frame' = IF ~ Here.thread_started /\ Here.snapshot.state \in {"STOPPED", "FAILED"}
                THEN [frame EXCEPT !.at = "prepare"]
                ELSE [frame EXCEPT !.at = "leave", !.status = "CONFLICT"]
    /\ Stay /\ UNCHANGED <<entries, thread, manager, sampler>>

\* A channel that is not active is a conflict; a finished thread is collected.
StopChannel(s) ==
    IF entries[s].thread_started /\ entries[s].thread_running
    THEN StopEntry(s, [Frame("stop_channel") EXCEPT !.at = "leave"])
    ELSE /\ frame' = [Frame("stop_channel") EXCEPT
                         !.slot = s, !.status = "CONFLICT",
                         !.at = IF entries[s].thread_started THEN "join" ELSE "leave"]
         /\ UNCHANGED entries

gw_channel_manager_stop_channel(c, id) == Command(c, id, StopChannel)

RestartChannel(s) == StopEntry(s, [Frame("restart_channel") EXCEPT !.at = "prepare"])

gw_channel_manager_restart_channel(c, id) == Command(c, id, RestartChannel)

-----------------------------------------------------------------------------
\* Stopping everything.

\* gw_channel_manager_request_stop, which takes no lock, on manager m.
StopRequested(m) == [m EXCEPT !.stop_signal = TRUE, !.metrics_stop_requested = TRUE]

gw_channel_manager_is_finished == manager.started /\ manager.active_threads = 0

gw_channel_manager_wait(c) ==
    IF ~ manager.started THEN Refuse(c, "VALIDATION")
    ELSE /\ Enter(c, [Frame("wait") EXCEPT !.at = "slot"])
         /\ manager' = [manager EXCEPT !.result = 0]
         /\ UNCHANGED <<entries, thread, sampler>>

\* A wrong WaitSlot: a thread that is about to end is not joined.
WaitSlotRunning ==
    /\ frame.call = "wait" /\ frame.at = "slot"
    /\ IF LoopDone
       THEN /\ manager' = [manager EXCEPT !.metrics_stop_requested = TRUE]
            /\ GoOn("sampler")
       ELSE /\ GoOn(IF Here.occupied /\ Here.thread_running THEN "join" ELSE "collect")
            /\ UNCHANGED manager
    /\ Stay /\ UNCHANGED <<entries, thread, sampler>>

WaitSlot ==
    /\ frame.call = "wait" /\ frame.at = "slot"
    /\ IF LoopDone
       THEN /\ manager' = [manager EXCEPT !.metrics_stop_requested = TRUE]
            /\ GoOn("sampler")
       ELSE /\ GoOn(IF Here.occupied /\ Here.thread_started THEN "join" ELSE "collect")
            /\ UNCHANGED manager
    /\ Stay /\ UNCHANGED <<entries, thread, sampler>>

WaitCollect ==
    /\ frame.at = "collect"
    /\ manager' = [manager EXCEPT !.result = IF Here.occupied /\ Here.result # 0 THEN 1 ELSE @]
    /\ frame' = NextSlot
    /\ Stay /\ UNCHANGED <<entries, thread, sampler>>

WaitSampler ==
    /\ frame.call = "wait" /\ frame.at = "sampler" /\ sampler \in {"none", "ended"}
    /\ sampler' = "none"
    /\ GoOn("leave")
    /\ Stay /\ UNCHANGED <<entries, thread, manager>>

\* The call that holds lifecycle_lock goes on.
Section ==
    \/ PrepareEntry \/ CreateSucceeds \/ CreateFails \/ Join \/ Leave
    \/ StartSlot \/ StartSampler \/ AbortSlot
    \/ ReloadSlot \/ ReloadConfigure \/ ReloadAdd \/ ReloadCommit
    \/ CheckChannel
    \/ WaitSlot \/ WaitCollect \/ WaitSampler

-----------------------------------------------------------------------------
\* run_channel, with gw_supervisor_run by its contract.

\* A wrong Asked: only the entry's own stop signal is looked at.
AskedAlone(s) == entries[s].stop_signal

\* entry_stop_requested.
Asked(s) == entries[s].stop_signal \/ manager.stop_signal

\* manager_observe: the supervisor's snapshot, stamped with the generation of the
\* entry, on its way to place at and with the result it has so far.
Publish(s, at, state, result) ==
    /\ thread' = [thread EXCEPT ![s].at = at, ![s].state = state]
    /\ entries' = [entries EXCEPT
                      ![s].result = result,
                      ![s].snapshot = [id |-> thread[s].channel.id, state |-> state,
                                       generation |-> entries[s].generation]]

Goes(s, at) == thread' = [thread EXCEPT ![s].at = at]
ThreadOnly == UNCHANGED <<manager, sampler, lock, frame, reply>>

\* gw_supervisor_run takes its copy of the channel and publishes STARTING.
ThreadBegins(s) ==
    /\ thread[s].at = "begin"
    /\ thread' = [thread EXCEPT ![s] = [at |-> "idle", channel |-> entries[s].channel,
                                        state |-> "STARTING"]]
    /\ entries' = [entries EXCEPT ![s].snapshot =
                      [id |-> entries[s].channel.id, state |-> "STARTING",
                       generation |-> entries[s].generation]]
    /\ ThreadOnly

SpawnsWorker(s) ==
    /\ thread[s].at = "idle" /\ thread[s].state = "STARTING"
    /\ Goes(s, "busy")
    /\ ThreadOnly /\ UNCHANGED entries

WorkerGone(s) ==
    /\ thread[s].at = "busy"
    /\ Goes(s, "idle")
    /\ ThreadOnly /\ UNCHANGED entries

ReportsProgress(s) ==
    /\ thread[s].at \in {"idle", "busy"} /\ thread[s].state = "STARTING"
    /\ Publish(s, thread[s].at, "RUNNING", 0)
    /\ ThreadOnly

\* A failure; a one-shot run that has no retries left ends with it.
Fails(s) ==
    /\ thread[s].at = "idle" /\ thread[s].state \in {"STARTING", "RUNNING"}
    /\ \/ \E state \in {"BACKOFF", "FAILED"} : Publish(s, "idle", state, 0)
       \/ OneShot /\ Publish(s, "returned", "FAILED", 1)
    /\ ThreadOnly

Retries(s) ==
    /\ thread[s].at = "idle" /\ thread[s].state \in {"BACKOFF", "FAILED"}
    /\ Publish(s, "idle", "STARTING", 0)
    /\ ThreadOnly

\* A stop that was asked for, a clean exit, or a clock that failed in a backoff.
Stops(s) ==
    /\ thread[s].at = "idle"
    /\ Publish(s, "returned", "STOPPED", 0)
    /\ ThreadOnly

ThreadRunningCleared(s) ==
    /\ thread[s].at = "returned"
    /\ Goes(s, "leaving")
    /\ entries' = [entries EXCEPT ![s].thread_running = FALSE]
    /\ ThreadOnly

ActiveThreadsLowered(s) ==
    /\ thread[s].at = "leaving"
    /\ Goes(s, "ended")
    /\ manager' = [manager EXCEPT !.active_threads = @ - 1]
    /\ UNCHANGED <<entries, sampler, lock, frame, reply>>

run_channel(s) ==
    \/ ThreadBegins(s) \/ SpawnsWorker(s) \/ WorkerGone(s) \/ ReportsProgress(s)
    \/ Fails(s) \/ Retries(s) \/ Stops(s)
    \/ ThreadRunningCleared(s) \/ ActiveThreadsLowered(s)

SamplerEnds ==
    /\ sampler = "running" /\ manager.metrics_stop_requested
    /\ sampler' = "ended"
    /\ UNCHANGED <<entries, thread, manager, lock, frame, reply>>
=============================================================================
