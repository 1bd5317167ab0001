------------------------------ MODULE Gateway -------------------------------
(***************************************************************************)
(* gatewayd: the main thread of src/main.c and the HTTP thread of          *)
(* src/api/http_server.c call one channel manager.  The main thread starts *)
(* it, reads control signals, reloads, and shuts everything down; the HTTP *)
(* thread serves one connection after the other and issues the channel     *)
(* commands.                                                               *)
(***************************************************************************)
EXTENDS ChannelManager

CONSTANTS Configs,         \* what the configuration file may hold when it is read
          MaxGeneration,   \* bound: no reload once an entry has this generation
          HTTP_REQUEST_CAP \* the bytes a request may have

ASSUME GatewayAssumption ==
    /\ Configs \subseteq gw_config
    /\ MaxGeneration \in Nat
    /\ HTTP_REQUEST_CAP \in Nat \ {0}

VARIABLES pc,        \* the main thread, in run_channels
          http,      \* the HTTP thread
          signals,   \* control signals waiting in the signalfd
          local      \* locals of run_channels
gatewayVars == <<pc, http, signals, local>>
vars == <<managerVars, gatewayVars>>

GatewayTypeOK ==
    /\ pc \in {"boot", "booting", "serve", "loop", "act", "reload", "reloading",
               "shutdown", "wait", "waiting", "destroy", "rewait", "rewaiting", "exited"}
    /\ http \in [at : {"off", "check", "poll", "recv", "command", "busy", "send", "ended"},
                 used : 0 .. HTTP_REQUEST_CAP - 1,
                 stop_requested : BOOLEAN]
    /\ signals \in SUBSET {"STOP", "HUP"}
    /\ local \in [requested_stop : BOOLEAN, requested_reload : BOOLEAN, finished : BOOLEAN]

TypeOK == ManagerTypeOK /\ GatewayTypeOK

\* parse_document takes no more channels than the table holds ...
parse_document(config) == Len(config.channels) <= GW_MAX_CHANNELS

\* ... and what it read is validated: the configurations a load can return.
gw_config_load_file == {config \in Configs : parse_document(config) /\ gw_config_validate(config)}

Init ==
    /\ \E config \in gw_config_load_file : gw_channel_manager_create(config)
    /\ pc = "boot"
    /\ http = [at |-> "off", used |-> 0, stop_requested |-> FALSE]
    /\ signals = {}
    /\ local = [requested_stop |-> FALSE, requested_reload |-> FALSE, finished |-> FALSE]

-----------------------------------------------------------------------------
\* The main thread.

MainGoes(from, to) == pc = from /\ pc' = to

Boot ==
    /\ MainGoes("boot", "booting")
    /\ gw_channel_manager_start("main")
    /\ UNCHANGED <<http, signals, local>>

\* The call a client has made is over, and its answer is taken.
Returned(c) ==
    /\ lock # c
    /\ reply' = [reply EXCEPT ![c] = "none"]
    /\ UNCHANGED <<entries, thread, manager, sampler, lock, frame>>

Booted ==
    /\ pc = "booting" /\ Returned("main")
    /\ pc' = IF reply["main"] = "OK" THEN "serve" ELSE "destroy"
    /\ UNCHANGED <<http, signals, local>>

\* The listener is bound, and then there is a thread that serves it.
gw_http_server_start ==
    http' = [http EXCEPT !.at = "check", !.stop_requested = FALSE]

\* The HTTP server, if it is enabled, is created and started.
Serve ==
    /\ pc = "serve"
    /\ \/ /\ pc' = "loop"
          /\ gw_http_server_start \/ UNCHANGED http
          /\ UNCHANGED manager
       \/ /\ CanFail /\ pc' = "wait"
          /\ manager' = StopRequested(manager)
          /\ UNCHANGED http
    /\ UNCHANGED <<signals, local, entries, thread, sampler, lock, frame, reply>>

\* The loop samples is_finished before it reads the signals ...
Sample ==
    /\ MainGoes("loop", "act")
    /\ local' = [local EXCEPT !.finished = gw_channel_manager_is_finished]
    /\ UNCHANGED <<http, signals, managerVars>>

\* ... and takes all that wait (a descriptor that cannot be read is a stop).
read_control_signals(stop, reload) ==
    /\ \/ stop = (local.requested_stop \/ "STOP" \in signals)
       \/ CanFail /\ stop = TRUE
    /\ reload = (local.requested_reload \/ "HUP" \in signals)

ActStop ==
    /\ pc = "act"
    /\ \E reload \in BOOLEAN :
          /\ read_control_signals(TRUE, reload)
          /\ local' = [local EXCEPT !.requested_stop = TRUE, !.requested_reload = reload,
                                    !.finished = FALSE]
    /\ signals' = {}
    /\ manager' = StopRequested(manager)
    /\ pc' = IF local.finished THEN "shutdown" ELSE "loop"
    /\ UNCHANGED <<http, entries, thread, sampler, lock, frame, reply>>

\* The configuration file is loaded.  It is rejected (it cannot be loaded, or it
\* changes the server or the recording), or the manager reloads it.
ActReload ==
    /\ pc = "act" /\ read_control_signals(FALSE, TRUE)
    /\ signals' = {}
    /\ local' = [local EXCEPT !.requested_reload = FALSE, !.finished = FALSE]
    /\ pc' \in {"loop", "reload"}
    /\ UNCHANGED <<http, managerVars>>

Reload ==
    /\ MainGoes("reload", "reloading")
    /\ \E candidate \in gw_config_load_file : gw_channel_manager_reload("main", candidate)
    /\ UNCHANGED <<http, signals, local>>

Reloaded ==
    /\ MainGoes("reloading", "loop") /\ Returned("main")
    /\ UNCHANGED <<http, signals, local>>

ActIdle ==
    /\ pc = "act" /\ read_control_signals(FALSE, FALSE)
    /\ pc' = IF OneShot /\ local.finished THEN "shutdown" ELSE "loop"
    /\ local' = [local EXCEPT !.finished = FALSE]
    /\ UNCHANGED <<http, signals, managerVars>>

\* gw_http_server_stop sets the flag and joins the HTTP thread ...
StopHttp ==
    /\ pc = "shutdown" /\ http.at # "off" /\ ~ http.stop_requested
    /\ http' = [http EXCEPT !.stop_requested = TRUE]
    /\ UNCHANGED <<pc, signals, local, managerVars>>

JoinHttp ==
    /\ MainGoes("shutdown", "wait")
    /\ http.at = "off" \/ (http.stop_requested /\ http.at = "ended")
    /\ UNCHANGED <<http, signals, local, managerVars>>

\* ... then every supervisor thread is joined, and the manager destroyed.
Wait ==
    /\ MainGoes("wait", "waiting")
    /\ gw_channel_manager_wait("main")
    /\ UNCHANGED <<http, signals, local>>

Waited ==
    /\ MainGoes("waiting", "destroy") /\ Returned("main")
    /\ UNCHANGED <<http, signals, local>>

gw_channel_manager_destroy ==
    /\ pc = "destroy"
    /\ pc' = IF manager.started THEN "rewait" ELSE "exited"
    /\ manager' = IF manager.started /\ ~ gw_channel_manager_is_finished
                  THEN StopRequested(manager) ELSE manager
    /\ UNCHANGED <<http, signals, local, entries, thread, sampler, lock, frame, reply>>

Rewait ==
    /\ MainGoes("rewait", "rewaiting")
    /\ gw_channel_manager_wait("main")
    /\ UNCHANGED <<http, signals, local>>

Exit ==
    /\ MainGoes("rewaiting", "exited") /\ Returned("main")
    /\ UNCHANGED <<http, signals, local>>

Main ==
    \/ Boot \/ Booted \/ Serve \/ Sample \/ ActStop \/ ActReload \/ Reload \/ Reloaded
    \/ ActIdle \/ StopHttp \/ JoinHttp \/ Wait \/ Waited
    \/ gw_channel_manager_destroy \/ Rewait \/ Exit

-----------------------------------------------------------------------------
\* The HTTP thread.

HttpGoes(from, to) == http.at = from /\ http' = [http EXCEPT !.at = to]

HttpCheck ==
    /\ HttpGoes("check", IF http.stop_requested THEN "ended" ELSE "poll")
    /\ UNCHANGED <<pc, signals, local, managerVars>>

\* Nothing to do (or a connection that is gone again), or a connection to handle.
HttpPoll ==
    /\ \/ HttpGoes("poll", "check")
       \/ HttpGoes("poll", "recv")
       \/ CanFail /\ HttpGoes("poll", "ended")
    /\ UNCHANGED <<pc, signals, local, managerVars>>

\* A wrong Receives: a full buffer is used from the start again.
ReceivesAround(n) ==
    /\ http.at = "recv"
    /\ http' = [http EXCEPT !.used = (@ + n) % HTTP_REQUEST_CAP]

\* handle_connection, one recv: bytes that do not end the headers ...
Receives(n) ==
    /\ http.at = "recv" /\ http.used + n < HTTP_REQUEST_CAP
    /\ http' = [http EXCEPT !.used = @ + n]

\* ... bytes that end them, with a command to carry out or with a request that is
\* answered from the snapshots, unknown or malformed; bytes that leave no room for
\* the rest of the headers (431); no bytes, because the client closed, the
\* connection broke or two seconds passed (400).
RequestEnds ==
    /\ http.at = "recv"
    /\ http' \in {[http EXCEPT !.at = to, !.used = 0] : to \in {"command", "send"}}

HttpRecv ==
    /\ RequestEnds \/ \E n \in 1 .. HTTP_REQUEST_CAP : Receives(n)
    /\ UNCHANGED <<pc, signals, local, managerVars>>

gw_http_route ==
    /\ HttpGoes("command", "busy")
    /\ \E id \in Ids : \/ gw_channel_manager_start_channel("http", id)
                       \/ gw_channel_manager_stop_channel("http", id)
                       \/ gw_channel_manager_restart_channel("http", id)
    /\ UNCHANGED <<pc, signals, local>>

HttpCommanded ==
    /\ HttpGoes("busy", "send") /\ Returned("http")
    /\ UNCHANGED <<pc, signals, local>>

\* The response goes out, or the client does not take it within two seconds; the
\* connection is closed.
HttpSend ==
    /\ HttpGoes("send", "check")
    /\ UNCHANGED <<pc, signals, local, managerVars>>

Http == HttpCheck \/ HttpPoll \/ HttpRecv \/ gw_http_route \/ HttpCommanded \/ HttpSend

-----------------------------------------------------------------------------
\* Someone sends gatewayd a signal.
StopSignal ==
    /\ signals' = signals \cup {"STOP"}
    /\ UNCHANGED <<pc, http, local, managerVars>>

ReloadSignal ==
    /\ \A s \in Slots : entries[s].generation < MaxGeneration
    /\ signals' = signals \cup {"HUP"}
    /\ UNCHANGED <<pc, http, local, managerVars>>

Next ==
    \/ Main
    \/ Http
    \/ (Section \/ (\E s \in Slots : run_channel(s)) \/ SamplerEnds) /\ UNCHANGED gatewayVars
    \/ StopSignal
    \/ ReloadSignal

Spec == Init /\ [][Next]_vars

\* Threads are scheduled and a mutex that is free again and again is taken in the
\* end.  Of a supervisor thread only what Supervisor.tla shows (StopAnswered) is
\* assumed: asked to stop, its worker goes and gw_supervisor_run returns.
ThreadFairness(s) ==
    /\ WF_vars(ThreadBegins(s) /\ UNCHANGED gatewayVars)
    /\ WF_vars(Asked(s) /\ WorkerGone(s) /\ UNCHANGED gatewayVars)
    /\ SF_vars(Asked(s) /\ Stops(s) /\ UNCHANGED gatewayVars)
    /\ WF_vars((ThreadRunningCleared(s) \/ ActiveThreadsLowered(s)) /\ UNCHANGED gatewayVars)

Fairness ==
    /\ WF_vars(Main) /\ SF_vars(Reload)
    /\ WF_vars(Http) /\ SF_vars(gw_http_route)
    /\ WF_vars(Section /\ UNCHANGED gatewayVars)
    /\ WF_vars(SamplerEnds /\ UNCHANGED gatewayVars)
    /\ \A s \in Slots : ThreadFairness(s)

FairSpec == Spec /\ Fairness

-----------------------------------------------------------------------------
\* "The same channel is not started twice concurrently": whoever is about to
\* create the thread of an entry finds that it has none, running or not yet
\* joined, and no two entries in use have the same channel id.
NeverStartedTwice ==
    /\ frame.at \in {"prepare", "create"} => thread[frame.slot].at = "none"
    /\ \A s, t \in Slots :
          s # t /\ entries[s].occupied /\ entries[t].occupied
             => entries[s].channel.id # entries[t].channel.id

\* active_threads, which run_channel lowers without a lock, counts the threads
\* that live and the one being created: is_finished is never true too early.
ActiveThreadsExact ==
    manager.active_threads =
       Cardinality({s \in Slots : thread[s].at \in Alive})
          + (IF frame.at = "create" THEN 1 ELSE 0)

\* What HTTP clients read is of the channel and the configuration generation the
\* entry has now, never a late publication of the thread before; and a channel
\* without a thread is shown in a state the start command accepts.
SnapshotCurrent ==
    \A s \in Slots : entries[s].occupied =>
       /\ entries[s].snapshot.id = entries[s].channel.id
       /\ entries[s].snapshot.generation = entries[s].generation
       /\ thread[s].at \in {"none", "ended"} =>
             entries[s].snapshot.state \in {"STOPPED", "FAILED"}

\* Between calls the entries in use are the enabled channels of the configuration
\* in force with its shared settings, however many reloads and failures it took.
ConfigurationInForce ==
    lock = "free" =>
       {<<entries[s].channel, entries[s].globals>> : s \in {t \in Slots : entries[t].occupied}}
          = EnabledChannels(manager.config) \X {manager.config.globals}

\* run_channels returns only when nothing is left that uses the manager it has
\* freed: no supervisor thread (so no worker), no metrics thread, no HTTP thread.
OrderlyExit ==
    pc = "exited" =>
       /\ \A s \in Slots : thread[s].at = "none"
       /\ sampler = "none"
       /\ http.at \in {"off", "ended"}
       /\ lock = "free"

\* "SIGINT and SIGTERM stop all channels": gatewayd exits, whatever reload or
\* command is under way.
StopHonoured == "STOP" \in signals ~> pc = "exited"

\* Every connection is answered and closed, so that the one HTTP thread turns to the
\* next client and to stop_requested: not a client that sends its request in small
\* pieces, not the lifecycle lock, not a supervisor thread to join holds it for ever.
ConnectionsEnd ==
    http.at \in {"recv", "command", "busy", "send"} ~> http.at \in {"check", "ended"}

\* Output paths are unique in a valid configuration ("duplicate MediaMTX output
\* path").  Two workers never publish to the same one, except while a reload that
\* moves a path from one channel to another is at work: it restarts the entries
\* one by one.
PathExclusive ==
    \A s, t \in Slots :
       s # t /\ thread[s].at = "busy" /\ thread[t].at = "busy" /\ frame.call # "reload"
          => thread[s].channel.path # thread[t].channel.path
=============================================================================
