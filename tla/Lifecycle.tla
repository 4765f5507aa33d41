------------------------------ MODULE Lifecycle ------------------------------
(***************************************************************************)
(* One run of the server (main.rs): the configuration is loaded, the       *)
(* services are registered, the engines start one after another, Ctrl-C is *)
(* awaited, and the engines are stopped one after another, each cancelled  *)
(* and joined before the next.  Here an engine is a task that runs, is     *)
(* cancelled, and ends; what it does meanwhile is in its own module, but   *)
(* for what ties the engines together: the health engine writes the store, *)
(* it and the recovery engine feed the channel, the alert engine empties   *)
(* it, the API reads the store for vela-ctl, and the proxy and the API     *)
(* need ports of the host, some of which other processes have.             *)
(***************************************************************************)
EXTENDS ConfigEngine, ApiEngine, Integers, FiniteSets

CONSTANTS
  Configs,    \* bound: the contents of config.toml to start with
  Requests,   \* bound: what vela-ctl may be asked for
  Taken,      \* bound: the sets of ports other processes may listen on
  Statuses,   \* bound: the statuses the health engine writes
  Capacity    \* the events the channel holds (256)

ASSUME LifecycleAssumption ==
  /\ Configs \subseteq VelaConfig
  /\ Requests \subseteq Request(Id)
  /\ Taken \subseteq SUBSET Port
  /\ "Unknown" \in Statuses
  /\ Nothing \notin Statuses
  /\ BadId \subseteq Malformed
  /\ Capacity \in Nat \ {0}

Engine == {"health", "recovery", "alert", "proxy", "api"}
StartOrder == <<"health", "recovery", "alert", "proxy", "api">>

\* A wrong order of the shutdowns: that of the start.
StopOrder_AsStarted == <<"health", "recovery", "alert", "proxy", "api">>

StopOrder == <<"proxy", "alert", "recovery", "health", "api">>

VARIABLES
  config,      \* VelaConfig: as written, and from load_config on as loaded
  written,     \* history: config.toml
  stage,       \* where main is
  step,        \* the engine of the order it starts or stops next
  engine,      \* the engines' tasks
  taken,       \* the ports other processes of the host listen on
  bound,       \* the ports Vela listens on
  store,       \* the status of every registered service
  unsent,      \* unsent[id]: the tasks of id that have a change still to broadcast
  channel,     \* the services of the events the alert engine has not received
  lagged,      \* events fell off the channel since its last recv
  owed,        \* history: owed[id] events of id it has still to receive
  ctl,         \* where vela-ctl is with its request
  request,     \* the request
  told,        \* what it tells its user
  shown,       \* the status it shows
  seen         \* history: the statuses of that service since the request was sent

main == <<config, written, stage, step, taken>>
feed == <<unsent, channel, lagged, owed>>
news == <<store, feed>>
client == <<ctl, request, told, shown, seen>>

vars == <<main, engine, bound, news, client>>

Running(e) == engine[e] \in {"running", "cancelled"}

Init ==
  /\ config \in Configs
  /\ written = config
  /\ stage = "load"
  /\ step = 1
  /\ engine = [e \in Engine |-> "off"]
  /\ taken \in Taken
  /\ bound = {}
  /\ store = <<>>
  /\ unsent = <<>>
  /\ channel = <<>>
  /\ lagged = FALSE
  /\ owed = <<>>
  /\ ctl = "idle"
  /\ request \in Requests
  /\ told = "nothing"
  /\ shown = Nothing
  /\ seen = {}

-----------------------------------------------------------------------------
(* main.                                                                   *)

NoEvents(ids) == [id \in ids |-> 0]

\* The process ends, at the end of main, by exit(1) or by a signal: the tasks end with
\* it and the sockets are closed.
ProcessEnds(how) ==
  /\ stage' = how
  /\ engine' = [e \in Engine |-> "off"]
  /\ bound' = {}
  /\ unsent' = NoEvents(DOMAIN store)
  /\ channel' = <<>>
  /\ lagged' = FALSE
  /\ owed' = NoEvents(DOMAIN store)

Goes(next) == stage' = next /\ UNCHANGED <<engine, bound, feed>>

\* load_config, or exit(1).
Load ==
  /\ stage = "load"
  /\ IF Loads(config)
     THEN /\ config' = synthesize_backward_compat_fields(config)
          /\ Goes("validate")
     ELSE /\ ProcessEnds("aborted")
          /\ UNCHANGED config
  /\ UNCHANGED <<written, step, taken, store, client>>

\* validate_proxy_config before any engine starts, or exit(1).
Validate ==
  /\ stage = "validate"
  /\ IF validate_proxy_config(config) THEN Goes("register") ELSE ProcessEnds("aborted")
  /\ UNCHANGED <<config, written, step, taken, store, client>>

\* VelaState::new, which makes the channel, and register_services; then the Docker
\* daemon is looked for, which is never fatal.
Register ==
  /\ stage = "register"
  /\ stage' = "start"
  /\ store' = [id \in Registered(config.services) |-> "Unknown"]
  /\ unsent' = NoEvents(DOMAIN store')
  /\ owed' = NoEvents(DOMAIN store')
  /\ UNCHANGED <<config, written, step, engine, taken, bound, channel, lagged, client>>

\* The ports an engine binds before it runs.
PortsOf(e) ==
  CASE e = "proxy" -> ProxyPorts(config.services)
    [] e = "api" -> {config.api_port}
    [] OTHER -> {}

\* The next engine's run() returns Ok; after the last one Ctrl-C is awaited.
Start ==
  /\ stage = "start"
  /\ LET e == StartOrder[step]
     IN  /\ PortsOf(e) \cap (taken \cup bound) = {}
         /\ engine' = [engine EXCEPT ![e] = "running"]
         /\ bound' = bound \cup PortsOf(e)
         /\ IF step < Len(StartOrder)
            THEN step' = step + 1 /\ UNCHANGED stage
            ELSE step' = 1 /\ stage' = "running"
  /\ UNCHANGED <<config, written, taken, news, client>>

\* Its run() returns Err and main exits: a port cannot be bound, or the HTTP client of
\* the alert engine cannot be built.
StartFails ==
  /\ stage = "start"
  /\ LET e == StartOrder[step]
     IN  PortsOf(e) \cap (taken \cup bound) # {} \/ e = "alert"
  /\ ProcessEnds("aborted")
  /\ UNCHANGED <<config, written, step, taken, store, client>>

\* Ctrl-C.  It is awaited from the end of the start on; before that it kills, and
\* after it a second one does nothing.
CtrlC ==
  \/ /\ stage = "running"
     /\ Goes("stop")
     /\ UNCHANGED <<config, written, step, taken, store, client>>
  \/ /\ stage \in {"load", "validate", "register", "start"}
     /\ ProcessEnds("killed")
     /\ UNCHANGED <<config, written, step, taken, store, client>>

\* A wrong shutdown: the task is awaited without being told.
Cancel_Forgotten ==
  /\ stage = "stop"
  /\ engine[StopOrder[step]] = "running"
  /\ StopOrder[step] # "proxy"
  /\ engine' = [engine EXCEPT ![StopOrder[step]] = "cancelled"]
  /\ UNCHANGED <<main, bound, news, client>>

\* shutdown() of the next engine cancels its token.
Cancel ==
  /\ stage = "stop"
  /\ engine[StopOrder[step]] = "running"
  /\ engine' = [engine EXCEPT ![StopOrder[step]] = "cancelled"]
  /\ UNCHANGED <<main, bound, news, client>>

\* It has joined the task; after the last engine main returns.
Join ==
  /\ stage = "stop"
  /\ engine[StopOrder[step]] = "stopped"
  /\ IF step < Len(StopOrder)
     THEN /\ step' = step + 1
          /\ UNCHANGED <<stage, engine, bound, feed>>
     ELSE /\ ProcessEnds("ended")
          /\ UNCHANGED step
  /\ UNCHANGED <<config, written, taken, store, client>>

-----------------------------------------------------------------------------
(* The engines.                                                            *)

\* A wrong channel: the alert engine subscribes when it starts.
HasReceiver_Late == Running("alert")

\* The receiver made with the store is handed to the alert engine and lives with it.
HasReceiver == stage \in {"register", "start"} \/ Running("alert")

\* The alert engine is still to start, or runs: it is owed every event.
Awaited == stage = "start" \/ Running("alert")

Owe(id) == IF Awaited THEN [owed EXCEPT ![id] = @ + 1] ELSE owed

\* A broadcast of the tokio channel: nobody may be there to receive it, and a full
\* channel drops its oldest event, of which the receiver is told.
Publish(id, due) ==
  CASE ~HasReceiver -> owed' = due /\ UNCHANGED <<channel, lagged>>
    [] HasReceiver /\ Len(channel) < Capacity ->
         owed' = due /\ channel' = Append(channel, id) /\ UNCHANGED lagged
    [] OTHER ->
         /\ owed' = [due EXCEPT ![Head(channel)] = @ - 1]
         /\ channel' = Append(Tail(channel), id)
         /\ lagged' = TRUE

\* A task of the health engine, of which every upstream of a service has one, writes a
\* status ...
Check ==
  /\ Running("health")
  /\ \E i \in DOMAIN config.services :
       LET id == config.services[i].id
       IN  /\ id \in DOMAIN store
           /\ unsent[id] < Len(config.services[i].upstreams)
           /\ \E status \in Statuses \ {store[id]} :
                /\ store' = [store EXCEPT ![id] = status]
                /\ seen' = IF ctl \in {"sent", "accepted"} /\ request.id = id
                           THEN seen \cup {status} ELSE seen
           /\ unsent' = [unsent EXCEPT ![id] = @ + 1]
           /\ owed' = Owe(id)
  /\ UNCHANGED <<main, engine, bound, channel, lagged, ctl, request, told, shown>>

\* ... and broadcasts the change once it has released the lock.
Broadcast ==
  /\ Running("health")
  /\ \E id \in DOMAIN store :
       /\ unsent[id] > 0
       /\ unsent' = [unsent EXCEPT ![id] = @ - 1]
       /\ Publish(id, owed)
  /\ UNCHANGED <<main, engine, bound, store, client>>

\* The recovery engine broadcasts that it gives a service up: in one step, the status
\* stays as it is.
GiveUp ==
  /\ Running("recovery")
  /\ \E i \in DOMAIN config.services :
       LET id == config.services[i].id
       IN  /\ id \in DOMAIN store
           /\ config.services[i].restart.mode # "none"
           /\ Publish(id, Owe(id))
  /\ UNCHANGED <<main, engine, bound, store, unsent, client>>

\* The alert engine calls recv: it is told first that it has missed events, if it has.
Read ==
  /\ Running("alert")
  /\ \/ /\ lagged
        /\ lagged' = FALSE
        /\ UNCHANGED <<channel, owed>>
     \/ /\ ~lagged
        /\ channel # <<>>
        /\ channel' = Tail(channel)
        /\ owed' = [owed EXCEPT ![Head(channel)] = @ - 1]
        /\ UNCHANGED lagged
  /\ UNCHANGED <<main, engine, bound, store, unsent, client>>

\* A cancelled task ends, the listeners of the proxy and of the API with it.  The alert
\* engine leaves what it has not received, and the tasks of the health engine first
\* send what they have written, to nobody: the alert engine has ended before.  The API
\* first answers what it has accepted.
End(e) ==
  /\ engine[e] = "cancelled"
  /\ e = "api" => ctl # "accepted"
  /\ engine' = [engine EXCEPT ![e] = "stopped"]
  /\ bound' = bound \ PortsOf(e)
  /\ unsent' = IF e = "health" THEN NoEvents(DOMAIN store) ELSE unsent
  /\ IF e = "alert"
     THEN channel' = <<>> /\ lagged' = FALSE /\ owed' = NoEvents(DOMAIN store)
     ELSE UNCHANGED <<channel, lagged, owed>>
  /\ UNCHANGED <<main, store, client>>

\* The API takes up a request, as long as it has not been cancelled.
Accept ==
  /\ engine["api"] = "running"
  /\ ctl = "sent"
  /\ ctl' = "accepted"
  /\ UNCHANGED <<main, engine, bound, news, request, told, shown, seen>>

\* A handler copies the store under the read lock and answers; vela-ctl prints the
\* answer and exits.
Reply ==
  /\ Running("api")
  /\ ctl = "accepted"
  /\ ctl' = "done"
  /\ told' = Told(Code(request, store, Registered(config.services)))
  /\ shown' = Body(request, store, Registered(config.services))
  /\ UNCHANGED <<main, engine, bound, news, request, seen>>

-----------------------------------------------------------------------------
(* vela-ctl.                                                               *)

\* It connects if somebody listens, and is refused otherwise.
Send ==
  /\ ctl = "idle"
  /\ IF Running("api")
     THEN /\ ctl' = "sent"
          /\ seen' = {store[id] : id \in DOMAIN store \cap {request.id}}
          /\ UNCHANGED told
     ELSE /\ ctl' = "done"
          /\ told' = "unreachable"
          /\ UNCHANGED seen
  /\ UNCHANGED <<main, engine, bound, news, request, shown>>

\* Ten seconds have passed, or the server is gone.
Fail ==
  /\ ctl \in {"sent", "accepted"}
  /\ ctl' = "done"
  /\ told' = "unreachable"
  /\ UNCHANGED <<main, engine, bound, news, request, shown, seen>>

MainStep == Load \/ Validate \/ Register \/ Start \/ StartFails \/ Cancel \/ Join

Next ==
  \/ MainStep
  \/ CtrlC
  \/ Check
  \/ Broadcast
  \/ GiveUp
  \/ Read
  \/ \E e \in Engine : End(e)
  \/ Accept
  \/ Reply
  \/ Send
  \/ Fail

\* main goes on when it can, a cancelled task ends (what each engine's module shows of
\* it), and a handler answers.
Fairness ==
  /\ WF_vars(MainStep)
  /\ WF_vars(\E e \in Engine : End(e))
  /\ WF_vars(Reply)

Spec == Init /\ [][Next]_vars /\ Fairness

-----------------------------------------------------------------------------
(* Properties.                                                             *)

Stages == {"load", "validate", "register", "start", "running", "stop",
           "ended", "aborted", "killed"}

TypeOK ==
  /\ config \in VelaConfig
  /\ written \in Configs
  /\ stage \in Stages
  /\ step \in 1 .. 5
  /\ engine \in [Engine -> {"off", "running", "cancelled", "stopped"}]
  /\ taken \in Taken
  /\ bound \subseteq Port
  /\ DOMAIN store \subseteq Id
  /\ \A id \in DOMAIN store : store[id] \in Statuses
  /\ unsent \in [DOMAIN store -> Nat]
  /\ channel \in Seq(DOMAIN store)
  /\ Len(channel) <= Capacity
  /\ lagged \in BOOLEAN
  /\ owed \in [DOMAIN store -> Int]
  /\ ctl \in {"idle", "sent", "accepted", "done"}
  /\ request \in Requests
  /\ told \in {"nothing", "ok", "denied", "not found", "error", "unreachable"}
  /\ shown \in Statuses \cup {Nothing}
  /\ seen \subseteq Statuses

\* No engine ever starts with a configuration it cannot work with, whatever was written
\* in config.toml, and what was written out is what Vela runs with.
ConfigSound ==
  stage \in {"register", "start", "running", "stop", "ended"} =>
    Sound(config) /\ Conservative(written, config)

\* The events of a service in the channel.
InChannel(id) == Cardinality({k \in DOMAIN channel : channel[k] = id})

\* From the first check on until the alert engine has ended, every event it has not
\* received is on its way to it: still to be sent or in the channel, even those of
\* before it started.  The only exception is one that has fallen off a full channel,
\* of which recv tells it.
NoSilentLoss ==
  Awaited => \A id \in DOMAIN store : owed[id] = unsent[id] + InChannel(id)

\* No engine outlives one it needs: recovery acts on statuses that are being checked,
\* and the status can be queried until every other engine has stopped.
OrderKept ==
  /\ Running("recovery") => engine["health"] = "running"
  /\ stage = "stop" /\ (\E e \in Engine \ {"api"} : Running(e)) => engine["api"] = "running"

\* What vela-ctl tells is so: the two lookups of an id agree with the configuration and
\* with each other, nothing is told of a service without the key, not even that there is
\* none, and a status it shows is one the service had after the request was sent.
CtlTellsTruth ==
  ctl = "done" =>
    LET known == request.route = "status" \/ request.id \in Registered(written.services)
    IN  /\ told = "ok" => request.key /\ known
        /\ told = "not found" => request.key /\ (~known \/ request.id \in Unroutable)
        /\ told = "error" => request.key /\ request.id \in Malformed
        /\ told = "denied" => ~request.key
        /\ shown # Nothing => told = "ok" /\ shown \in seen

\* After Ctrl-C the process ends by itself.
ShutdownEnds == stage = "stop" ~> stage = "ended"

-----------------------------------------------------------------------------
(* What a comment of the repository says and the code does not do.         *)

\* The ports config.toml names for the services themselves.
ServicePorts == UNION {OwnPorts(config.services[i]) : i \in DOMAIN config.services}

\* A misconfigured proxy port, one config.toml itself gives to a service, never leaves
\* engines running only to be ended by exit(1).
NoLateProxyConflict ==
  [][stage = "start" /\ stage' = "aborted" /\ StartOrder[step] = "proxy"
       => ProxyPorts(config.services) \cap ServicePorts \cap taken = {}]_vars
=============================================================================
