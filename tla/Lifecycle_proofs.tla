-------------------------- MODULE Lifecycle_proofs --------------------------
(***************************************************************************)
(* What a run of Vela keeps to for every configuration, every set of ports *)
(* that other processes have and every request of vela-ctl: the engines    *)
(* only start with a configuration they can work with, none outlives one   *)
(* it needs, no status change is lost in silence, and vela-ctl tells the   *)
(* truth.                                                                  *)
(***************************************************************************)
EXTENDS Lifecycle, FiniteSetTheorems, TLAPS

\* Before the services are registered there is no store and nothing to tell.
Unstarted == {"load", "validate", "register"}

\* Which tasks run at which stage of main.
Shape ==
  /\ stage \in Unstarted => step = 1 /\ channel = <<>> /\ lagged = FALSE
  /\ stage \in Unstarted \cup {"ended", "aborted", "killed"} =>
       \A e \in Engine : engine[e] = "off"
  /\ stage = "start" =>
       \A i \in 1 .. 5 : engine[StartOrder[i]] = IF i < step THEN "running" ELSE "off"
  /\ stage = "running" => step = 1 /\ \A e \in Engine : engine[e] = "running"
  /\ stage = "stop" =>
       \A i \in 1 .. 5 : /\ i < step => engine[StopOrder[i]] = "stopped"
                         /\ i = step => engine[StopOrder[i]] # "off"
                         /\ i > step => engine[StopOrder[i]] = "running"

\* How far main has got with the configuration.
Loaded ==
  /\ stage = "load" => config = written
  /\ stage \in {"validate", "register", "start", "running", "stop", "ended"} =>
       Loads(written) /\ config = synthesize_backward_compat_fields(written)
  /\ stage \in {"register", "start", "running", "stop", "ended"} =>
       validate_proxy_config(config)

\* Once registered, the services of the store are those of config.toml.
StoreKnown ==
  stage \in {"start", "running", "stop"} => DOMAIN store = Registered(written.services)

\* vela-ctl waits only for a server that has begun to start; it has nothing to tell
\* before the answer, and the status asked for is among those seen.
Asking ==
  /\ ctl \in {"sent", "accepted"} => stage \notin Unstarted
  /\ ctl # "done" => told = "nothing" /\ shown = Nothing
  /\ ctl \in {"sent", "accepted"} /\ request.id \in DOMAIN store => store[request.id] \in seen

LifecycleInv ==
  TypeOK /\ Shape /\ Loaded /\ StoreKnown /\ Asking /\ NoSilentLoss /\ CtlTellsTruth

-----------------------------------------------------------------------------
(* The configuration.                                                      *)

\* A service's own ports are ports.
LEMMA OwnPortsType ==
  ASSUME NEW svc \in ServiceConfig
  PROVE  OwnPorts(svc) \subseteq Port
<1>1. svc.upstreams \in Seq(UpstreamConfig)
  BY DEF ServiceConfig
<1>2. ASSUME NEW k \in DOMAIN svc.upstreams PROVE svc.upstreams[k].port \in Port
  <2>1. svc.upstreams[k] \in UpstreamConfig
    BY <1>1
  <2> QED BY <2>1 DEF UpstreamConfig
<1> QED BY <1>2 DEF OwnPorts

LEMMA SynthesizedType ==
  ASSUME NEW svc \in ServiceConfig, HasAddress(svc)
  PROVE  /\ Synthesized(svc) \in ServiceConfig
         /\ Synthesized(svc).id = svc.id
         /\ Synthesized(svc).upstreams # <<>>
         /\ Synthesized(svc).restart \in RestartConfig
         /\ Synthesized(svc).http = svc.http
         /\ Synthesized(svc).http_path = svc.http_path
         /\ svc.upstreams # <<>> => Synthesized(svc).upstreams = svc.upstreams
         /\ svc.restart # None => Synthesized(svc).restart = svc.restart
         /\ Synthesized(svc).restart.mode = "none" /\ svc.restart = None => ~svc.command
<1> DEFINE ups == IF svc.upstreams # <<>> THEN svc.upstreams
                  ELSE <<[host |-> svc.host, port |-> svc.port]>>
           made == [mode |-> IF svc.command THEN "manual" ELSE "none",
                    command |-> svc.command, docker |-> FALSE]
           rst == IF svc.restart # None THEN svc.restart ELSE made
<1>1. ups \in Seq(UpstreamConfig) /\ ups # <<>>
  <2>1. CASE svc.upstreams # <<>>
    BY <2>1 DEF ServiceConfig
  <2>2. CASE svc.upstreams = <<>>
    <3>1. svc.host \in Host /\ svc.port \in Port
      BY <2>2 DEF HasAddress, ServiceConfig
    <3>2. [host |-> svc.host, port |-> svc.port] \in UpstreamConfig
      BY <3>1 DEF UpstreamConfig
    <3> QED BY <2>2, <3>2
  <2> QED BY <2>1, <2>2
<1>2. made \in RestartConfig
  BY DEF RestartConfig, Mode, ServiceConfig
<1>3. rst \in RestartConfig
  BY <1>2 DEF ServiceConfig
<1>4. made.mode = "none" => ~svc.command
  BY DEF ServiceConfig
<1>5. Synthesized(svc) = [svc EXCEPT !.upstreams = ups, !.restart = rst]
  BY DEF Synthesized
<1> HIDE DEF ups, made, rst
<1>6. /\ Synthesized(svc).id = svc.id
      /\ Synthesized(svc).upstreams = ups
      /\ Synthesized(svc).restart = rst
      /\ Synthesized(svc).http = svc.http
      /\ Synthesized(svc).http_path = svc.http_path
      /\ Synthesized(svc) \in ServiceConfig
  BY <1>1, <1>3, <1>5 DEF ServiceConfig
<1> QED BY <1>1, <1>3, <1>4, <1>6 DEF ups, rst

\* load_config writes in the fields, service by service.
LEMMA LoadedType ==
  ASSUME NEW w \in VelaConfig, Loads(w)
  PROVE  LET c == synthesize_backward_compat_fields(w)
         IN  /\ c \in VelaConfig
             /\ c.api_port = w.api_port
             /\ c.services \in Seq(ServiceConfig)
             /\ DOMAIN c.services = DOMAIN w.services
             /\ \A i \in DOMAIN w.services :
                  /\ w.services[i] \in ServiceConfig
                  /\ HasAddress(w.services[i])
                  /\ c.services[i] = Synthesized(w.services[i])
<1> DEFINE c == synthesize_backward_compat_fields(w)
           loaded == [i \in DOMAIN w.services |-> Synthesized(w.services[i])]
<1>1. w.services \in Seq(ServiceConfig)
  BY DEF VelaConfig
<1>2. \A i \in DOMAIN w.services : w.services[i] \in ServiceConfig /\ HasAddress(w.services[i])
  BY <1>1 DEF Loads
<1>3. loaded \in Seq(ServiceConfig)
  <2>1. Len(w.services) \in Nat /\ DOMAIN w.services = 1 .. Len(w.services)
    BY <1>1
  <2>2. loaded \in [1 .. Len(w.services) -> ServiceConfig]
    BY <1>2, <2>1, SynthesizedType
  <2> HIDE DEF loaded
  <2> QED BY <2>1, <2>2
<1>4. c = [w EXCEPT !.services = loaded]
  BY DEF synthesize_backward_compat_fields
<1>5. /\ c \in VelaConfig
      /\ c.api_port = w.api_port
      /\ c.services = loaded
  <2> HIDE DEF c, loaded
  <2> QED BY <1>3, <1>4 DEF VelaConfig
<1>6. /\ DOMAIN loaded = DOMAIN w.services
      /\ \A i \in DOMAIN w.services : loaded[i] = Synthesized(w.services[i])
  OBVIOUS
<1> HIDE DEF c, loaded
<1>7. /\ c \in VelaConfig
      /\ c.api_port = w.api_port
      /\ c.services \in Seq(ServiceConfig)
      /\ DOMAIN c.services = DOMAIN w.services
      /\ \A i \in DOMAIN w.services :
           /\ w.services[i] \in ServiceConfig
           /\ HasAddress(w.services[i])
           /\ c.services[i] = Synthesized(w.services[i])
  BY <1>2, <1>3, <1>5, <1>6
<1> QED BY <1>7 DEF c

LEMMA RegisteredKept ==
  ASSUME NEW w \in VelaConfig, Loads(w)
  PROVE  /\ Registered(synthesize_backward_compat_fields(w).services) = Registered(w.services)
         /\ Registered(w.services) \subseteq Id
<1> DEFINE c == synthesize_backward_compat_fields(w)
<1>1. /\ DOMAIN c.services = DOMAIN w.services
      /\ \A i \in DOMAIN w.services :
           /\ w.services[i] \in ServiceConfig
           /\ HasAddress(w.services[i])
           /\ c.services[i] = Synthesized(w.services[i])
  BY LoadedType
<1>2. \A i \in DOMAIN w.services : c.services[i].id = w.services[i].id /\ w.services[i].id \in Id
  <2> HIDE DEF c
  <2> TAKE i \in DOMAIN w.services
  <2>1. w.services[i] \in ServiceConfig /\ HasAddress(w.services[i])
    BY <1>1
  <2>2. Synthesized(w.services[i]).id = w.services[i].id
    BY <2>1, SynthesizedType
  <2> QED BY <1>1, <2>1, <2>2 DEF ServiceConfig
<1> HIDE DEF c
<1>3. Registered(c.services) = Registered(w.services) /\ Registered(w.services) \subseteq Id
  BY <1>1, <1>2 DEF Registered
<1> QED BY <1>3 DEF c

\* What is accepted is sound, and is what was written out.
LEMMA AcceptedIsSound ==
  ASSUME NEW w \in VelaConfig, Loads(w),
         validate_proxy_config(synthesize_backward_compat_fields(w))
  PROVE  /\ Sound(synthesize_backward_compat_fields(w))
         /\ Conservative(w, synthesize_backward_compat_fields(w))
<1> DEFINE c == synthesize_backward_compat_fields(w)
           S == c.services
<1>1. /\ c.api_port \in Port
      /\ S \in Seq(ServiceConfig)
      /\ DOMAIN S = DOMAIN w.services
      /\ \A i \in DOMAIN w.services :
           /\ w.services[i] \in ServiceConfig
           /\ HasAddress(w.services[i])
           /\ S[i] = Synthesized(w.services[i])
  BY LoadedType DEF VelaConfig
<1>2. /\ \A i \in DOMAIN w.services : RestartValid(Synthesized(w.services[i]).restart)
      /\ validate_config(c) /\ validate_proxy_config(c)
  BY DEF Loads
<1> HIDE DEF c
<1>3. ASSUME NEW i \in DOMAIN S
      PROVE  /\ S[i] \in ServiceConfig
             /\ S[i].upstreams # <<>>
             /\ S[i].restart \in RestartConfig
             /\ w.services[i].upstreams # <<>> => S[i].upstreams = w.services[i].upstreams
             /\ w.services[i].restart # None => S[i].restart = w.services[i].restart
             /\ S[i].restart.mode = "none" /\ w.services[i].restart = None
                  => ~w.services[i].command
  <2>1. w.services[i] \in ServiceConfig /\ HasAddress(w.services[i])
    BY <1>1
  <2> QED BY <1>1, <2>1, SynthesizedType
<1>4. ASSUME NEW i \in DOMAIN S PROVE Workable(S[i])
  <2>1. S[i].http => S[i].http_path
    BY <1>2 DEF validate_config
  <2>2. 0 \notin OwnPorts(S[i])
    BY <1>2 DEF validate_config, OwnPorts
  <2>3. RestartValid(S[i].restart)
    BY <1>1, <1>2
  <2> QED BY <1>3, <2>1, <2>2, <2>3 DEF Workable
<1>5. ASSUME NEW i \in DOMAIN S PROVE S[i].proxy \notin OwnPorts(S[i]) \cup {c.api_port}
  <2>1. CASE S[i].proxy = None
    <3>1. OwnPorts(S[i]) \subseteq Port
      BY <1>3, OwnPortsType
    <3> QED BY <1>1, <2>1, <3>1, ConfigAssumption
  <2>2. CASE S[i].proxy # None
    BY <1>2, <2>2 DEF validate_proxy_config
  <2> QED BY <2>1, <2>2
<1>6. ASSUME NEW i \in DOMAIN S, NEW j \in DOMAIN S, i # j
      PROVE  S[j].id # S[i].id /\ (S[i].proxy # None => S[j].proxy # S[i].proxy)
  <2>1. DOMAIN S = 1 .. Len(S) /\ Len(S) \in Nat
    BY <1>1
  <2>2. (j \in 1 .. i - 1) \/ (i \in 1 .. j - 1)
    BY <1>6, <2>1
  <2>3. CASE j \in 1 .. i - 1
    BY <1>2, <2>3 DEF validate_config, validate_proxy_config
  <2>4. CASE i \in 1 .. j - 1
    BY <1>2, <2>4 DEF validate_config, validate_proxy_config
  <2> QED BY <2>2, <2>3, <2>4
<1>7. S # <<>>
  BY <1>2 DEF validate_config
<1>8. Sound(c)
  BY <1>4, <1>5, <1>6, <1>7 DEF Sound
<1>9. Conservative(w, c)
  BY <1>1, <1>3 DEF Conservative
<1> QED BY <1>8, <1>9 DEF c

-----------------------------------------------------------------------------
(* Types and stages.                                                       *)

LEMMA Orders ==
  /\ Len(StartOrder) = 5 /\ Len(StopOrder) = 5
  /\ StartOrder[1] = "health" /\ StartOrder[2] = "recovery" /\ StartOrder[3] = "alert"
  /\ StartOrder[4] = "proxy" /\ StartOrder[5] = "api"
  /\ StopOrder[1] = "proxy" /\ StopOrder[2] = "alert" /\ StopOrder[3] = "recovery"
  /\ StopOrder[4] = "health" /\ StopOrder[5] = "api"
BY DEF StartOrder, StopOrder

\* Every engine has one place in either order.
LEMMA Places ==
  /\ \A i \in 1 .. 5 : StartOrder[i] \in Engine /\ StopOrder[i] \in Engine
  /\ \A i, j \in 1 .. 5 : StartOrder[i] = StartOrder[j] => i = j
  /\ \A i, j \in 1 .. 5 : StopOrder[i] = StopOrder[j] => i = j
  /\ \A e \in Engine : \E i \in 1 .. 5 : StartOrder[i] = e
<1>1. \A i \in 1 .. 5 : i = 1 \/ i = 2 \/ i = 3 \/ i = 4 \/ i = 5
  OBVIOUS
<1>2. \A i \in 1 .. 5 : StartOrder[i] \in Engine /\ StopOrder[i] \in Engine
  BY <1>1, Orders DEF Engine
<1>3. \A i, j \in 1 .. 5 : StartOrder[i] = StartOrder[j] => i = j
  BY <1>1, Orders
<1>4. \A i, j \in 1 .. 5 : StopOrder[i] = StopOrder[j] => i = j
  BY <1>1, Orders
<1>5. \A e \in Engine : \E i \in 1 .. 5 : StartOrder[i] = e
  BY Orders DEF Engine
<1> QED BY <1>2, <1>3, <1>4, <1>5

LEMMA PortsType ==
  ASSUME config \in VelaConfig, NEW e \in Engine
  PROVE  PortsOf(e) \subseteq Port
<1>1. config.api_port \in Port /\ config.services \in Seq(ServiceConfig)
  BY DEF VelaConfig
<1>2. ProxyPorts(config.services) \subseteq Port
  <2>1. ASSUME NEW i \in DOMAIN config.services, config.services[i].proxy # None
        PROVE  config.services[i].proxy \in Port
    <3>1. config.services[i] \in ServiceConfig
      BY <1>1
    <3> QED BY <2>1, <3>1 DEF ServiceConfig
  <2> QED BY <2>1 DEF ProxyPorts
<1> QED BY <1>1, <1>2 DEF PortsOf

LEMMA CapacityType == Capacity \in Nat \ {0}
BY LifecycleAssumption

LEMMA InitLifecycle == Init => LifecycleInv
<1> SUFFICES ASSUME Init PROVE LifecycleInv
  OBVIOUS
<1>1. DOMAIN store = {}
  BY DEF Init
<1>2. /\ unsent \in [DOMAIN store -> Nat] /\ owed \in [DOMAIN store -> Int]
      /\ channel \in Seq(DOMAIN store) /\ Len(channel) <= Capacity
  <2>1. unsent = <<>> /\ owed = <<>> /\ channel = <<>>
    BY DEF Init
  <2>2. <<>> \in [{} -> Nat] /\ <<>> \in [{} -> Int]
    OBVIOUS
  <2>3. <<>> \in Seq(DOMAIN store) /\ Len(<<>>) <= Capacity
    BY CapacityType
  <2> QED BY <1>1, <2>1, <2>2, <2>3
<1>3. lagged \in BOOLEAN
  BY DEF Init
<1>4. TypeOK
  BY <1>1, <1>2, <1>3, LifecycleAssumption DEF Init, TypeOK, Stages
<1> QED BY <1>1, <1>4 DEF Init, LifecycleInv, Shape, Unstarted, Loaded, StoreKnown, Asking,
                          NoSilentLoss, CtlTellsTruth

\* What the answer is made of.
LEMMA AnswerType ==
  ASSUME TypeOK, NEW configured
  PROVE  /\ Told(Code(request, store, configured)) \in {"ok", "denied", "not found", "error"}
         /\ Body(request, store, configured) \in Statuses \cup {Nothing}
<1>1. Told(Code(request, store, configured)) \in {"ok", "denied", "not found", "error"}
  BY DEF Told
<1>2. Body(request, store, configured) \in Statuses \cup {Nothing}
  <2>1. CASE request.route = "service" /\ Code(request, store, configured) = 200
    <3>1. request.id \in DOMAIN store
      BY <2>1 DEF Code, Routed, Handled
    <3> QED BY <2>1, <3>1 DEF Body, TypeOK
  <2>2. CASE ~(request.route = "service" /\ Code(request, store, configured) = 200)
    BY <2>2 DEF Body
  <2> QED BY <2>1, <2>2
<1> QED BY <1>1, <1>2

LEMMA FeedType ==
  ASSUME TypeOK
  PROVE  /\ unsent \in [DOMAIN store -> Nat] /\ owed \in [DOMAIN store -> Int]
         /\ channel \in Seq(DOMAIN store) /\ Len(channel) \in Nat /\ Len(channel) <= Capacity
<1>1. /\ unsent \in [DOMAIN store -> Nat] /\ owed \in [DOMAIN store -> Int]
      /\ channel \in Seq(DOMAIN store) /\ Len(channel) <= Capacity
  BY Zenon DEF TypeOK
<1> QED BY <1>1

LEMMA LaggedType ==
  ASSUME TypeOK
  PROVE  lagged \in BOOLEAN
BY Zenon DEF TypeOK

\* A broadcast leaves a channel of events of registered services, no longer than it may be.
LEMMA PublishType ==
  ASSUME TypeOK, NEW id \in DOMAIN store, NEW due \in [DOMAIN store -> Int], Publish(id, due)
  PROVE  /\ channel' \in Seq(DOMAIN store) /\ Len(channel') <= Capacity
         /\ lagged' \in BOOLEAN
         /\ owed' \in [DOMAIN store -> Int]
<1>1. /\ channel \in Seq(DOMAIN store) /\ Len(channel) \in Nat /\ Len(channel) <= Capacity
      /\ Capacity \in Nat \ {0}
  BY FeedType, CapacityType
<1>0. lagged' \in BOOLEAN
  BY LaggedType DEF Publish
<1> SUFFICES /\ channel' \in Seq(DOMAIN store) /\ Len(channel') <= Capacity
             /\ owed' \in [DOMAIN store -> Int]
  BY <1>0
<1>2. CASE ~HasReceiver
  BY <1>1, <1>2 DEF Publish
<1>3. CASE HasReceiver /\ Len(channel) < Capacity
  <2>1. owed' = due /\ channel' = Append(channel, id)
    BY <1>3 DEF Publish
  <2> QED BY <1>1, <1>3, <2>1
<1>4. CASE HasReceiver /\ ~(Len(channel) < Capacity)
  <2>1. /\ owed' = [due EXCEPT ![Head(channel)] = @ - 1]
        /\ channel' = Append(Tail(channel), id)
    BY <1>4 DEF Publish
  <2>2. channel # <<>> /\ Len(channel) = Capacity
    BY <1>1, <1>4
  <2>3. Tail(channel) \in Seq(DOMAIN store) /\ Len(Tail(channel)) = Len(channel) - 1
    BY <1>1, <2>2
  <2>4. channel' \in Seq(DOMAIN store) /\ Len(channel') = Len(channel)
    BY <1>1, <2>1, <2>3
  <2>5. owed' \in [DOMAIN store -> Int]
    <3>1. \A d \in DOMAIN store : due[d] \in Int /\ due[d] - 1 \in Int
      OBVIOUS
    <3> QED BY <2>1, <3>1
  <2> QED BY <2>1, <2>2, <2>4, <2>5
<1> QED BY <1>2, <1>3, <1>4

LEMMA OweType ==
  ASSUME TypeOK, NEW id \in DOMAIN store
  PROVE  Owe(id) \in [DOMAIN store -> Int]
<1>1. owed \in [DOMAIN store -> Int] /\ owed[id] + 1 \in Int
  BY FeedType
<1> QED BY <1>1 DEF Owe

\* A process that ends, or has just registered its services, owes nothing.
LEMMA NoEventsType ==
  ASSUME NEW ids
  PROVE  NoEvents(ids) \in [ids -> Nat] /\ NoEvents(ids) \in [ids -> Int]
BY DEF NoEvents

LEMMA StepType == LifecycleInv /\ [Next]_vars => TypeOK'
<1> SUFFICES ASSUME LifecycleInv, [Next]_vars PROVE TypeOK'
  OBVIOUS
<1> USE DEF LifecycleInv
<1>1. TypeOK /\ Shape /\ Loaded
  OBVIOUS
<1>0. ASSUME NEW how \in {"ended", "aborted", "killed"}, ProcessEnds(how), store' = store
      PROVE  /\ stage' \in Stages /\ bound' \subseteq Port
             /\ engine' \in [Engine -> {"off", "running", "cancelled", "stopped"}]
             /\ unsent' \in [DOMAIN store' -> Nat] /\ owed' \in [DOMAIN store' -> Int]
             /\ channel' \in Seq(DOMAIN store') /\ Len(channel') <= Capacity
             /\ lagged' \in BOOLEAN
  <2>1. <<>> \in Seq(DOMAIN store) /\ Len(<<>>) <= Capacity
    BY CapacityType
  <2> QED BY <1>0, <2>1, NoEventsType DEF ProcessEnds, Stages
<1>2. CASE Load
  <2>1. config' \in VelaConfig
    <3>1. CASE Loads(config)
      BY <1>1, <1>2, <3>1, LoadedType DEF Load, TypeOK
    <3>2. CASE ~Loads(config)
      BY <1>1, <1>2, <3>2 DEF Load, TypeOK
    <3> QED BY <3>1, <3>2
  <2>2. CASE Loads(config)
    BY <1>1, <1>2, <2>1, <2>2 DEF Load, Goes, TypeOK, Stages, client, feed
  <2>3. CASE ~Loads(config)
    BY <1>0, <1>1, <1>2, <2>1, <2>3 DEF Load, TypeOK, client
  <2> QED BY <2>2, <2>3
<1>3. CASE Validate
  <2>1. CASE validate_proxy_config(config)
    BY <1>1, <1>3, <2>1 DEF Validate, Goes, TypeOK, Stages, client, feed
  <2>2. CASE ~validate_proxy_config(config)
    BY <1>0, <1>1, <1>3, <2>2 DEF Validate, TypeOK, client
  <2> QED BY <2>1, <2>2
<1>4. CASE Register
  <2>1. channel' = <<>> /\ lagged' = FALSE
    BY <1>1, <1>4 DEF Register, Shape, Unstarted
  <2>2. Registered(config.services) \subseteq Id
    BY <1>1, <1>4, RegisteredKept, LifecycleAssumption DEF Register, Loaded, TypeOK
  <2>3. DOMAIN store' \subseteq Id /\ \A id \in DOMAIN store' : store'[id] \in Statuses
    BY <1>4, <2>2, LifecycleAssumption DEF Register
  <2>4. unsent' \in [DOMAIN store' -> Nat] /\ owed' \in [DOMAIN store' -> Int]
    BY <1>4, NoEventsType DEF Register
  <2>5. channel' \in Seq(DOMAIN store') /\ Len(channel') <= Capacity
    BY <2>1, CapacityType
  <2>6. lagged' \in BOOLEAN
    BY <2>1
  <2> QED BY <1>1, <1>4, <2>3, <2>4, <2>5, <2>6 DEF Register, TypeOK, Stages, client
<1>5. CASE Start
  <2>1. /\ step \in 1 .. 5 /\ StartOrder[step] \in Engine
        /\ PortsOf(StartOrder[step]) \subseteq Port
    BY <1>1, PortsType, Places DEF TypeOK
  <2>2. /\ engine' = [engine EXCEPT ![StartOrder[step]] = "running"]
        /\ bound' = bound \cup PortsOf(StartOrder[step])
        /\ \/ step < 5 /\ step' = step + 1 /\ stage' = stage
           \/ step' = 1 /\ stage' = "running"
        /\ UNCHANGED <<config, written, taken, news, client>>
    BY <1>5, Orders DEF Start
  <2>3. step' \in 1 .. 5 /\ stage' \in Stages
    <3>1. step \in 1 .. 5 /\ stage \in Stages
      BY <1>1 DEF TypeOK
    <3>2. "running" \in Stages
      BY DEF Stages
    <3> QED BY <2>2, <3>1, <3>2
  <2>4. engine' \in [Engine -> {"off", "running", "cancelled", "stopped"}] /\ bound' \subseteq Port
    BY <1>1, <2>1, <2>2 DEF TypeOK
  <2> QED BY <1>1, <2>2, <2>3, <2>4 DEF TypeOK, client, news, feed
<1>6. CASE StartFails
  BY <1>0, <1>1, <1>6 DEF StartFails, TypeOK, client
<1>7. CASE CtrlC
  <2>1. CASE stage = "running" /\ Goes("stop")
    BY <1>1, <1>7, <2>1 DEF CtrlC, Goes, TypeOK, Stages, client, feed
  <2>2. CASE ProcessEnds("killed")
    BY <1>0, <1>1, <1>7, <2>2 DEF CtrlC, TypeOK, client
  <2> QED BY <1>7, <2>1, <2>2 DEF CtrlC
<1>8. CASE Cancel
  BY <1>1, <1>8 DEF Cancel, main, news, feed, client, TypeOK
<1>9. CASE Join
  <2>1. /\ \/ step < 5 /\ step' = step + 1 /\ UNCHANGED <<stage, engine, bound, feed>>
           \/ ProcessEnds("ended") /\ step' = step
        /\ UNCHANGED <<config, written, taken, store, client>>
    BY <1>9, Orders DEF Join
  <2>2. step' \in 1 .. 5 /\ stage' \in Stages
    <3>1. step \in 1 .. 5 /\ stage \in Stages
      BY <1>1 DEF TypeOK
    <3>2. stage' = stage \/ stage' = "ended"
      BY <2>1 DEF ProcessEnds
    <3>3. step' \in 1 .. 5
      BY <2>1, <3>1
    <3> QED BY <3>1, <3>2, <3>3 DEF Stages
  <2>3. CASE UNCHANGED <<stage, engine, bound, feed>>
    BY <1>1, <2>1, <2>2, <2>3 DEF TypeOK, client, feed
  <2>4. CASE ProcessEnds("ended")
    BY <1>0, <1>1, <2>1, <2>2, <2>4 DEF TypeOK, client
  <2> QED BY <2>1, <2>3, <2>4
<1>10. CASE Check
  <2>1. PICK id \in DOMAIN store : \E status \in Statuses \ {store[id]} :
          /\ store' = [store EXCEPT ![id] = status]
          /\ seen' = seen \/ seen' = seen \cup {status}
          /\ unsent' = [unsent EXCEPT ![id] = @ + 1]
          /\ owed' = Owe(id)
    BY <1>10 DEF Check
  <2>2. DOMAIN store' = DOMAIN store /\ \A d \in DOMAIN store : store'[d] \in Statuses
    BY <1>1, <2>1 DEF TypeOK
  <2>3. seen' \subseteq Statuses
    BY <1>1, <2>1 DEF TypeOK
  <2>4. unsent' \in [DOMAIN store -> Nat] /\ owed' \in [DOMAIN store -> Int]
    <3>1. unsent[id] + 1 \in Nat
      BY <1>1, FeedType
    <3> QED BY <1>1, <2>1, <3>1, FeedType, OweType
  <2> QED BY <1>1, <1>10, <2>2, <2>3, <2>4 DEF Check, main, TypeOK
<1>11. CASE Read
  <2>1. \/ UNCHANGED <<channel, owed>>
        \/ /\ channel # <<>> /\ channel' = Tail(channel)
           /\ owed' = [owed EXCEPT ![Head(channel)] = @ - 1]
    BY <1>11 DEF Read
  <2>2. lagged' \in BOOLEAN
    BY <1>1, <1>11, LaggedType DEF Read
  <2>3. channel' \in Seq(DOMAIN store) /\ Len(channel') <= Capacity
    <3>1. /\ channel \in Seq(DOMAIN store) /\ Len(channel) \in Nat /\ Len(channel) <= Capacity
          /\ Capacity \in Nat
      BY <1>1, FeedType, CapacityType
    <3>2. CASE channel' = channel
      BY <3>1, <3>2
    <3>3. CASE channel # <<>> /\ channel' = Tail(channel)
      BY <3>1, <3>3
    <3> QED BY <2>1, <3>2, <3>3
  <2>4. owed' \in [DOMAIN store -> Int]
    <3>1. owed \in [DOMAIN store -> Int] /\ \A d \in DOMAIN store : owed[d] - 1 \in Int
      BY <1>1, FeedType
    <3>2. channel # <<>> => Head(channel) \in DOMAIN store
      BY <1>1, FeedType
    <3> QED BY <2>1, <3>1, <3>2
  <2> QED BY <1>1, <1>11, <2>2, <2>3, <2>4 DEF Read, main, client, TypeOK
<1>18. CASE Broadcast
  <2>1. PICK id \in DOMAIN store :
          unsent[id] > 0 /\ unsent' = [unsent EXCEPT ![id] = @ - 1] /\ Publish(id, owed)
    BY <1>18 DEF Broadcast
  <2>2. unsent' \in [DOMAIN store -> Nat] /\ owed \in [DOMAIN store -> Int]
    <3>1. unsent[id] - 1 \in Nat
      BY <1>1, <2>1, FeedType
    <3> QED BY <1>1, <2>1, <3>1, FeedType
  <2> QED BY <1>1, <1>18, <2>1, <2>2, PublishType DEF Broadcast, main, client, TypeOK
<1>19. CASE GiveUp
  <2>1. PICK id \in DOMAIN store : Publish(id, Owe(id))
    BY <1>19 DEF GiveUp
  <2> QED BY <1>1, <1>19, <2>1, OweType, PublishType DEF GiveUp, main, client, TypeOK
<1>12. ASSUME NEW e \in Engine, End(e) PROVE TypeOK'
  <2>1. unsent' \in [DOMAIN store -> Nat] /\ owed' \in [DOMAIN store -> Int]
    <3>1. CASE e = "alert"
      BY <1>1, <1>12, <3>1, NoEventsType, FeedType DEF End
    <3>2. CASE e # "alert"
      <4>1. unsent' \in {NoEvents(DOMAIN store), unsent} /\ owed' = owed
        BY <1>12, <3>2 DEF End
      <4> QED BY <1>1, <4>1, NoEventsType, FeedType
    <3> QED BY <3>1, <3>2
  <2>2. channel' \in Seq(DOMAIN store) /\ Len(channel') <= Capacity
    <3>1. <<>> \in Seq(DOMAIN store) /\ Len(<<>>) <= Capacity
      BY CapacityType
    <3> QED BY <1>1, <1>12, <3>1, FeedType DEF End
  <2>4. lagged' \in BOOLEAN
    BY <1>1, <1>12, LaggedType DEF End
  <2>3. /\ engine' \in [Engine -> {"off", "running", "cancelled", "stopped"}]
        /\ bound' \subseteq Port
    BY <1>1, <1>12 DEF End, TypeOK
  <2> QED BY <1>1, <1>12, <2>1, <2>2, <2>3, <2>4 DEF End, main, client, TypeOK
<1>13. CASE Accept
  BY <1>1, <1>13 DEF Accept, main, news, feed, TypeOK
<1>14. CASE Reply
  BY <1>1, <1>14, AnswerType DEF Reply, main, news, feed, TypeOK
<1>15. CASE Send
  <2>1. seen' \subseteq Statuses
    <3>1. {store[id] : id \in DOMAIN store \cap {request.id}} \subseteq Statuses
      BY <1>1 DEF TypeOK
    <3> QED BY <1>1, <1>15, <3>1 DEF Send, TypeOK
  <2> QED BY <1>1, <1>15, <2>1 DEF Send, main, news, feed, TypeOK
<1>16. CASE Fail
  BY <1>1, <1>16 DEF Fail, main, news, feed, TypeOK
<1>17. CASE UNCHANGED vars
  BY <1>1, <1>17 DEF vars, main, news, feed, client, TypeOK
<1> QED BY <1>2, <1>3, <1>4, <1>5, <1>6, <1>7, <1>8, <1>9, <1>10, <1>11, <1>12, <1>13,
           <1>14, <1>15, <1>16, <1>17, <1>18, <1>19 DEF Next, MainStep

\* A task that is cancelled is the one main stops.
LEMMA OnlyOneCancelled ==
  ASSUME TypeOK, Shape, NEW e \in Engine, engine[e] = "cancelled"
  PROVE  stage = "stop" /\ e = StopOrder[step]
<1>1. stage \notin Unstarted \cup {"ended", "aborted", "killed", "running"}
  BY DEF Shape, Unstarted
<1>2. stage # "start"
  <2>1. PICK i \in 1 .. 5 : StartOrder[i] = e
    BY Places
  <2> QED BY <2>1 DEF Shape
<1>3. stage = "stop"
  BY <1>1, <1>2 DEF TypeOK, Stages, Unstarted
<1>4. PICK i \in 1 .. 5 : StopOrder[i] = e
  BY Orders DEF Engine
<1>5. i = step
  <2>1. step \in 1 .. 5
    BY DEF TypeOK
  <2> QED BY <1>3, <1>4, <2>1 DEF Shape
<1> QED BY <1>3, <1>4, <1>5

\* The stages in which a task runs.
LEMMA RunsWhen ==
  ASSUME TypeOK, Shape, NEW e \in Engine, Running(e)
  PROVE  stage \in {"start", "running", "stop"}
BY DEF TypeOK, Stages, Shape, Unstarted, Running

LEMMA StepShape == LifecycleInv /\ [Next]_vars => Shape'
<1> SUFFICES ASSUME TypeOK, Shape, [Next]_vars PROVE Shape'
  BY DEF LifecycleInv
<1>0. step \in 1 .. 5 /\ engine \in [Engine -> {"off", "running", "cancelled", "stopped"}]
  BY DEF TypeOK
<1>1. ASSUME NEW how \in {"ended", "aborted", "killed"}, ProcessEnds(how) PROVE Shape'
  BY <1>1 DEF ProcessEnds, Shape, Unstarted
<1>2. CASE Load
  <2>1. CASE Loads(config)
    BY <1>2, <2>1 DEF Load, Goes, feed, Shape, Unstarted
  <2>2. CASE ~Loads(config)
    BY <1>1, <1>2, <2>2 DEF Load
  <2> QED BY <2>1, <2>2
<1>3. CASE Validate
  <2>1. CASE validate_proxy_config(config)
    BY <1>3, <2>1 DEF Validate, Goes, feed, Shape, Unstarted
  <2>2. CASE ~validate_proxy_config(config)
    BY <1>1, <1>3, <2>2 DEF Validate
  <2> QED BY <2>1, <2>2
<1>4. CASE Register
  <2>1. step = 1 /\ \A e \in Engine : engine[e] = "off"
    BY <1>4 DEF Register, Shape, Unstarted
  <2>2. stage' = "start" /\ step' = step /\ engine' = engine
    BY <1>4 DEF Register
  <2>3. \A i \in 1 .. 5 : engine'[StartOrder[i]] = IF i < step' THEN "running" ELSE "off"
    BY <2>1, <2>2, Places
  <2> QED BY <2>2, <2>3 DEF Shape, Unstarted
<1>5. CASE Start
  <2>1. /\ stage = "start"
        /\ engine' = [engine EXCEPT ![StartOrder[step]] = "running"]
        /\ \/ step < 5 /\ step' = step + 1 /\ stage' = stage
           \/ step >= 5 /\ step' = 1 /\ stage' = "running"
    BY <1>0, <1>5, Orders DEF Start
  <2>2. \A i \in 1 .. 5 : engine[StartOrder[i]] = IF i < step THEN "running" ELSE "off"
    BY <2>1 DEF Shape
  <2>3. \A i \in 1 .. 5 : engine'[StartOrder[i]] = IF i <= step THEN "running" ELSE "off"
    <3> TAKE i \in 1 .. 5
    <3>1. StartOrder[i] \in Engine /\ (StartOrder[i] = StartOrder[step] => i = step)
      BY <1>0, Places
    <3>2. engine'[StartOrder[i]] = IF i = step THEN "running" ELSE engine[StartOrder[i]]
      BY <1>0, <2>1, <3>1
    <3>3. i <= step <=> i < step \/ i = step
      BY <1>0
    <3> QED BY <2>2, <3>2, <3>3
  <2>4. CASE step < 5 /\ step' = step + 1 /\ stage' = stage
    <3>1. \A i \in 1 .. 5 : i < step' <=> i <= step
      BY <1>0, <2>4
    <3>2. \A i \in 1 .. 5 : engine'[StartOrder[i]] = IF i < step' THEN "running" ELSE "off"
      BY <2>3, <3>1
    <3> QED BY <2>1, <2>4, <3>2 DEF Shape, Unstarted
  <2>5. CASE step >= 5 /\ step' = 1 /\ stage' = "running"
    <3>1. \A i \in 1 .. 5 : i <= step
      BY <1>0, <2>5
    <3>2. \A e \in Engine : engine'[e] = "running"
      BY <2>3, <3>1, Places
    <3> QED BY <2>5, <3>2 DEF Shape, Unstarted
  <2> QED BY <2>1, <2>4, <2>5
<1>6. CASE StartFails
  BY <1>1, <1>6 DEF StartFails
<1>7. CASE CtrlC
  <2>1. CASE stage = "running" /\ Goes("stop") /\ step' = step
    <3>1. /\ stage' = "stop" /\ step' = 1 /\ engine' = engine
          /\ \A e \in Engine : engine[e] = "running"
      BY <2>1 DEF Goes, Shape
    <3>2. \A i \in 1 .. 5 : engine'[StopOrder[i]] = "running" /\ ~(i < step')
      BY <3>1, Places
    <3> QED BY <3>1, <3>2 DEF Shape, Unstarted
  <2> QED BY <1>1, <1>7, <2>1 DEF CtrlC
<1>8. CASE Cancel
  <2>1. /\ stage = "stop" /\ stage' = stage /\ step' = step
        /\ engine' = [engine EXCEPT ![StopOrder[step]] = "cancelled"]
    BY <1>8 DEF Cancel, main
  <2>2. \A i \in 1 .. 5 :
          engine'[StopOrder[i]] = IF i = step THEN "cancelled" ELSE engine[StopOrder[i]]
    <3> TAKE i \in 1 .. 5
    <3>1. StopOrder[i] \in Engine /\ (StopOrder[i] = StopOrder[step] => i = step)
      BY <1>0, Places
    <3> QED BY <1>0, <2>1, <3>1
  <2>3. \A i \in 1 .. 5 : (i < step \/ i > step) => i # step
    BY <1>0
  <2> QED BY <2>1, <2>2, <2>3 DEF Shape, Unstarted
<1>9. CASE Join
  <2>1. /\ stage = "stop" /\ engine[StopOrder[step]] = "stopped"
        /\ \/ step < 5 /\ step' = step + 1 /\ UNCHANGED <<stage, engine, feed>>
           \/ ProcessEnds("ended")
    BY <1>9, Orders DEF Join
  <2>2. CASE step < 5 /\ step' = step + 1 /\ UNCHANGED <<stage, engine, feed>>
    <3>1. \A i \in 1 .. 5 : /\ i < step' => i < step \/ i = step
                            /\ i >= step' => i > step
                            /\ i = step' => i > step
                            /\ i > step' => i > step
      BY <1>0, <2>2
    <3> QED BY <2>1, <2>2, <3>1 DEF Shape, Unstarted
  <2> QED BY <1>1, <2>1, <2>2
<1>10. CASE Check \/ Broadcast \/ GiveUp \/ Read
  <2>1. stage \in {"start", "running", "stop"}
    BY <1>10, RunsWhen DEF Check, Broadcast, GiveUp, Read, Engine
  <2>2. UNCHANGED <<stage, step, engine>>
    BY <1>10 DEF Check, Broadcast, GiveUp, Read, main
  <2> QED BY <2>1, <2>2 DEF Shape, Unstarted
<1>12. ASSUME NEW e \in Engine, End(e) PROVE Shape'
  <2>1. stage = "stop" /\ e = StopOrder[step]
    BY <1>12, OnlyOneCancelled DEF End
  <2>2. stage' = stage /\ step' = step /\ engine' = [engine EXCEPT ![StopOrder[step]] = "stopped"]
    BY <1>12, <2>1 DEF End, main
  <2>3. \A i \in 1 .. 5 :
          engine'[StopOrder[i]] = IF i = step THEN "stopped" ELSE engine[StopOrder[i]]
    <3> TAKE i \in 1 .. 5
    <3>1. StopOrder[i] \in Engine /\ (StopOrder[i] = StopOrder[step] => i = step)
      BY <1>0, Places
    <3> QED BY <1>0, <2>2, <3>1
  <2>4. \A i \in 1 .. 5 : (i < step \/ i > step) => i # step
    BY <1>0
  <2> QED BY <2>1, <2>2, <2>3, <2>4 DEF Shape, Unstarted
<1>13. CASE Accept \/ Reply \/ Send \/ Fail
  BY <1>13 DEF Accept, Reply, Send, Fail, main, news, feed, Shape, Unstarted
<1>14. CASE UNCHANGED vars
  BY <1>14 DEF vars, main, news, feed, Shape, Unstarted
<1> QED BY <1>2, <1>3, <1>4, <1>5, <1>6, <1>7, <1>8, <1>9, <1>10, <1>12, <1>13,
           <1>14 DEF Next, MainStep

LEMMA StepLoaded == LifecycleInv /\ [Next]_vars => Loaded'
<1> SUFFICES ASSUME Loaded, [Next]_vars PROVE Loaded'
  BY DEF LifecycleInv
<1>1. CASE Load
  BY <1>1 DEF Load, Goes, ProcessEnds, Loaded
<1>2. CASE Validate
  BY <1>2 DEF Validate, Goes, ProcessEnds, Loaded
<1>3. CASE Register
  BY <1>3 DEF Register, Loaded
<1>4. CASE Start
  BY <1>4 DEF Start, Loaded
<1>5. CASE StartFails
  BY <1>5 DEF StartFails, ProcessEnds, Loaded
<1>6. CASE CtrlC
  BY <1>6 DEF CtrlC, Goes, ProcessEnds, Loaded
<1>7. CASE Cancel
  BY <1>7 DEF Cancel, main, Loaded
<1>8. CASE Join
  BY <1>8 DEF Join, ProcessEnds, Loaded
<1>9. CASE \/ Check \/ Broadcast \/ GiveUp \/ Read \/ (\E e \in Engine : End(e))
           \/ Accept \/ Reply \/ Send \/ Fail \/ UNCHANGED vars
  <2>1. UNCHANGED main
    BY <1>9 DEF Check, Broadcast, GiveUp, Read, End, Accept, Reply, Send, Fail, vars
  <2> QED BY <2>1 DEF main, Loaded
<1> QED BY <1>1, <1>2, <1>3, <1>4, <1>5, <1>6, <1>7, <1>8, <1>9 DEF Next, MainStep

LEMMA StepStoreKnown == LifecycleInv /\ [Next]_vars => StoreKnown'
<1> SUFFICES ASSUME TypeOK, Loaded, StoreKnown, [Next]_vars PROVE StoreKnown'
  BY DEF LifecycleInv
<1>1. CASE Load \/ Validate
  BY <1>1 DEF Load, Validate, Goes, ProcessEnds, StoreKnown
<1>2. CASE Register
  <2>1. /\ stage = "register" /\ written' = written
        /\ DOMAIN store' = Registered(config.services)
    BY <1>2 DEF Register
  <2>2. Registered(config.services) = Registered(written.services)
    BY <2>1, RegisteredKept, LifecycleAssumption DEF Loaded, TypeOK
  <2> QED BY <2>1, <2>2 DEF StoreKnown
<1>3. CASE Start
  BY <1>3 DEF Start, news, StoreKnown
<1>4. CASE StartFails \/ CtrlC \/ Join
  BY <1>4 DEF StartFails, CtrlC, Join, Goes, ProcessEnds, StoreKnown
<1>5. CASE Cancel
  BY <1>5 DEF Cancel, main, news, StoreKnown
<1>6. CASE Check
  BY <1>6 DEF Check, main, StoreKnown
<1>7. CASE \/ Broadcast \/ GiveUp \/ Read \/ (\E e \in Engine : End(e))
           \/ Accept \/ Reply \/ Send \/ Fail \/ UNCHANGED vars
  <2>1. UNCHANGED <<main, store>>
    BY <1>7 DEF Broadcast, GiveUp, Read, End, Accept, Reply, Send, Fail, vars, news
  <2> QED BY <2>1 DEF main, StoreKnown
<1> QED BY <1>1, <1>2, <1>3, <1>4, <1>5, <1>6, <1>7 DEF Next, MainStep

\* The occurrences of an event in a channel, before and after one is put in or taken out.
Occurrences(c, id) == {k \in DOMAIN c : c[k] = id}

LEMMA OccurrencesFinite ==
  ASSUME NEW S, NEW c \in Seq(S), NEW id
  PROVE  IsFiniteSet(Occurrences(c, id)) /\ Cardinality(Occurrences(c, id)) \in Nat
<1>1. Len(c) \in Nat /\ DOMAIN c = 1 .. Len(c)
  OBVIOUS
<1>2. Occurrences(c, id) \in SUBSET (1 .. Len(c)) /\ IsFiniteSet(1 .. Len(c))
  BY <1>1, FS_Interval DEF Occurrences
<1> QED BY <1>2, FS_Subset, FS_CardinalityType

LEMMA AppendOccurs ==
  ASSUME NEW S, NEW c \in Seq(S), NEW e \in S, NEW id
  PROVE  Cardinality(Occurrences(Append(c, e), id)) =
           Cardinality(Occurrences(c, id)) + (IF e = id THEN 1 ELSE 0)
<1> DEFINE d == Append(c, e)
<1>1. /\ Len(c) \in Nat /\ DOMAIN c = 1 .. Len(c) /\ DOMAIN d = 1 .. Len(c) + 1
      /\ d[Len(c) + 1] = e /\ \A k \in 1 .. Len(c) : d[k] = c[k]
  OBVIOUS
<1> HIDE DEF d
<1>2. IsFiniteSet(Occurrences(c, id)) /\ Cardinality(Occurrences(c, id)) \in Nat
  BY OccurrencesFinite
<1>3. CASE e = id
  <2>1. Occurrences(d, id) = Occurrences(c, id) \cup {Len(c) + 1}
    BY <1>1, <1>3 DEF Occurrences
  <2>2. Len(c) + 1 \notin Occurrences(c, id)
    BY <1>1 DEF Occurrences
  <2> QED BY <1>2, <1>3, <2>1, <2>2, FS_AddElement DEF d
<1>4. CASE e # id
  <2>1. Occurrences(d, id) = Occurrences(c, id)
    BY <1>1, <1>4 DEF Occurrences
  <2> QED BY <1>2, <1>4, <2>1 DEF d
<1> QED BY <1>3, <1>4

LEMMA TailOccurs ==
  ASSUME NEW S, NEW c \in Seq(S), c # <<>>, NEW id
  PROVE  Cardinality(Occurrences(Tail(c), id)) =
           Cardinality(Occurrences(c, id)) - (IF Head(c) = id THEN 1 ELSE 0)
<1> DEFINE d == Tail(c)
           A == Occurrences(d, id)
           B == Occurrences(c, id) \ {1}
           f == [k \in A |-> k + 1]
<1>1. /\ Len(c) \in Nat \ {0} /\ DOMAIN c = 1 .. Len(c) /\ DOMAIN d = 1 .. Len(c) - 1
      /\ Head(c) = c[1] /\ \A k \in 1 .. Len(c) - 1 : d[k] = c[k + 1]
      /\ d \in Seq(S)
  OBVIOUS
<1> HIDE DEF d
<1>2. /\ IsFiniteSet(Occurrences(c, id)) /\ Cardinality(Occurrences(c, id)) \in Nat
      /\ IsFiniteSet(A)
  BY <1>1, OccurrencesFinite
<1>3. \A k \in A : k \in Int /\ k + 1 \in B
  BY <1>1 DEF Occurrences
<1>4. \A k \in B : k - 1 \in A /\ (k - 1) + 1 = k
  BY <1>1 DEF Occurrences
<1> HIDE DEF A, B
<1>5. f \in Bijection(A, B)
  <2>1. f \in [A -> B] /\ \A k \in A : f[k] = k + 1
    BY <1>3
  <2> HIDE DEF f
  <2>2. \A j \in A, k \in A : f[j] = f[k] => j = k
    BY <1>3, <2>1
  <2>3. \A k \in B : \E j \in A : f[j] = k
    BY <1>4, <2>1
  <2> QED BY <2>1, <2>2, <2>3 DEF Bijection, Injection, IsInjective, Surjection
<1>6. Cardinality(B) = Cardinality(A)
  BY <1>2, <1>5, FS_Bijection DEF ExistsBijection
<1>7. Cardinality(B) = IF 1 \in Occurrences(c, id) THEN Cardinality(Occurrences(c, id)) - 1
                                                  ELSE Cardinality(Occurrences(c, id))
  BY <1>2, FS_RemoveElement DEF B
<1>8. 1 \in Occurrences(c, id) <=> Head(c) = id
  BY <1>1 DEF Occurrences
<1> QED BY <1>2, <1>6, <1>7, <1>8 DEF A, d

\* A broadcast that is received neither makes events nor loses any in silence.
LEMMA PublishAccounts ==
  ASSUME TypeOK, HasReceiver, NEW id \in DOMAIN store, NEW due \in [DOMAIN store -> Int],
         Publish(id, due), NEW d \in DOMAIN store
  PROVE  /\ InChannel(d)' \in Nat
         /\ owed'[d] = due[d] + InChannel(d)' - InChannel(d) - (IF d = id THEN 1 ELSE 0)
<1> DEFINE n == Cardinality(Occurrences(channel, d))
           n1 == Cardinality(Occurrences(channel', d))
<1>1. /\ channel \in Seq(DOMAIN store) /\ Len(channel) \in Nat /\ Len(channel) <= Capacity
      /\ Capacity \in Nat \ {0}
  BY FeedType, CapacityType
<1>2. InChannel(d) = n /\ InChannel(d)' = n1
  BY DEF InChannel, Occurrences
<1>3. n \in Nat
  BY <1>1, OccurrencesFinite
<1>4. n1 \in Nat
  BY PublishType, OccurrencesFinite
<1>5. due[d] \in Int
  OBVIOUS
<1>6. CASE Len(channel) < Capacity
  <2>1. owed' = due /\ channel' = Append(channel, id)
    BY <1>6 DEF Publish
  <2>2. Cardinality(Occurrences(Append(channel, id), d)) = n + (IF id = d THEN 1 ELSE 0)
    BY <1>1, AppendOccurs
  <2>3. n1 = n + (IF id = d THEN 1 ELSE 0)
    BY <2>1, <2>2
  <2> HIDE DEF n, n1
  <2> QED BY <1>2, <1>3, <1>4, <1>5, <2>1, <2>3
<1>7. CASE ~(Len(channel) < Capacity)
  <2> DEFINE rest == Tail(channel)
             m == Cardinality(Occurrences(rest, d))
  <2>1. /\ owed' = [due EXCEPT ![Head(channel)] = @ - 1]
        /\ channel' = Append(rest, id)
    BY <1>7 DEF Publish
  <2>2. channel # <<>>
    BY <1>1, <1>7
  <2>3. rest \in Seq(DOMAIN store) /\ Head(channel) \in DOMAIN store
    BY <1>1, <2>2
  <2>4. m = n - (IF Head(channel) = d THEN 1 ELSE 0)
    BY <1>1, <2>2, TailOccurs
  <2> HIDE DEF rest
  <2>5. Cardinality(Occurrences(Append(rest, id), d)) = m + (IF id = d THEN 1 ELSE 0)
    BY <2>3, AppendOccurs
  <2>6. n1 = m + (IF id = d THEN 1 ELSE 0)
    BY <2>1, <2>5
  <2>7. owed'[d] = due[d] - (IF Head(channel) = d THEN 1 ELSE 0)
    BY <1>5, <2>1, <2>3
  <2> HIDE DEF n, n1, m
  <2> QED BY <1>2, <1>3, <1>4, <1>5, <2>4, <2>6, <2>7
<1> QED BY <1>6, <1>7

\* The alert engine is awaited without a break.
LEMMA AwaitedKept ==
  ASSUME LifecycleInv, [Next]_vars, Awaited'
  PROVE  /\ Awaited \/ Register
         /\ stage' \notin {"ended", "aborted", "killed"}
<1>1. TypeOK' /\ Shape'
  BY StepType, StepShape
<1>2. stage' \in {"start", "running", "stop"}
  <2>1. CASE stage' = "start"
    BY <2>1
  <2>2. CASE engine'["alert"] \in {"running", "cancelled"}
    BY <1>1, <2>2 DEF TypeOK, Stages, Shape, Unstarted, Engine
  <2> QED BY <2>1, <2>2 DEF Awaited, Running
<1>3. CASE Load \/ Validate
  BY <1>2, <1>3 DEF Load, Validate, Goes, ProcessEnds
<1>4. CASE StartFails
  BY <1>2, <1>4 DEF StartFails, ProcessEnds
<1>5. CASE CtrlC
  BY <1>2, <1>5 DEF CtrlC, Goes, ProcessEnds, Awaited, Running
<1>6. CASE Start
  BY <1>2, <1>6 DEF Start, Awaited
<1>7. CASE Cancel
  <2>1. stage' = stage /\ engine[StopOrder[step]] = "running"
        /\ engine' = [engine EXCEPT ![StopOrder[step]] = "cancelled"]
    BY <1>7 DEF Cancel, main
  <2>2. engine \in [Engine -> {"off", "running", "cancelled", "stopped"}]
    BY DEF LifecycleInv, TypeOK
  <2>3. engine'["alert"] = engine["alert"] \/ engine["alert"] = "running"
    BY <2>1, <2>2 DEF Engine
  <2> QED BY <1>2, <2>1, <2>3 DEF Awaited, Running
<1>8. CASE Join
  BY <1>2, <1>8 DEF Join, ProcessEnds, Awaited, Running
<1>9. ASSUME NEW e \in Engine, End(e) PROVE Awaited
  <2>1. stage' = stage /\ engine[e] = "cancelled" /\ engine' = [engine EXCEPT ![e] = "stopped"]
    BY <1>9 DEF End, main
  <2>2. engine \in [Engine -> {"off", "running", "cancelled", "stopped"}]
    BY DEF LifecycleInv, TypeOK
  <2>3. engine'["alert"] = engine["alert"] \/ engine["alert"] = "cancelled"
    BY <2>1, <2>2 DEF Engine
  <2> QED BY <2>1, <2>3 DEF Awaited, Running
<1>10. CASE \/ Check \/ Broadcast \/ GiveUp \/ Read
            \/ Accept \/ Reply \/ Send \/ Fail \/ UNCHANGED vars
  <2>1. UNCHANGED <<stage, engine>>
    BY <1>10 DEF Check, Broadcast, GiveUp, Read, Accept, Reply, Send, Fail, vars, main
  <2> QED BY <1>2, <2>1 DEF Awaited, Running
<1> QED BY <1>2, <1>3, <1>4, <1>5, <1>6, <1>7, <1>8, <1>9, <1>10 DEF Next, MainStep

LEMMA StepNoSilentLoss == LifecycleInv /\ [Next]_vars => NoSilentLoss'
<1> SUFFICES ASSUME LifecycleInv, [Next]_vars, Awaited', NEW d \in DOMAIN store'
             PROVE  owed'[d] = unsent'[d] + InChannel(d)'
  BY DEF NoSilentLoss
<1>1. TypeOK /\ Shape
  BY DEF LifecycleInv
<1>2. CASE Register
  <2>1. owed'[d] = 0 /\ unsent'[d] = 0
    BY <1>2 DEF Register, NoEvents
  <2>2. channel' = <<>>
    BY <1>1, <1>2 DEF Register, Shape, Unstarted
  <2>3. InChannel(d)' = 0
    <3>1. {k \in DOMAIN channel' : channel'[k] = d} = {}
      BY <2>2
    <3> QED BY <3>1, FS_EmptySet DEF InChannel
  <2> QED BY <2>1, <2>3
<1> SUFFICES ASSUME ~Register PROVE owed'[d] = unsent'[d] + InChannel(d)'
  BY <1>2
<1>3. Awaited /\ stage' \notin {"ended", "aborted", "killed"}
  BY AwaitedKept
<1>4. \A id \in DOMAIN store : owed[id] = unsent[id] + InChannel(id)
  BY <1>3 DEF LifecycleInv, NoSilentLoss
<1>5. HasReceiver
  BY <1>3 DEF Awaited, HasReceiver
<1>6. /\ channel \in Seq(DOMAIN store)
      /\ unsent \in [DOMAIN store -> Nat] /\ owed \in [DOMAIN store -> Int]
  BY <1>1 DEF TypeOK
<1>7. \A id \in DOMAIN store : InChannel(id) \in Nat
  BY <1>6, OccurrencesFinite DEF InChannel, Occurrences
<1>8. ASSUME UNCHANGED <<store, feed>> PROVE owed'[d] = unsent'[d] + InChannel(d)'
  BY <1>4, <1>8 DEF feed, InChannel
<1>9. CASE Load \/ Validate \/ StartFails \/ CtrlC
  BY <1>3, <1>8, <1>9 DEF Load, Validate, StartFails, CtrlC, Goes, ProcessEnds
<1>10. CASE Join
  BY <1>3, <1>8, <1>10 DEF Join, ProcessEnds
<1>11. CASE Start \/ Cancel \/ Accept \/ Reply \/ Send \/ Fail \/ UNCHANGED vars
  BY <1>8, <1>11 DEF Start, Cancel, Accept, Reply, Send, Fail, vars, news
<1>12. CASE Check
  <2>1. PICK id \in DOMAIN store :
          /\ DOMAIN store' = DOMAIN store
          /\ unsent' = [unsent EXCEPT ![id] = @ + 1]
          /\ owed' = [owed EXCEPT ![id] = @ + 1]
          /\ channel' = channel
    BY <1>3, <1>12 DEF Check, Owe
  <2>2. InChannel(d)' = InChannel(d)
    BY <2>1 DEF InChannel
  <2> QED BY <1>4, <1>6, <1>7, <2>1, <2>2
<1>13. CASE Broadcast
  <2>1. PICK id \in DOMAIN store :
          unsent' = [unsent EXCEPT ![id] = @ - 1] /\ Publish(id, owed)
    BY <1>13 DEF Broadcast
  <2>2. d \in DOMAIN store
    BY <1>13 DEF Broadcast
  <2>3. /\ InChannel(d)' \in Nat
        /\ owed'[d] = owed[d] + InChannel(d)' - InChannel(d) - (IF d = id THEN 1 ELSE 0)
    BY <1>1, <1>5, <1>6, <2>1, <2>2, PublishAccounts
  <2>4. unsent'[d] = unsent[d] - (IF d = id THEN 1 ELSE 0)
    BY <1>6, <2>1, <2>2
  <2> QED BY <1>4, <1>6, <1>7, <2>2, <2>3, <2>4
<1>14. CASE GiveUp
  <2>1. PICK id \in DOMAIN store : Publish(id, [owed EXCEPT ![id] = @ + 1])
    BY <1>3, <1>14 DEF GiveUp, Owe
  <2>2. d \in DOMAIN store /\ unsent' = unsent
    BY <1>14 DEF GiveUp
  <2>3. [owed EXCEPT ![id] = @ + 1] \in [DOMAIN store -> Int]
    BY <1>6
  <2>4. /\ InChannel(d)' \in Nat
        /\ owed'[d] = [owed EXCEPT ![id] = @ + 1][d] + InChannel(d)' - InChannel(d)
                        - (IF d = id THEN 1 ELSE 0)
    BY <1>1, <1>5, <2>1, <2>2, <2>3, PublishAccounts
  <2>5. [owed EXCEPT ![id] = @ + 1][d] = owed[d] + (IF d = id THEN 1 ELSE 0)
    BY <1>6, <2>2
  <2> QED BY <1>4, <1>6, <1>7, <2>2, <2>4, <2>5
<1>15. CASE Read
  <2>1. d \in DOMAIN store /\ unsent' = unsent
    BY <1>15 DEF Read
  <2>2. CASE UNCHANGED <<channel, owed>>
    BY <1>4, <2>1, <2>2 DEF InChannel
  <2>3. CASE channel # <<>> /\ channel' = Tail(channel)
             /\ owed' = [owed EXCEPT ![Head(channel)] = @ - 1]
    <3>1. InChannel(d)' = InChannel(d) - (IF Head(channel) = d THEN 1 ELSE 0)
      <4>1. Cardinality(Occurrences(Tail(channel), d)) =
              Cardinality(Occurrences(channel, d)) - (IF Head(channel) = d THEN 1 ELSE 0)
        BY <1>6, <2>3, TailOccurs
      <4>2. InChannel(d)' = Cardinality(Occurrences(Tail(channel), d))
            /\ InChannel(d) = Cardinality(Occurrences(channel, d))
        BY <2>3 DEF InChannel, Occurrences
      <4> QED BY <4>1, <4>2
    <3>2. owed'[d] = owed[d] - (IF Head(channel) = d THEN 1 ELSE 0)
      BY <1>6, <2>1, <2>3
    <3> QED BY <1>4, <1>6, <1>7, <2>1, <3>1, <3>2
  <2> QED BY <1>15, <2>2, <2>3 DEF Read
<1>16. ASSUME NEW e \in Engine, End(e) PROVE owed'[d] = unsent'[d] + InChannel(d)'
  <2>1. stage = "stop" /\ stage' = stage /\ e = StopOrder[step]
    BY <1>1, <1>16, OnlyOneCancelled DEF End, main
  <2>2. engine'["alert"] \in {"running", "cancelled"}
    BY <2>1 DEF Awaited, Running
  <2>3. e # "alert"
    BY <1>1, <1>16, <2>2 DEF End, TypeOK
  <2>4. e # "health"
    <3>1. SUFFICES ASSUME e = "health" PROVE FALSE
      OBVIOUS
    <3>2. step = 4
      <4>1. step \in 1 .. 5
        BY <1>1 DEF TypeOK
      <4>2. StopOrder[step] = StopOrder[4] /\ 4 \in 1 .. 5
        BY <2>1, <3>1, Orders
      <4> QED BY <4>1, <4>2, Places
    <3>3. engine["alert"] = "stopped"
      BY <1>1, <2>1, <3>2, Orders DEF Shape
    <3> QED BY <1>1, <1>16, <2>2, <3>1, <3>3 DEF End, TypeOK, Engine
  <2> QED BY <1>8, <1>16, <2>3, <2>4 DEF End, feed
<1> QED BY <1>9, <1>10, <1>11, <1>12, <1>13, <1>14, <1>15, <1>16 DEF Next, MainStep

-----------------------------------------------------------------------------
(* vela-ctl.                                                               *)

LEMMA StepAsking == LifecycleInv /\ [Next]_vars => Asking'
<1> SUFFICES ASSUME TypeOK, Shape, Asking, [Next]_vars PROVE Asking'
  BY DEF LifecycleInv
<1>1. CASE Load \/ Validate \/ StartFails \/ CtrlC \/ Join
  <2>1. UNCHANGED <<store, client>>
    BY <1>1 DEF Load, Validate, StartFails, CtrlC, Join
  <2>2. stage \notin Unstarted => stage' \notin Unstarted
    BY <1>1 DEF Load, Validate, StartFails, CtrlC, Join, Goes, ProcessEnds, Unstarted
  <2> QED BY <2>1, <2>2 DEF client, Asking
<1>2. CASE Register
  <2>1. ctl \notin {"sent", "accepted"}
    BY <1>2 DEF Register, Asking, Unstarted
  <2> QED BY <1>2, <2>1 DEF Register, client, Asking
<1>3. CASE Start \/ Cancel
  <2>1. UNCHANGED <<store, client>>
    BY <1>3 DEF Start, Cancel, news
  <2>2. stage' \notin Unstarted
    BY <1>3 DEF Start, Cancel, main, Unstarted
  <2> QED BY <2>1, <2>2 DEF client, Asking
<1>4. CASE Check
  <2>1. PICK id \in DOMAIN store : \E status \in Statuses \ {store[id]} :
          /\ store' = [store EXCEPT ![id] = status]
          /\ seen' = IF ctl \in {"sent", "accepted"} /\ request.id = id
                     THEN seen \cup {status} ELSE seen
    BY <1>4 DEF Check
  <2>2. UNCHANGED <<stage, ctl, request, told, shown>>
    BY <1>4 DEF Check, main
  <2> QED BY <2>1, <2>2 DEF Asking
<1>5. CASE Broadcast \/ GiveUp \/ Read \/ (\E e \in Engine : End(e)) \/ UNCHANGED vars
  <2>1. UNCHANGED <<stage, store, client>>
    BY <1>5 DEF Broadcast, GiveUp, Read, End, vars, main, news
  <2> QED BY <2>1 DEF client, Asking
<1>6. CASE Send
  <2>1. CASE Running("api")
    <3>1. ctl = "idle" /\ UNCHANGED <<stage, store, request, told, shown>>
          /\ seen' = {store[id] : id \in DOMAIN store \cap {request.id}}
      BY <1>6, <2>1 DEF Send, main, news
    <3>2. stage \notin Unstarted
      BY <2>1, RunsWhen DEF Engine, Unstarted
    <3> QED BY <3>1, <3>2 DEF Asking
  <2>2. CASE ~Running("api")
    BY <1>6, <2>2 DEF Send, Asking
  <2> QED BY <2>1, <2>2
<1>7. CASE Accept \/ Reply \/ Fail
  BY <1>7 DEF Accept, Reply, Fail, main, news, Asking
<1> QED BY <1>1, <1>2, <1>3, <1>4, <1>5, <1>6, <1>7 DEF Next, MainStep

\* The answer a handler gives agrees with config.toml and with the store.
LEMMA StepTruth == LifecycleInv /\ [Next]_vars => CtlTellsTruth'
<1> SUFFICES ASSUME LifecycleInv, [Next]_vars PROVE CtlTellsTruth'
  OBVIOUS
<1> USE DEF LifecycleInv
<1>1. CASE Reply
  <2>1. stage \in {"start", "running", "stop"} /\ ctl = "accepted"
    BY <1>1, RunsWhen DEF Reply, Engine
  <2>2. /\ DOMAIN store = Registered(written.services)
        /\ Registered(config.services) = Registered(written.services)
    BY <2>1, RegisteredKept, LifecycleAssumption DEF StoreKnown, Loaded, TypeOK
  <2> DEFINE code == Code(request, store, Registered(config.services))
             known == request.route = "status" \/ request.id \in Registered(written.services)
  <2>3. code \in {200, 400, 401, 404}
    BY DEF Code, Routed, Handled
  <2>4. /\ code = 200 => request.key /\ known
        /\ code = 404 => request.key /\ (~known \/ request.id \in Unroutable)
        /\ code = 400 => request.key /\ request.id \in Malformed
        /\ code = 401 => ~request.key
    <3>1. request.route \in Route
      BY LifecycleAssumption DEF TypeOK, Request
    <3> QED BY <2>2, <3>1 DEF Route, Code, Routed, Handled
  <2>5. request.route = "service" /\ code = 200 => request.id \in DOMAIN store
    BY <2>2, <2>4
  <2> HIDE DEF code
  <2>6. /\ Told(code) = "ok" => code = 200
        /\ Told(code) = "not found" => code = 404
        /\ Told(code) = "error" => code = 400
        /\ Told(code) = "denied" => code = 401
        /\ code = 200 => Told(code) = "ok"
    BY <2>3 DEF Told
  <2>7. /\ told' = Told(code)
        /\ shown' = IF request.route = "service" /\ code = 200 THEN store[request.id] ELSE Nothing
        /\ UNCHANGED <<request, written, seen>>
    BY <1>1 DEF Reply, Body, code, main
  <2>8. shown' # Nothing => told' = "ok" /\ shown' \in seen'
    BY <2>1, <2>5, <2>6, <2>7 DEF Asking
  <2>9. told' = "ok" => request.key /\ known
    BY <2>4, <2>6, <2>7
  <2>10. told' = "not found" => request.key /\ (~known \/ request.id \in Unroutable)
    BY <2>4, <2>6, <2>7
  <2>11. told' = "error" => request.key /\ request.id \in Malformed
    BY <2>4, <2>6, <2>7
  <2>12. told' = "denied" => ~request.key
    BY <2>4, <2>6, <2>7
  <2>13. request' = request /\ written' = written
    BY <2>7
  <2> QED BY Zenon, <2>8, <2>9, <2>10, <2>11, <2>12, <2>13 DEF CtlTellsTruth
<1>2. CASE Send
  <2>1. ctl = "idle" /\ shown' = shown
    BY <1>2 DEF Send
  <2>2. ctl' = "done" => told' = "unreachable"
    BY <1>2 DEF Send
  <2> QED BY <2>1, <2>2 DEF Asking, CtlTellsTruth
<1>3. CASE Fail
  <2>1. ctl \in {"sent", "accepted"} /\ shown' = shown /\ told' = "unreachable"
    BY <1>3 DEF Fail
  <2> QED BY <2>1 DEF Asking, CtlTellsTruth
<1>4. CASE Accept
  BY <1>4 DEF Accept, CtlTellsTruth
<1>5. CASE Check
  <2>1. UNCHANGED <<written, ctl, request, told, shown>>
    BY <1>5 DEF Check, main
  <2>2. ctl = "done" => seen' = seen
    BY <1>5 DEF Check
  <2> QED BY <2>1, <2>2 DEF CtlTellsTruth
<1>6. CASE \/ MainStep \/ CtrlC \/ Broadcast \/ GiveUp \/ Read \/ (\E e \in Engine : End(e))
           \/ UNCHANGED vars
  <2>1. UNCHANGED <<written, client>>
    BY <1>6 DEF MainStep, Load, Validate, Register, Start, StartFails, Cancel, Join, CtrlC,
                Broadcast, GiveUp, Read, End, vars, main
  <2> QED BY <2>1 DEF client, CtlTellsTruth
<1> QED BY <1>1, <1>2, <1>3, <1>4, <1>5, <1>6 DEF Next

-----------------------------------------------------------------------------
(* Theorems.                                                               *)

LEMMA LifecycleInvariance == Spec => []LifecycleInv
<1>1. LifecycleInv /\ [Next]_vars => LifecycleInv'
  BY StepType, StepShape, StepLoaded, StepStoreKnown, StepAsking, StepNoSilentLoss, StepTruth
     DEF LifecycleInv
<1> QED BY InitLifecycle, <1>1, PTL DEF Spec

\* Every state of a run is well typed, whatever config.toml holds.
THEOREM LifecycleTypeOK == Spec => []TypeOK
<1>1. LifecycleInv => TypeOK
  BY DEF LifecycleInv
<1> QED BY LifecycleInvariance, <1>1, PTL

\* The two validations of main.rs and config.rs together leave the engines nothing to be
\* surprised by, and the fields of older files never override what is written out.
THEOREM LifecycleConfigSound == Spec => []ConfigSound
<1>1. LifecycleInv => ConfigSound
  <2> SUFFICES ASSUME LifecycleInv,
                      stage \in {"register", "start", "running", "stop", "ended"}
               PROVE  Sound(config) /\ Conservative(written, config)
    BY DEF ConfigSound
  <2> QED BY AcceptedIsSound, LifecycleAssumption DEF LifecycleInv, Loaded, TypeOK
<1> QED BY LifecycleInvariance, <1>1, PTL

\* From the first check on until the alert engine has ended, whatever it has not received
\* is still to be sent or in the channel, or has fallen off a full one: the health engine
\* may start before it and the shutdown may have begun.
THEOREM LifecycleNoSilentLoss == Spec => []NoSilentLoss
<1>1. LifecycleInv => NoSilentLoss
  BY DEF LifecycleInv
<1> QED BY LifecycleInvariance, <1>1, PTL

\* No engine outlives one it needs, in the start and in the shutdown of main.rs.
THEOREM LifecycleOrderKept == Spec => []OrderKept
<1>1. LifecycleInv => OrderKept
  <2> SUFFICES ASSUME TypeOK, Shape PROVE OrderKept
    BY DEF LifecycleInv
  <2>0. step \in 1 .. 5
    BY DEF TypeOK
  <2>1. ASSUME Running("recovery") PROVE engine["health"] = "running"
    <3>1. stage \in {"start", "running", "stop"}
      BY <2>1, RunsWhen DEF Engine
    <3>2. CASE stage = "start"
      BY <2>0, <2>1, <3>2, Orders DEF Shape, Running
    <3>3. CASE stage = "running"
      BY <3>3 DEF Shape, Engine
    <3>4. CASE stage = "stop"
      <4>1. ~(3 < step)
        BY <2>1, <3>4, Orders DEF Shape, Running
      <4> QED BY <2>0, <3>4, <4>1, Orders DEF Shape
    <3> QED BY <3>1, <3>2, <3>3, <3>4
  <2>2. ASSUME stage = "stop", NEW e \in Engine \ {"api"}, Running(e)
        PROVE  engine["api"] = "running"
    <3>1. PICK i \in 1 .. 4 : StopOrder[i] = e
      BY Orders DEF Engine
    <3>2. ~(i < step)
      BY <2>2, <3>1 DEF Shape, Running
    <3> QED BY <2>0, <2>2, <3>2, Orders DEF Shape
  <2> QED BY <2>1, <2>2 DEF OrderKept
<1> QED BY LifecycleInvariance, <1>1, PTL

\* What vela-ctl says of a service agrees with config.toml and with a status the service
\* had while vela-ctl waited.
THEOREM LifecycleCtlTellsTruth == Spec => []CtlTellsTruth
<1>1. LifecycleInv => CtlTellsTruth
  BY DEF LifecycleInv
<1> QED BY LifecycleInvariance, <1>1, PTL
=============================================================================
