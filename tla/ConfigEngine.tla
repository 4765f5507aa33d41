---------------------------- MODULE ConfigEngine ----------------------------
(***************************************************************************)
(* The config engine (config.rs), the port rules of the proxy engine       *)
(* (proxy.rs, validate_proxy_config) and the registration of the services: *)
(* which configurations Vela accepts, and what it makes of the fields of   *)
(* older files.  A text is present or absent, an id is a value, a port a   *)
(* number.                                                                 *)
(***************************************************************************)
EXTENDS Integers, Sequences

CONSTANTS
  Id,      \* what may be written as an id
  BadId,   \* those with a character that is no letter, digit or hyphen
  Host,    \* what may be written as a host
  None     \* a field that is left out

Port == 0 .. 65535

Mode == {"docker", "manual", "none"}

RestartConfig == [mode : Mode, command : BOOLEAN, docker : BOOLEAN]

ASSUME ConfigAssumption ==
  /\ BadId \subseteq Id
  /\ None \notin Port
  /\ None \notin Host
  /\ None \notin RestartConfig

UpstreamConfig == [host : Host, port : Port]

\* A [[services]] block, as far as a rule looks at it.
ServiceConfig ==
  [id : Id, host : Host \cup {None}, port : Port \cup {None}, command : BOOLEAN,
   upstreams : Seq(UpstreamConfig), restart : RestartConfig \cup {None},
   http : BOOLEAN, http_path : BOOLEAN, proxy : Port \cup {None}]

VelaConfig == [api_key : BOOLEAN, api_port : Port, services : Seq(ServiceConfig)]

-----------------------------------------------------------------------------
(* load_config: the fields of older files first, then the rules.           *)

\* A wrong rule: a host is enough.
HasAddress_Host(svc) == svc.upstreams # <<>> \/ svc.host # None

\* upstreams is written out, or host and port are both given.
HasAddress(svc) ==
  svc.upstreams # <<>> \/ (svc.host # None /\ svc.port # None)

\* A wrong translation: the flat address is an upstream beside the others.
Synthesized_Both(svc) ==
  [svc EXCEPT
     !.upstreams = IF svc.host = None THEN @ ELSE Append(@, [host |-> svc.host, port |-> svc.port]),
     !.restart = IF @ # None THEN @
                 ELSE [mode |-> IF svc.command THEN "manual" ELSE "none",
                       command |-> svc.command, docker |-> FALSE]]

\* What is written out stands; the flat fields only fill what is left out.
Synthesized(svc) ==
  [svc EXCEPT
     !.upstreams = IF @ # <<>> THEN @ ELSE <<[host |-> svc.host, port |-> svc.port]>>,
     !.restart = IF @ # None THEN @
                 ELSE [mode |-> IF svc.command THEN "manual" ELSE "none",
                       command |-> svc.command, docker |-> FALSE]]

\* RestartConfig::validate
RestartValid(restart) ==
  /\ restart.mode = "docker" => restart.docker
  /\ restart.mode = "manual" => restart.command

synthesize_backward_compat_fields(config) ==
  [config EXCEPT !.services = [i \in DOMAIN @ |-> Synthesized(@[i])]]

validate_config(config) ==
  LET services == config.services
  IN  /\ config.api_key
      /\ services # <<>>
      /\ \A i \in DOMAIN services :
           /\ services[i].id \notin BadId
           /\ \A j \in 1 .. i - 1 : services[j].id # services[i].id
           /\ services[i].http => services[i].http_path
           /\ \A k \in DOMAIN services[i].upstreams : services[i].upstreams[k].port # 0

\* load_config returns Ok
Loads(config) ==
  /\ \A i \in DOMAIN config.services :
       /\ HasAddress(config.services[i])
       /\ RestartValid(Synthesized(config.services[i]).restart)
  /\ validate_config(synthesize_backward_compat_fields(config))

-----------------------------------------------------------------------------
(* The ports Vela listens on.                                              *)

OwnPorts(svc) == {svc.upstreams[k].port : k \in DOMAIN svc.upstreams}

\* No listen port is zero, one of the service's own upstream ports, the API's, or a
\* listen port of an earlier service.  The upstream ports of other services may be.
validate_proxy_config(config) ==
  LET services == config.services
  IN  \A i \in DOMAIN services : services[i].proxy # None =>
        /\ services[i].proxy # 0
        /\ services[i].proxy \notin OwnPorts(services[i])
        /\ services[i].proxy # config.api_port
        /\ \A j \in 1 .. i - 1 : services[j].proxy # services[i].proxy

\* build_proxy_bindings: the ports the proxy engine is to listen on.
ProxyPorts(services) ==
  {services[i].proxy : i \in {j \in DOMAIN services : services[j].proxy # None}}

\* register_services: the services that have a state in the store.
Registered(services) == {services[i].id : i \in DOMAIN services}

-----------------------------------------------------------------------------
(* What the engines rely on.                                               *)

\* Every service can be checked and, unless its mode is none, restarted: the
\* "unreachable" branches of the engines are.
Workable(svc) ==
  /\ svc.upstreams # <<>>
  /\ 0 \notin OwnPorts(svc)
  /\ svc.restart \in RestartConfig
  /\ RestartValid(svc.restart)
  /\ svc.http => svc.http_path

\* Maps keyed by id lose no service, and no two listeners want the same port.
Sound(config) ==
  LET services == config.services
  IN  /\ services # <<>>
      /\ \A i \in DOMAIN services :
           /\ Workable(services[i])
           /\ services[i].proxy \notin OwnPorts(services[i]) \cup {config.api_port}
           /\ \A j \in DOMAIN services \ {i} :
                /\ services[j].id # services[i].id
                /\ services[i].proxy # None => services[j].proxy # services[i].proxy

\* What was written out is what Vela runs with.
Conservative(written, loaded) ==
  \A i \in DOMAIN written.services :
    LET w == written.services[i]
        l == loaded.services[i]
    IN  /\ w.upstreams # <<>> => l.upstreams = w.upstreams
        /\ w.restart # None => l.restart = w.restart
        /\ l.restart.mode = "none" /\ w.restart = None => ~w.command
=============================================================================
