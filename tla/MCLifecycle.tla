----------------------------- MODULE MCLifecycle -----------------------------
(* A service written every way that matters to a rule, alone or beside     *)
(* another one, on a host where some ports are taken.  Every upstream is    *)
(* on this host.                                                           *)
EXTENDS Lifecycle

\* The flat form of a service, and the forms that differ from it in one field.
Flat == [id |-> "web", host |-> "local", port |-> 80, command |-> TRUE, upstreams |-> <<>>,
         restart |-> None, http |-> FALSE, http_path |-> FALSE, proxy |-> 90]

Variants ==
  {Flat,
   [Flat EXCEPT !.port = None],
   [Flat EXCEPT !.host = None, !.port = None],
   [Flat EXCEPT !.port = 0],
   [Flat EXCEPT !.command = FALSE],
   [Flat EXCEPT !.upstreams = <<[host |-> "local", port |-> 81], [host |-> "local", port |-> 82]>>],
   [Flat EXCEPT !.upstreams = <<[host |-> "local", port |-> 90]>>],
   [Flat EXCEPT !.restart = [mode |-> "docker", command |-> FALSE, docker |-> FALSE]],
   [Flat EXCEPT !.restart = [mode |-> "docker", command |-> FALSE, docker |-> TRUE]],
   [Flat EXCEPT !.restart = [mode |-> "manual", command |-> FALSE, docker |-> FALSE]],
   [Flat EXCEPT !.http = TRUE],
   [Flat EXCEPT !.proxy = 70],
   [Flat EXCEPT !.id = "w b"]}

Others ==
  {[Flat EXCEPT !.id = "db", !.port = 90, !.proxy = None],
   [Flat EXCEPT !.id = "", !.proxy = 91],
   [Flat EXCEPT !.id = "db"],
   [Flat EXCEPT !.proxy = None]}

MCConfigs ==
  {[api_key |-> TRUE, api_port |-> 70, services |-> <<v>>] : v \in Variants}
  \cup {[api_key |-> TRUE, api_port |-> 70, services |-> <<Flat, o>>] : o \in Others}
  \cup {[api_key |-> FALSE, api_port |-> 70, services |-> <<Flat>>],
        [api_key |-> TRUE, api_port |-> 70, services |-> <<>>]}

MCRequests ==
  {[route |-> "status", id |-> "web", key |-> TRUE],
   [route |-> "service", id |-> "web", key |-> TRUE],
   [route |-> "history", id |-> "web", key |-> TRUE],
   [route |-> "history", id |-> "web", key |-> FALSE],
   [route |-> "service", id |-> "db", key |-> TRUE],
   [route |-> "service", id |-> "w b", key |-> TRUE],
   [route |-> "history", id |-> "", key |-> TRUE],
   [route |-> "history", id |-> "", key |-> FALSE]}

\* Nothing else listens; a process listens on a port that a proxy, or the API, wants.
MCTaken == {{}, {90}, {70}}
=============================================================================
