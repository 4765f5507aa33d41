------------------------------ MODULE MCHealth ------------------------------
(* Two instances.  Siblings: one service with two upstreams, the second a  *)
(* container.  Edges: a service with a single container, a service that    *)
(* lists one address twice, and one configured with a zero check interval. *)
EXTENDS HealthEngine

SiblingsServiceOf == <<"web", "web">>
SiblingsAddr == <<"a", "b">>
SiblingsThreshold == [s \in Service |-> 2]

EdgesServiceOf == <<"db", "dup", "dup", "cron">>
EdgesAddr == <<"a", "b", "b", "c">>
EdgesThreshold == [s \in Service |-> IF s = "db" THEN 2 ELSE 1]
=============================================================================
