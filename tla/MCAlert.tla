------------------------------ MODULE MCAlert ------------------------------
(* A service with a webhook and a log, whose upstreams all belong to it.   *)
EXTENDS AlertEngine

OneTargets == [s \in Service |-> <<"webhook", "log">>]
OneServiceOf == [u \in Upstream |-> CHOOSE s \in Service : TRUE]
=============================================================================
