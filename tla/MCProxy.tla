------------------------------ MODULE MCProxy ------------------------------
(* One proxied service with several upstreams.                             *)
EXTENDS ProxyEngine

ProxyServiceOf == [u \in Upstream |-> "web"]
=============================================================================
