---------------------------- MODULE ProxyEngine ----------------------------
(***************************************************************************)
(* The proxy engine (proxy.rs): a listener task per proxied service, a     *)
(* detached task per accepted connection, and between them a semaphore and *)
(* a round-robin counter.  A connection task reads the healthy upstreams   *)
(* under the store's read lock, then takes its turn from the counter, then *)
(* awaits the upstream: the healthy set may change after each step, and    *)
(* the tasks of one listener overtake each other.                          *)
(***************************************************************************)
EXTENDS Integers, FiniteSets

CONSTANTS
  Service,        \* the services with a [services.proxy] block
  NumUpstreams,   \* how many upstreams they have in all
  ServiceOf,      \* ServiceOf[u]: the service upstream u belongs to
  Conn,           \* the clients' connections
  MaxConnections, \* MAX_CONCURRENT_CONNECTIONS
  CounterSize,    \* the values of an AtomicUsize: it wraps to 0
  NoService,      \* a connection that does not exist
  NoUpstream      \* no upstream has been chosen

Upstream == 1 .. NumUpstreams

UpstreamsOf(s) == {u \in Upstream : ServiceOf[u] = s}

ASSUME ProxyAssumption ==
  /\ NumUpstreams \in Nat
  /\ ServiceOf \in [Upstream -> Service]
  /\ IsFiniteSet(Conn)
  /\ MaxConnections \in Nat
  /\ CounterSize \in Nat \ {0}
  /\ NoService \notin Service
  /\ NoUpstream \notin Upstream

VARIABLES
  healthy,    \* the upstreams whose entry in the store is Healthy
  listener,   \* "listening" or "stopped", for each listener task
  permits,    \* the free permits of each listener's semaphore
  rr_counter, \* the round-robin counter of each listener
  conn,       \* where each connection is
  to,         \* the service whose proxy port it came in by
  offered,    \* the healthy upstreams its task has read
  upstream,   \* the upstream its task has chosen
  cancelled,  \* the engine's CancellationToken
  was_healthy,\* history: the upstreams that were Healthy since it was accepted,
              \* until its task has chosen one
  turns       \* history: per listener, the set the last turns were taken over
              \* and how often each upstream of it had one, whole rounds left out

shared == <<healthy, listener, permits, rr_counter>>
task == <<conn, to, offered, upstream>>

vars == <<shared, task, cancelled, was_healthy, turns>>

\* The connections a handler task of listener s works on.
LiveConns(s) == {c \in Conn : conn[c] # "none" /\ to[c] = s}

NoTurns == [over |-> {}, had |-> [u \in Upstream |-> 0]]

Init ==
  /\ healthy = {}
  /\ listener = [s \in Service |-> "listening"]
  /\ permits = [s \in Service |-> MaxConnections]
  /\ rr_counter = [s \in Service |-> 0]
  /\ conn = [c \in Conn |-> "none"]
  /\ to = [c \in Conn |-> NoService]
  /\ offered = [c \in Conn |-> {}]
  /\ upstream = [c \in Conn |-> NoUpstream]
  /\ cancelled = FALSE
  /\ was_healthy = [c \in Conn |-> {}]
  /\ turns = [s \in Service |-> NoTurns]

-----------------------------------------------------------------------------
(* The listener of service s.                                              *)

\* A wrong limit: connections are accepted without a permit.
Accept_NoLimit(c, s) ==
  /\ conn[c] = "none"
  /\ listener[s] = "listening"
  /\ permits' = [permits EXCEPT ![s] = @ - 1]
  /\ conn' = [conn EXCEPT ![c] = "reading"]
  /\ to' = [to EXCEPT ![c] = s]
  /\ was_healthy' = [was_healthy EXCEPT ![c] = healthy]
  /\ UNCHANGED <<healthy, listener, rr_counter, offered, upstream, cancelled, turns>>

\* accept() and try_acquire_owned: a permit moves into a new handler task.  Without a
\* free permit the client is dropped at once and nothing changes.
Accept(c, s) ==
  /\ conn[c] = "none"
  /\ listener[s] = "listening"
  /\ permits[s] > 0
  /\ permits' = [permits EXCEPT ![s] = @ - 1]
  /\ conn' = [conn EXCEPT ![c] = "reading"]
  /\ to' = [to EXCEPT ![c] = s]
  /\ was_healthy' = [was_healthy EXCEPT ![c] = healthy]
  /\ UNCHANGED <<healthy, listener, rr_counter, offered, upstream, cancelled, turns>>

\* The cancellation branch of the (unbiased) select.  The handler tasks are detached:
\* nobody waits for them.
Stop(s) ==
  /\ listener[s] = "listening"
  /\ cancelled
  /\ listener' = [listener EXCEPT ![s] = "stopped"]
  /\ UNCHANGED <<healthy, permits, rr_counter, task, cancelled, was_healthy, turns>>

-----------------------------------------------------------------------------
(* handle_connection.                                                      *)

\* The task ends, its permit and its streams are dropped.
End(c) ==
  /\ permits' = [permits EXCEPT ![to[c]] = @ + 1]
  /\ conn' = [conn EXCEPT ![c] = "none"]
  /\ to' = [to EXCEPT ![c] = NoService]
  /\ upstream' = [upstream EXCEPT ![c] = NoUpstream]
  /\ was_healthy' = [was_healthy EXCEPT ![c] = {}]

\* Two wrong reads: every upstream is offered when none is Healthy; the task waits for
\* an upstream to become Healthy.
Read_AllWhenNone(c) ==
  /\ conn[c] = "reading"
  /\ LET set == healthy \cap UpstreamsOf(to[c])
     IN  offered' = [offered EXCEPT ![c] = IF set = {} THEN UpstreamsOf(to[c]) ELSE set]
  /\ conn' = [conn EXCEPT ![c] = "picking"]
  /\ UNCHANGED <<healthy, listener, permits, rr_counter, to, upstream, cancelled,
                 was_healthy, turns>>

Read_WaitForOne(c) ==
  /\ conn[c] = "reading"
  /\ healthy \cap UpstreamsOf(to[c]) # {}
  /\ offered' = [offered EXCEPT ![c] = healthy \cap UpstreamsOf(to[c])]
  /\ conn' = [conn EXCEPT ![c] = "picking"]
  /\ UNCHANGED <<healthy, listener, permits, rr_counter, to, upstream, cancelled,
                 was_healthy, turns>>

\* get_healthy_upstreams, and the rejection when there is none.
Read(c) ==
  /\ conn[c] = "reading"
  /\ LET set == healthy \cap UpstreamsOf(to[c])
     IN  IF set = {}
         THEN End(c) /\ UNCHANGED offered
         ELSE /\ offered' = [offered EXCEPT ![c] = set]
              /\ conn' = [conn EXCEPT ![c] = "picking"]
              /\ UNCHANGED <<permits, to, upstream, was_healthy>>
  /\ UNCHANGED <<healthy, listener, rr_counter, cancelled, turns>>

\* healthy[idx]: the list is in the order of the configuration.
Nth(set, idx) == CHOOSE u \in set : Cardinality({v \in set : v < u}) = idx

\* The turns t after one more for u out of set.
Taken(t, set, u) ==
  LET had == IF t.over = set THEN [t.had EXCEPT ![u] = @ + 1]
             ELSE [NoTurns.had EXCEPT ![u] = 1]
      round == \A v \in set : had[v] > 0
  IN  [over |-> set, had |-> [v \in Upstream |-> IF round /\ v \in set THEN had[v] - 1
                                                 ELSE had[v]]]

\* A wrong turn: the counter is read and not moved.
Pick_Load(c) ==
  /\ conn[c] = "picking"
  /\ LET s == to[c]
         set == offered[c]
         u == Nth(set, rr_counter[s] % Cardinality(set))
     IN  /\ upstream' = [upstream EXCEPT ![c] = u]
         /\ turns' = [turns EXCEPT ![s] = Taken(@, set, u)]
  /\ conn' = [conn EXCEPT ![c] = "connecting"]
  /\ offered' = [offered EXCEPT ![c] = {}]
  /\ was_healthy' = [was_healthy EXCEPT ![c] = {}]
  /\ UNCHANGED <<healthy, listener, permits, rr_counter, to, cancelled>>

\* rr_counter.fetch_add(1) % healthy.len()
Pick(c) ==
  /\ conn[c] = "picking"
  /\ LET s == to[c]
         set == offered[c]
         u == Nth(set, rr_counter[s] % Cardinality(set))
         next == (rr_counter[s] + 1) % CounterSize
     IN  /\ upstream' = [upstream EXCEPT ![c] = u]
         /\ rr_counter' = [rr_counter EXCEPT ![s] = next]
         /\ turns' = [turns EXCEPT ![s] = IF next = 0 THEN NoTurns ELSE Taken(@, set, u)]
  /\ conn' = [conn EXCEPT ![c] = "connecting"]
  /\ offered' = [offered EXCEPT ![c] = {}]
  /\ was_healthy' = [was_healthy EXCEPT ![c] = {}]
  /\ UNCHANGED <<healthy, listener, permits, to, cancelled>>

\* A wrong error path: the permit is not dropped with the connection.
Connect_Leak(c) ==
  /\ conn[c] = "connecting"
  /\ \/ /\ conn' = [conn EXCEPT ![c] = "open"]
        /\ UNCHANGED <<to, upstream>>
     \/ /\ conn' = [conn EXCEPT ![c] = "none"]
        /\ to' = [to EXCEPT ![c] = NoService]
        /\ upstream' = [upstream EXCEPT ![c] = NoUpstream]
  /\ UNCHANGED <<healthy, listener, permits, rr_counter, offered, cancelled, was_healthy, turns>>

\* TcpStream::connect to the upstream succeeds, or fails or times out: no other
\* upstream is tried.
Connect(c) ==
  /\ conn[c] = "connecting"
  /\ \/ /\ conn' = [conn EXCEPT ![c] = "open"]
        /\ UNCHANGED <<permits, to, upstream, was_healthy>>
     \/ End(c)
  /\ UNCHANGED <<healthy, listener, offered, rr_counter, cancelled, turns>>

\* copy_bidirectional ends, or the transfer timeout ends it.
Close(c) ==
  /\ conn[c] = "open"
  /\ End(c)
  /\ UNCHANGED <<healthy, listener, offered, rr_counter, cancelled, turns>>

-----------------------------------------------------------------------------
\* The health engine changes the entry of u.
HealthChange(u) ==
  /\ \/ u \in healthy /\ healthy' = healthy \ {u} /\ UNCHANGED was_healthy
     \/ /\ u \notin healthy
        /\ healthy' = healthy \cup {u}
        /\ was_healthy' = [c \in Conn |-> IF conn[c] \in {"reading", "picking"}
                                          THEN was_healthy[c] \cup {u} ELSE {}]
  /\ UNCHANGED <<listener, permits, rr_counter, task, cancelled, turns>>

\* ProxyEngineHandle::shutdown
Shutdown ==
  /\ ~cancelled
  /\ cancelled' = TRUE
  /\ UNCHANGED <<shared, task, was_healthy, turns>>

Handle(c) == Read(c) \/ Pick(c) \/ Connect(c) \/ Close(c)

Next ==
  \/ \E c \in Conn, s \in Service : Accept(c, s)
  \/ \E c \in Conn : Handle(c)
  \/ \E s \in Service : Stop(s)
  \/ \E u \in Upstream : HealthChange(u)
  \/ Shutdown

\* Every task is polled; connecting ends with PROXY_IDLE_TIMEOUT_SECS and an open
\* tunnel with PROXY_TRANSFER_TIMEOUT_SECS at the latest; the select takes a branch
\* that is offered again and again.
Fairness ==
  /\ \A c \in Conn : WF_vars(Handle(c))
  /\ \A s \in Service : SF_vars(Stop(s))

Spec == Init /\ [][Next]_vars /\ Fairness

\* The return of shutdown(): every listener task has been joined.
ShutDown == cancelled /\ \A s \in Service : listener[s] = "stopped"

-----------------------------------------------------------------------------
(* Properties.                                                             *)

TypeOK ==
  /\ healthy \subseteq Upstream
  /\ listener \in [Service -> {"listening", "stopped"}]
  /\ permits \in [Service -> 0 .. MaxConnections]
  /\ rr_counter \in [Service -> 0 .. CounterSize - 1]
  /\ conn \in [Conn -> {"none", "reading", "picking", "connecting", "open"}]
  /\ to \in [Conn -> Service \cup {NoService}]
  /\ \A c \in Conn : to[c] = NoService <=> conn[c] = "none"
  /\ offered \in [Conn -> SUBSET Upstream]
  /\ upstream \in [Conn -> Upstream \cup {NoUpstream}]
  /\ cancelled \in BOOLEAN
  /\ was_healthy \in [Conn -> SUBSET Upstream]
  /\ turns \in [Service -> [over : SUBSET Upstream, had : [Upstream -> Nat]]]

\* Every permit is free or held by exactly one handler task of that listener, on
\* every path by which a connection can end: none leaks, none is returned twice, and
\* one service's connections never use up another's.
PermitsAccounted ==
  \A s \in Service : permits[s] + Cardinality(LiveConns(s)) = MaxConnections

\* A connection goes to an upstream of its own service, and to one that was Healthy
\* at some moment since the connection was accepted: the set is read anew for every
\* connection and an index into it never leaves it, though counter and set change
\* under the task.
RoutedToHealthy ==
  [][\A c \in Conn : conn[c] # "connecting" /\ conn'[c] = "connecting" =>
       upstream'[c] \in was_healthy[c] \cap UpstreamsOf(to[c])]_vars

\* As long as the connections find the same set, its upstreams have the same number
\* of turns up to one, whichever tasks take them and however the tasks overtake each
\* other between reading the set and taking the turn.
TurnsBalanced ==
  \A s \in Service : \A u \in Upstream : turns[s].had[u] <= 1

\* Every accepted connection ends, and with it the hold on the permit.
ConnectionsEnd ==
  \A c \in Conn : conn[c] # "none" ~> conn[c] = "none"

-----------------------------------------------------------------------------
(* What comments of the repository say and the code does not do.           *)

\* shutdown() waits for all in-flight connection handlers to complete.
ShutdownDrains ==
  ShutDown => \A s \in Service : LiveConns(s) = {}
=============================================================================
