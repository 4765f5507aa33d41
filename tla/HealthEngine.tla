---------------------------- MODULE HealthEngine ----------------------------
(***************************************************************************)
(* The health engine (health.rs) and the part of the shared state store it *)
(* writes (state.rs).  One tokio task per configured upstream waits for    *)
(* its ticker, checks the upstream, records the result under the store's   *)
(* write lock and only then, with the lock released, broadcasts the status *)
(* change of the service.  Between any two of these steps every other task *)
(* may run: the engine's own siblings and the world being checked.         *)
(***************************************************************************)
EXTENDS Integers, Sequences, FiniteSets

CONSTANTS
  Service,          \* the ids of the [[services]] blocks
  NumUpstreams,     \* how many [[services.upstreams]] there are in all
  ServiceOf,        \* ServiceOf[u]: the service upstream u belongs to
  Addr,             \* Addr[u]: the (host, port) of upstream u
  Threshold,        \* Threshold[s]: failure_threshold of service s
  DockerBacked,     \* the upstreams whose docker_container is set
  ZeroInterval,     \* the services configured with check_interval_secs = 0
  DockerClient,     \* TRUE iff Vela reached the Docker daemon at startup
  MaxHealthRecords  \* MAX_HEALTH_RECORDS

Upstream == 1 .. NumUpstreams

UpstreamsOf(s) == {u \in Upstream : ServiceOf[u] = s}

ASSUME HealthAssumption ==
  /\ NumUpstreams \in Nat
  /\ ServiceOf \in [Upstream -> Service]
  /\ \A s \in Service : UpstreamsOf(s) # {}
  /\ Threshold \in [Service -> Nat]
  /\ DockerBacked \subseteq Upstream
  /\ ZeroInterval \subseteq Service
  /\ DockerClient \in BOOLEAN
  /\ MaxHealthRecords \in Nat \ {0}

VARIABLES
  ustatus,         \* UpstreamState.status of each entry of upstream_states
  failures,        \* UpstreamState.consecutive_failures, saturated at the threshold
  seen_ok,         \* UpstreamState.last_ok_at is Some
  status,          \* ServiceState.status
  health_records,  \* the success flags of health_records, oldest first
  task,            \* where the check loop of each upstream is
  event,           \* the StatusChangeEvent a task has still to broadcast
  cancelled,       \* the engine's CancellationToken
  reach,           \* the world: what is true of the checked process now
  last_sent,       \* history: new_status of the last event broadcast per service
  flow             \* history: per service and status, events into minus events out of it

vars == <<ustatus, failures, seen_ok, status, health_records, task, event,
          cancelled, reach, last_sent, flow>>

store == <<ustatus, failures, seen_ok, status, health_records>>
sent == <<last_sent, flow>>

Status == {"Unknown", "Healthy", "Degraded", "Failed"}

\* What can be true of the process behind an upstream: its port accepts the
\* check, and (for a container) the container is running.
World(u) == IF u \in DockerBacked THEN {"listening", "running"} ELSE {"listening"}

TaskState == {"waiting", "inspecting", "probing", "passed", "failed",
              "sending", "panicked", "stopped"}

\* The initial value of event, and its value while nothing is to be sent.
NoEvent == <<"Unknown", "Unknown">>

SameKey(u, v) == ServiceOf[u] = ServiceOf[v] /\ Addr[u] = Addr[v]

\* `find` returns the first entry with the given host and port, so two upstreams
\* of one service with the same address share the entry of the first.
SlotOf(u) == CHOOSE v \in Upstream :
               /\ SameKey(u, v)
               /\ \A w \in Upstream : SameKey(u, w) => v <= w

\* Two wrong aggregate rules: one failed upstream fails the service; upstreams
\* without a first check are left out.
Aggregate_AnyFailed(us, s) ==
  LET mix == {us[u] : u \in UpstreamsOf(s)}
  IN  IF mix \subseteq {"Healthy"} THEN "Healthy"
      ELSE IF "Failed" \in mix THEN "Failed"
      ELSE IF "Unknown" \in mix THEN "Unknown"
      ELSE "Degraded"

Aggregate_SkipUnknown(us, s) ==
  LET mix == {us[u] : u \in UpstreamsOf(s)} \ {"Unknown"}
  IN  IF mix \subseteq {"Healthy"} THEN "Healthy"
      ELSE IF mix \subseteq {"Failed"} THEN "Failed"
      ELSE "Degraded"

\* The aggregate rule of record_upstream_health_check.
Aggregate(us, s) ==
  LET mix == {us[u] : u \in UpstreamsOf(s)}
  IN  IF mix \subseteq {"Healthy"} THEN "Healthy"
      ELSE IF mix \subseteq {"Failed"} THEN "Failed"
      ELSE IF "Failed" \in mix THEN "Degraded"
      ELSE IF "Unknown" \in mix THEN "Unknown"
      ELSE "Degraded"

\* A wrong trim: a full history refuses the newest record.
PushRecord_KeepOldest(records, r, limit) ==
  IF Len(records) = limit THEN records ELSE Append(records, r)

\* push, then drop the oldest when the limit is exceeded.
PushRecord(records, r, limit) ==
  LET longer == Append(records, r)
  IN  IF Len(longer) > limit THEN Tail(longer) ELSE longer

Init ==
  /\ ustatus = [u \in Upstream |-> "Unknown"]
  /\ failures = [u \in Upstream |-> 0]
  /\ seen_ok = [u \in Upstream |-> FALSE]
  /\ status = [s \in Service |-> "Unknown"]
  /\ health_records = [s \in Service |-> <<>>]
  /\ task = [u \in Upstream |->
               IF ServiceOf[u] \in ZeroInterval THEN "panicked" ELSE "waiting"]
  /\ event = [u \in Upstream |-> NoEvent]
  /\ cancelled = FALSE
  /\ reach \in [Upstream -> SUBSET {"listening", "running"}]
  /\ \A u \in Upstream : reach[u] \subseteq World(u)
  /\ last_sent = [s \in Service |-> "Unknown"]
  /\ flow = [s \in Service |-> [st \in Status |-> 0]]

-----------------------------------------------------------------------------
(* The check loop of upstream u.                                           *)

\* The ticker branch of the select: execute_check starts with the container
\* when there is one and the Docker client is available.
Tick(u) ==
  /\ task[u] = "waiting"
  /\ task' = [task EXCEPT ![u] =
                IF u \in DockerBacked /\ DockerClient THEN "inspecting" ELSE "probing"]
  /\ UNCHANGED <<store, event, cancelled, reach, sent>>

\* get_container_status: a container that is not running, or a daemon that
\* does not answer, fails the check without a probe.
Inspect(u) ==
  /\ task[u] = "inspecting"
  /\ \/ task' = [task EXCEPT ![u] = IF "running" \in reach[u] THEN "probing" ELSE "failed"]
     \/ task' = [task EXCEPT ![u] = "failed"]
  /\ UNCHANGED <<store, event, cancelled, reach, sent>>

\* check_tcp or check_http.
Probe(u) ==
  /\ task[u] = "probing"
  /\ task' = [task EXCEPT ![u] = IF "listening" \in reach[u] THEN "passed" ELSE "failed"]
  /\ UNCHANGED <<store, event, cancelled, reach, sent>>

\* Three wrong updates: a success takes one failure off the streak; a success leaves
\* the streak; the threshold must be exceeded before the entry is Failed.
UpdateEntry_Decrement(u, success) ==
  LET v == SlotOf(u)
  IN  /\ ustatus' = [ustatus EXCEPT ![v] = IF success THEN "Healthy" ELSE "Failed"]
      /\ failures' = [failures EXCEPT ![v] = IF success THEN @ - 1 ELSE 1]
      /\ seen_ok' = [seen_ok EXCEPT ![v] = @ \/ success]

UpdateEntry_KeepStreak(u, success) ==
  LET v == SlotOf(u)
      limit == Threshold[ServiceOf[u]]
      streak == IF ~success /\ failures[v] < limit THEN failures[v] + 1 ELSE failures[v]
  IN  /\ ustatus' = [ustatus EXCEPT ![v] = IF success THEN "Healthy"
                                           ELSE IF streak = limit THEN "Failed"
                                           ELSE "Degraded"]
      /\ failures' = [failures EXCEPT ![v] = streak]
      /\ seen_ok' = [seen_ok EXCEPT ![v] = @ \/ success]

UpdateEntry_PastThreshold(u, success) ==
  LET v == SlotOf(u)
      limit == Threshold[ServiceOf[u]]
  IN  /\ ustatus' = [ustatus EXCEPT ![v] = IF success THEN "Healthy"
                                           ELSE IF failures[v] > limit THEN "Failed"
                                           ELSE "Degraded"]
      /\ failures' = [failures EXCEPT ![v] = IF success THEN 0
                                             ELSE IF @ < limit THEN @ + 1 ELSE @]
      /\ seen_ok' = [seen_ok EXCEPT ![v] = @ \/ success]

\* The entry of upstream u after a check, in ustatus, failures and seen_ok.
UpdateEntry(u, success) ==
  LET v == SlotOf(u)
      limit == Threshold[ServiceOf[u]]
  IN  IF success
      THEN /\ ustatus' = [ustatus EXCEPT ![v] = "Healthy"]
           /\ failures' = [failures EXCEPT ![v] = 0]
           /\ seen_ok' = [seen_ok EXCEPT ![v] = TRUE]
      ELSE /\ ustatus' = [ustatus EXCEPT ![v] =
                            IF failures[v] + 1 >= limit THEN "Failed" ELSE "Degraded"]
           /\ failures' = [failures EXCEPT ![v] = IF @ < limit THEN @ + 1 ELSE @]
           /\ UNCHANGED seen_ok

\* A wrong condition: a step to Degraded is not worth an event.
EventNeeded_NotDegraded(old, new) == old # new /\ new # "Degraded"

\* Only a change of the aggregate status makes an event.
EventNeeded(old, new) == old # new

\* record_upstream_health_check up to the release of the write lock.
Record(u) ==
  LET s == ServiceOf[u]
  IN  /\ task[u] \in {"passed", "failed"}
      /\ UpdateEntry(u, task[u] = "passed")
      /\ status' = [status EXCEPT ![s] = Aggregate(ustatus', s)]
      /\ health_records' = [health_records EXCEPT ![s] =
                              PushRecord(@, task[u] = "passed", MaxHealthRecords)]
      /\ IF EventNeeded(status[s], status'[s])
         THEN /\ task' = [task EXCEPT ![u] = "sending"]
              /\ event' = [event EXCEPT ![u] = <<status[s], status'[s]>>]
         ELSE /\ task' = [task EXCEPT ![u] = "waiting"]
              /\ UNCHANGED event
      /\ UNCHANGED <<cancelled, reach, sent>>

One(b) == IF b THEN 1 ELSE 0

\* The event counts f after one more event from one status to another.
Moved(f, from, to) ==
  [st \in Status |-> f[st] + One(st = to) - One(st = from)]

\* event_tx.send, after the lock has been released.
Broadcast(u) ==
  LET s == ServiceOf[u]
      from == event[u][1]
      to == event[u][2]
  IN  /\ task[u] = "sending"
      /\ last_sent' = [last_sent EXCEPT ![s] = to]
      /\ flow' = [flow EXCEPT ![s] = Moved(@, from, to)]
      /\ event' = [event EXCEPT ![u] = NoEvent]
      /\ task' = [task EXCEPT ![u] = "waiting"]
      /\ UNCHANGED <<store, cancelled, reach>>

\* A wrong loop: the token is looked at before the first check alone.
Stop_OnlyAtStart(u) ==
  /\ task[u] = "waiting"
  /\ cancelled
  /\ ustatus[u] = "Unknown"
  /\ task' = [task EXCEPT ![u] = "stopped"]
  /\ UNCHANGED <<store, event, cancelled, reach, sent>>

\* The cancellation branch of the select.  The select is not biased: with the
\* token cancelled and the ticker due, either branch may be taken.
Stop(u) ==
  /\ task[u] = "waiting"
  /\ cancelled
  /\ task' = [task EXCEPT ![u] = "stopped"]
  /\ UNCHANGED <<store, event, cancelled, reach, sent>>

-----------------------------------------------------------------------------
\* HealthEngineHandle::shutdown cancels the token, then joins every task.
Shutdown ==
  /\ ~cancelled
  /\ cancelled' = TRUE
  /\ UNCHANGED <<store, task, event, reach, sent>>

\* A checked process comes up, goes down, is started or stopped.
WorldChange(u) ==
  /\ \E r \in SUBSET World(u) : r # reach[u] /\ reach' = [reach EXCEPT ![u] = r]
  /\ UNCHANGED <<store, task, event, cancelled, sent>>

CheckStep(u) == Tick(u) \/ Inspect(u) \/ Probe(u) \/ Record(u) \/ Broadcast(u)

AllStopped == \A u \in Upstream : task[u] \in {"stopped", "panicked"}

Next ==
  \/ \E u \in Upstream : CheckStep(u) \/ Stop(u) \/ WorldChange(u)
  \/ Shutdown

\* The runtime polls every ready task; the select chooses among ready branches at
\* random, so a cancellation that is offered again and again is taken.
Fairness ==
  \A u \in Upstream : WF_vars(CheckStep(u)) /\ SF_vars(Stop(u))

Spec == Init /\ [][Next]_vars /\ Fairness

-----------------------------------------------------------------------------
(* Properties.                                                             *)

TypeOK ==
  /\ ustatus \in [Upstream -> Status]
  /\ failures \in [Upstream -> Nat]
  /\ seen_ok \in [Upstream -> BOOLEAN]
  /\ status \in [Service -> Status]
  /\ health_records \in [Service -> Seq(BOOLEAN)]
  /\ task \in [Upstream -> TaskState]
  /\ event \in [Upstream -> Status \X Status]
  /\ cancelled \in BOOLEAN
  /\ reach \in [Upstream -> SUBSET {"listening", "running"}]
  /\ last_sent \in [Service -> Status]
  /\ flow \in [Service -> [Status -> Int]]

\* The status of every entry follows its streak of failed checks, and the status
\* of every service is the aggregate of its entries, whatever order the sibling
\* tasks of the service record their results in (state.rs, the whole of
\* record_upstream_health_check under one write lock).
FollowsStreak(u) ==
  /\ ustatus[u] = "Unknown"  => failures[u] = 0 /\ seen_ok[u] = FALSE
  /\ ustatus[u] = "Healthy"  => failures[u] = 0 /\ seen_ok[u] = TRUE
  /\ ustatus[u] = "Degraded" => failures[u] \in 1 .. Threshold[ServiceOf[u]] - 1
  /\ ustatus[u] = "Failed"   => failures[u] = Threshold[ServiceOf[u]]

EntryFollowsStreak == \A u \in Upstream : FollowsStreak(u)

StatusIsAggregate ==
  \A s \in Service : status[s] = Aggregate(ustatus, s)

StoreConsistent == EntryFollowsStreak /\ StatusIsAggregate

\* The history the API and the dashboard show agrees with the status beside it: the
\* last check in the history of a Healthy service passed and that of a Failed
\* service failed, whichever sibling recorded it.
LastCheckAgrees ==
  \A s \in Service :
    LET h == health_records[s]
    IN  /\ status[s] = "Healthy" => h # <<>> /\ h[Len(h)] = TRUE
        /\ status[s] = "Failed" => h # <<>> /\ h[Len(h)] = FALSE

\* When one upstream alone writes the history of a service, it ends with the whole
\* streak of its failures, or with as much of the streak as the history holds.
HistoryEndsWithStreak ==
  \A u \in Upstream : UpstreamsOf(ServiceOf[u]) = {u} =>
    LET h == health_records[ServiceOf[u]]
    IN  /\ \A i \in 1 .. Len(h) : i > Len(h) - failures[u] => ~h[i]
        /\ Len(h) < failures[u] => Len(h) = MaxHealthRecords

\* The tasks of service s whose unsent event has status st as its i-th field.
UnsentBy(s, i, st) ==
  {u \in UpstreamsOf(s) : task[u] = "sending" /\ event[u][i] = st}

Unsent(s, i, st) == Cardinality(UnsentBy(s, i, st))

\* No status change is lost, invented or sent twice: for every status, the events
\* into it minus the events out of it, broadcast or still unsent, is 1 for the
\* status the service is in, against the Unknown it started in.  This holds
\* although sibling tasks broadcast after the lock is released, in any order.
EventsBalance ==
  \A s \in Service, st \in Status :
    flow[s][st] + Unsent(s, 2, st) - Unsent(s, 1, st)
      = One(status[s] = st) - One(st = "Unknown")

\* The events of a service with a single upstream form a chain: an event still
\* unsent leads from the last one broadcast to the current status, and with nothing
\* left to send the last event broadcast names the current status.
SoleEventsChain ==
  \A u \in Upstream : UpstreamsOf(ServiceOf[u]) = {u} =>
    LET s == ServiceOf[u]
    IN  IF task[u] = "sending" THEN event[u] = <<last_sent[s], status[s]>>
        ELSE last_sent[s] = status[s]

\* The entry of a repeated address is never written.
ShadowUnknown ==
  \A u \in Upstream : SlotOf(u) # u => ustatus[u] = "Unknown"

\* `find` gives the checks of a repeated address to its first entry, so the entry
\* of the repetition stays Unknown and its service is never Healthy nor Failed:
\* it is reported Unknown or Degraded and is never restarted, however its one
\* process fares (state.rs record_upstream_health_check; config.rs accepts it).
RepeatedAddressUndecided ==
  \A u \in Upstream :
    SlotOf(u) # u => status[ServiceOf[u]] \in {"Unknown", "Degraded"}

\* The engine as its readers see it: the statuses of the store, and the changes its
\* tasks have still to broadcast.
Feed == INSTANCE StatusFeed WITH
  unsent <- [u \in Upstream |-> IF task[u] = "sending" THEN event[u][2] ELSE "none"]

\* What the alert engine is checked against is what the health engine does.  A service
\* with several upstreams passes Degraded between Failed and Healthy, falls back to
\* Unknown from Degraded alone, and turns Failed or Healthy only over such unsent changes
\* of siblings as their last checks allow; every change is sent once, after the lock is
\* released, in any order among siblings.
ImplementsFeed == Feed!FeedSpec

\* From some moment on the port of u stays closed, or its container stays stopped.
\* The two are read at different moments of a check, so a world that swaps one for
\* the other between the two reads is not down for good.
DownForGood(u) ==
  \/ <>[]("listening" \notin reach[u])
  \/ u \in DockerBacked /\ DockerClient /\ <>[]("running" \notin reach[u])

\* Upstreams that own their entry and whose task survived its start.
Watched(s) ==
  s \notin ZeroInterval /\ \A u \in UpstreamsOf(s) : SlotOf(u) = u

\* A service all of whose upstreams are down for good is eventually Failed and
\* stays so, for as long as Vela runs: stale results of checks that overlapped the
\* last change of the world are overwritten by later ones.
DownIsDetected ==
  \A s \in Service :
    Watched(s) /\ []~cancelled /\ (\A u \in UpstreamsOf(s) : DownForGood(u))
      => <>[](status[s] = "Failed")

\* Once Vela is told to stop, every check loop ends, although the select may
\* prefer the ticker to the cancellation any finite number of times.
ShutdownCompletes == cancelled ~> AllStopped
=============================================================================
