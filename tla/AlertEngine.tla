---------------------------- MODULE AlertEngine ----------------------------
(***************************************************************************)
(* The alert engine (alert.rs) and the bounded broadcast channel of status *)
(* change events it listens to (state.rs).  One task takes the events one  *)
(* by one, drops those that carry no news or fall into the cooldown of     *)
(* their service, and delivers the others to every enabled target in turn. *)
(* Deliveries are awaited: meanwhile time passes, the channel fills up,    *)
(* and events fall off its far end when it is full.                        *)
(*                                                                         *)
(* The events are the changes of StatusFeed, written first and sent later, *)
(* so that those of sibling upstreams may arrive in another order, and the *)
(* give-ups of the recovery engine, at most one per outage (OutageBudget   *)
(* in RecoveryEngine), which may be late: the scan that decides on one has *)
(* read the status earlier.                                                *)
(***************************************************************************)
EXTENDS StatusFeed, Integers, Sequences

CONSTANTS
  Targets,         \* Targets[s]: the kinds of the enabled [[services.alerts]], in order
  Cooldown,        \* DEFAULT_ALERT_COOLDOWN_SECS
  Capacity,        \* the capacity of the broadcast channel
  MaxAlertRecords, \* MAX_ALERT_RECORDS
  NoEvent,         \* no event is being handled
  Never            \* a service without a RateLimitEntry

Kind == {"webhook", "log"}

ASSUME AlertAssumption ==
  /\ Targets \in [Service -> Seq(Kind)]
  /\ Cooldown \in Nat
  /\ Capacity \in Nat \ {0}
  /\ MaxAlertRecords \in Nat \ {0}
  /\ NoEvent \notin [service : Service, to : Status, kept : BOOLEAN]
  /\ Never \notin Nat
  /\ Never \notin Status

VARIABLES
  give_up,              \* where the recovery engine is with giving the service up
  channel,              \* the events the engine's receiver has still to see
  lagged,               \* events fell off the channel since the last recv
  pc,                   \* where the event loop is
  event,                \* the event handle_event works on
  next_target,          \* the target of it that is delivered to next
  last_alert_age,       \* seconds since RateLimitEntry.last_alert_at
  alerted_for_failure,  \* RateLimitEntry.alerted_for_failure
  alert_records,        \* the alert_records of the store, oldest first
  cancelled,            \* the engine's CancellationToken
  told,                 \* history: the status the last alert about a service named
  quiet                 \* history: seconds since the last alert about a failure

rate_limit == <<last_alert_age, alerted_for_failure>>
history == <<told, quiet>>

world == <<status, unsent, give_up>>

vars == <<world, channel, lagged, pc, event, next_target, rate_limit,
          alert_records, cancelled, history>>

\* StatusChangeEvent.  Of the previous status it matters only whether the event keeps it.
Event == [service : Service, to : Status, kept : BOOLEAN]
\* AlertRecord, without the outcome of the delivery, on which nothing depends.
AlertRecord == [kind : Kind, to : Status]

Init ==
  /\ FeedInit
  /\ give_up = [s \in Service |-> "open"]
  /\ channel = <<>>
  /\ lagged = FALSE
  /\ pc = "idle"
  /\ event = NoEvent
  /\ next_target = 0
  /\ last_alert_age = [s \in Service |-> Never]
  /\ alerted_for_failure = [s \in Service |-> FALSE]
  /\ alert_records = [s \in Service |-> <<>>]
  /\ cancelled = FALSE
  /\ told = [s \in Service |-> Never]
  /\ quiet = [s \in Service |-> Cooldown]

-----------------------------------------------------------------------------
(* The surroundings.                                                       *)

\* A wrong channel: it grows instead of losing its oldest event.
Send_Unbounded(e) ==
  /\ channel' = Append(channel, e)
  /\ UNCHANGED lagged

\* broadcast::Sender::send on a channel with one receiver: a full channel loses its
\* oldest event, and the receiver is told on its next recv.  Without the receiver the
\* send fails, and the event is gone.
Send(e) ==
  CASE pc = "stopped" -> UNCHANGED <<channel, lagged>>
    [] pc # "stopped" /\ Len(channel) < Capacity ->
         /\ channel' = Append(channel, e)
         /\ UNCHANGED lagged
    [] OTHER ->
         /\ channel' = Append(Tail(channel), e)
         /\ lagged' = TRUE

\* The health engine writes a change of status.
StatusChange(u) ==
  /\ ChangeStatus(u)
  /\ UNCHANGED <<give_up, channel, lagged, pc, event, next_target, rate_limit, alert_records,
                 cancelled, history>>

\* The task that wrote it sends the event.
Publish(u) ==
  /\ TakeChange(u)
  /\ Send([service |-> ServiceOf[u], to |-> unsent[u], kept |-> FALSE])
  /\ UNCHANGED <<give_up, pc, event, next_target, rate_limit, alert_records, cancelled, history>>

\* The recovery engine copies every status, its last scan behind it.  A service the
\* copy has Healthy or Unknown gets its attempts back; one it has Failed is to be
\* given up if its attempts are used up.
Scan ==
  /\ \A s \in Service : give_up[s] # "due"
  /\ \E due \in SUBSET {s \in Service : status[s] = "Failed" /\ give_up[s] = "open"} :
       give_up' = [s \in Service |-> CASE s \in due -> "due"
                                     [] status[s] \in {"Healthy", "Unknown"} -> "open"
                                     [] OTHER -> give_up[s]]
  /\ UNCHANGED <<status, unsent, channel, lagged, pc, event, next_target, rate_limit,
                 alert_records, cancelled, history>>

\* It reaches s in that scan and gives it up, whatever has become of s meanwhile.
PublishGiveUp(s) ==
  /\ give_up[s] = "due"
  /\ give_up' = [give_up EXCEPT ![s] = "done"]
  /\ Send([service |-> s, to |-> "Failed", kept |-> TRUE])
  /\ UNCHANGED <<status, unsent, pc, event, next_target, rate_limit, alert_records,
                 cancelled, history>>

\* A second passes.
Second ==
  /\ last_alert_age' = [s \in Service |->
                          IF last_alert_age[s] \in 0 .. Cooldown - 1
                          THEN last_alert_age[s] + 1 ELSE last_alert_age[s]]
  /\ quiet' = [s \in Service |-> IF quiet[s] < Cooldown THEN quiet[s] + 1 ELSE quiet[s]]
  /\ UNCHANGED <<world, channel, lagged, pc, event, next_target, alerted_for_failure,
                 alert_records, cancelled, told>>

\* AlertEngineHandle::shutdown
Shutdown ==
  /\ ~cancelled
  /\ cancelled' = TRUE
  /\ UNCHANGED <<world, channel, lagged, pc, event, next_target, rate_limit, alert_records,
                 history>>

-----------------------------------------------------------------------------
(* The event loop.                                                         *)

should_suppress_event(e) == e.kept /\ e.to # "Failed"

\* Three wrong limits: a recovery waits like any other alert; the cooldown outlives
\* the recovery it was interrupted by; the window is one second short.
is_rate_limited_Healthy(s, new_status) ==
  last_alert_age[s] # Never /\ last_alert_age[s] < Cooldown

is_rate_limited_NoEpisode(s, new_status) ==
  last_alert_age[s] # Never /\ new_status # "Healthy" /\ last_alert_age[s] < Cooldown

is_rate_limited_Short(s, new_status) ==
  /\ last_alert_age[s] # Never
  /\ new_status # "Healthy"
  /\ alerted_for_failure[s]
  /\ last_alert_age[s] < Cooldown - 1

is_rate_limited(s, new_status) ==
  /\ last_alert_age[s] # Never
  /\ new_status # "Healthy"
  /\ alerted_for_failure[s]
  /\ last_alert_age[s] < Cooldown

update_rate_limit(s, new_status) ==
  /\ last_alert_age' = [last_alert_age EXCEPT ![s] = 0]
  /\ alerted_for_failure' = [alerted_for_failure EXCEPT ![s] = new_status \in Failure]

\* recv returns an event that is not worth an alert now.
Skip ==
  /\ pc = "idle"
  /\ ~lagged
  /\ channel # <<>>
  /\ LET e == Head(channel)
     IN  should_suppress_event(e) \/ is_rate_limited(e.service, e.to)
  /\ channel' = Tail(channel)
  /\ UNCHANGED <<world, lagged, pc, event, next_target, rate_limit, alert_records,
                 cancelled, history>>

\* recv returns an event that is: the deliveries begin, or there is no target and
\* the cooldown begins at once.
Alert ==
  /\ pc = "idle"
  /\ ~lagged
  /\ channel # <<>>
  /\ LET e == Head(channel)
     IN  /\ ~should_suppress_event(e)
         /\ ~is_rate_limited(e.service, e.to)
         /\ IF Targets[e.service] = <<>>
            THEN /\ update_rate_limit(e.service, e.to)
                 /\ UNCHANGED <<pc, event, next_target, history>>
            ELSE /\ pc' = "dispatching"
                 /\ event' = e
                 /\ next_target' = 1
                 /\ told' = [told EXCEPT ![e.service] = e.to]
                 /\ UNCHANGED <<rate_limit, quiet>>
  /\ channel' = Tail(channel)
  /\ UNCHANGED <<world, lagged, alert_records, cancelled>>

\* recv returns Lagged: logged, and the loop goes on with the oldest event left.
Lagged ==
  /\ pc = "idle"
  /\ lagged
  /\ lagged' = FALSE
  /\ UNCHANGED <<world, channel, pc, event, next_target, rate_limit, alert_records,
                 cancelled, history>>

\* push, then drop the oldest when the limit is exceeded.
PushRecord(records, r) ==
  LET longer == Append(records, r)
  IN  IF Len(longer) > MaxAlertRecords THEN Tail(longer) ELSE longer

\* A wrong loop: a failed delivery ends the alert.
Deliver_StopAtFailure ==
  /\ pc = "dispatching"
  /\ LET s == event.service
         kind == Targets[s][next_target]
     IN  \E delivered \in IF kind = "log" THEN {TRUE} ELSE BOOLEAN :
           /\ alert_records' = [alert_records EXCEPT ![s] =
                PushRecord(@, [kind |-> kind, to |-> event.to])]
           /\ IF delivered /\ next_target < Len(Targets[s])
              THEN /\ next_target' = next_target + 1
                   /\ UNCHANGED <<pc, event, rate_limit, quiet>>
              ELSE /\ update_rate_limit(s, event.to)
                   /\ pc' = "idle"
                   /\ event' = NoEvent
                   /\ next_target' = 0
                   /\ quiet' = [quiet EXCEPT ![s] = IF event.to \in Failure THEN 0 ELSE Cooldown]
  /\ UNCHANGED <<world, channel, lagged, cancelled, told>>

\* dispatch_alert to the next target is over, taken, refused or timed out, and
\* record_alert records it; after the last target the cooldown begins, whatever came of
\* the deliveries.
Deliver ==
  /\ pc = "dispatching"
  /\ LET s == event.service
         kind == Targets[s][next_target]
     IN  /\ alert_records' = [alert_records EXCEPT ![s] =
              PushRecord(@, [kind |-> kind, to |-> event.to])]
         /\ IF next_target < Len(Targets[s])
            THEN /\ next_target' = next_target + 1
                 /\ UNCHANGED <<pc, event, rate_limit, quiet>>
            ELSE /\ update_rate_limit(s, event.to)
                 /\ pc' = "idle"
                 /\ event' = NoEvent
                 /\ next_target' = 0
                 /\ quiet' = [quiet EXCEPT ![s] = IF event.to \in Failure THEN 0 ELSE Cooldown]
  /\ UNCHANGED <<world, channel, lagged, cancelled, told>>

\* A wrong shutdown: the events queued are handled first.
Stop_Emptied ==
  /\ pc = "idle"
  /\ cancelled
  /\ channel = <<>>
  /\ pc' = "stopped"
  /\ lagged' = FALSE
  /\ UNCHANGED <<world, channel, event, next_target, rate_limit, alert_records, cancelled,
                 history>>

\* The cancellation branch of the (unbiased) select, between two events: what the
\* channel still holds is never looked at, and the receiver goes with the task.
Stop ==
  /\ pc = "idle"
  /\ cancelled
  /\ pc' = "stopped"
  /\ channel' = <<>>
  /\ lagged' = FALSE
  /\ UNCHANGED <<world, event, next_target, rate_limit, alert_records, cancelled, history>>

Loop == Skip \/ Alert \/ Lagged \/ Deliver

Next ==
  \/ Loop
  \/ Stop
  \/ Scan
  \/ \E u \in Upstream : StatusChange(u) \/ Publish(u)
  \/ \E s \in Service : PublishGiveUp(s)
  \/ Second
  \/ Shutdown

\* The task is polled, a delivery ends with the client's timeout at the latest, nothing
\* is awaited between a write and its send, time passes, and the select takes a branch
\* that is offered again and again.
Fairness ==
  /\ WF_vars(Loop)
  /\ \A u \in Upstream : WF_vars(Publish(u))
  /\ WF_vars(Second)
  /\ SF_vars(Stop)

Spec == Init /\ [][Next]_vars /\ Fairness

-----------------------------------------------------------------------------
(* Properties.                                                             *)

TypeOK ==
  /\ status \in [Service -> Status]
  /\ unsent \in [Upstream -> Status \cup {NoChange}]
  /\ give_up \in [Service -> {"open", "due", "done"}]
  /\ channel \in Seq(Event)
  /\ Len(channel) <= Capacity
  /\ lagged \in BOOLEAN
  /\ pc \in {"idle", "dispatching", "stopped"}
  /\ event \in Event \cup {NoEvent}
  /\ next_target \in Nat
  /\ last_alert_age \in [Service -> 0 .. Cooldown \cup {Never}]
  /\ alerted_for_failure \in [Service -> BOOLEAN]
  /\ alert_records \in [Service -> Seq(AlertRecord)]
  /\ cancelled \in BOOLEAN
  /\ told \in [Service -> Status \cup {Never}]
  /\ quiet \in [Service -> 0 .. Cooldown]

\* Between two alerts about a failure of one service without a recovery alert
\* between them, the whole cooldown passes, counted from the last delivery of the
\* first: slow deliveries and the alerts of other services do not shorten it.
CooldownRespected ==
  [][\A s \in Service :
       /\ pc = "idle" /\ pc' = "dispatching"
       /\ event'.service = s /\ event'.to \in Failure /\ told[s] \in Failure
       => quiet[s] >= Cooldown]_vars

\* The store keeps a record of an alert for every enabled target, whatever came of the
\* deliveries to the targets before it.
NoTargetSkipped ==
  pc = "idle" => \A s \in Service :
    LET n == Len(Targets[s])
        h == alert_records[s]
    IN  told[s] # Never /\ n <= MaxAlertRecords =>
          /\ Len(h) >= n
          /\ \A i \in 1 .. n : LET r == h[Len(h) - n + i]
                               IN  r.kind = Targets[s][i] /\ r.to = told[s]

\* No event of s can be lost: no other service can push it out of the channel before
\* it is handled, or the channel never overflows.
Heard(s) ==
  /\ []~cancelled
  /\ Targets[s] # <<>>
  /\ Service = {s} \/ []~lagged

\* No two upstreams of s ever have a change to send at a time, so none of their events
\* overtakes another; with a single upstream that is always so.
InOrder(s) ==
  [](\A u \in Upstream : ServiceOf[u] = s /\ unsent[u] # NoChange =>
       \A v \in Siblings(u) : unsent[v] = NoChange)

\* A service that stays Healthy is reported Healthy in the end, cooldown or not, as long
\* as no give-up decided on earlier follows the recovery and its events come in order.
\* If they do not, a sibling's change to Degraded or Unknown may be sent behind the
\* recovery; it may then be the last word, but Failed is not as long as no event is lost.
RecoveryIsTold ==
  \A s \in Service :
    /\ Heard(s)
    /\ [](give_up[s] = "due" => status[s] = "Failed")
    /\ <>[](status[s] = "Healthy")
    => /\ InOrder(s) => <>[](told[s] = "Healthy")
       /\ []~lagged => <>[](told[s] # "Failed")

\* A service that stays Failed has, in the end, a failure as its last alert, in whatever
\* order its siblings send: no cooldown swallows the first alert of an outage, and no
\* recovery overtaken by the outage comes after it.
FailureIsTold ==
  \A s \in Service :
    Heard(s) /\ <>[](status[s] = "Failed") => <>[](told[s] \in Failure)

\* shutdown() returns: a delivery under way ends, and what is queued does not matter.
AlertStops == cancelled ~> pc = "stopped"

-----------------------------------------------------------------------------
(* What comments of the repository say and the code does not do.           *)

=============================================================================
