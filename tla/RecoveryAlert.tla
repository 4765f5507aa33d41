---------------------------- MODULE RecoveryAlert ----------------------------
(***************************************************************************)
(* The recovery engine and the alert engine together.  They share two      *)
(* things: the statuses in the store, which the health engine writes and   *)
(* then broadcasts, and the channel, into which recovery broadcasts its    *)
(* give-ups between the health engine's events.  RecoveryEngine says       *)
(* nothing of the channel, and AlertEngine guesses when a give-up comes;   *)
(* here each gets the other in place of the guess.                         *)
(***************************************************************************)
EXTENDS Integers, Sequences

CONSTANTS
  Service, Mode, MaxRestarts, BaseBackoff, MaxBackoff, MaxRestartRecords, CountCap,
  NotStarted, NoService,                                          \* RecoveryEngine's
  Upstream, ServiceOf,                                            \* StatusFeed's
  Targets, Cooldown, Capacity, MaxAlertRecords, NoEvent, Never    \* AlertEngine's

\* RecoveryAssumption, FeedAssumption and AlertAssumption.
ASSUME RecoveryPart ==
  /\ Mode \in [Service -> {"none", "manual", "docker"}]
  /\ MaxRestarts \in [Service -> Nat]
  /\ BaseBackoff \in Nat
  /\ MaxBackoff \in Nat
  /\ BaseBackoff <= MaxBackoff
  /\ MaxRestartRecords \in Nat \ {0}
  /\ CountCap \in Nat
  /\ CountCap >= MaxRestartRecords
  /\ NotStarted \notin Nat
  /\ NoService \notin Service

ASSUME FeedPart == ServiceOf \in [Upstream -> Service]

ASSUME AlertPart ==
  /\ Targets \in [Service -> Seq({"webhook", "log"})]
  /\ Cooldown \in Nat
  /\ Capacity \in Nat \ {0}
  /\ MaxAlertRecords \in Nat \ {0}
  /\ NoEvent \notin [service : Service, to : {"Unknown", "Healthy", "Degraded", "Failed"},
                     kept : BOOLEAN]
  /\ Never \notin Nat
  /\ Never \notin {"Unknown", "Healthy", "Degraded", "Failed"}

VARIABLES
  status,                       \* the store's statuses, shared
  unsent,                       \* StatusFeed's: the changes not yet broadcast
  snapshot, todo, recovery_pc, restarting, attempt_number, attempts, in_progress,
  current_backoff, waited, restart_count, restart_records, recovery_cancelled,
  tries, give_ups, rested,      \* RecoveryEngine's
  channel, lagged, alert_pc, event, next_target, last_alert_age, alerted_for_failure,
  alert_records, alert_cancelled,
  told, quiet,                  \* AlertEngine's
  late                          \* history: given up after recovering, status unchanged since

R == INSTANCE RecoveryEngine WITH pc <- recovery_pc, cancelled <- recovery_cancelled

\* The recovery engine as AlertEngine sees it.  The scan decides with the snapshot it
\* is made on, not when it reaches the service: from then on a give-up is due, or the
\* attempts of a service that has been given up are as good as reset.
GiveUpState(s) ==
  LET pending == s \in todo
  IN  CASE /\ pending /\ snapshot[s] = "Failed" /\ Mode[s] # "none"
           /\ attempts[s] = MaxRestarts[s] -> "due"
        [] /\ attempts[s] > MaxRestarts[s]
           /\ ~(pending /\ snapshot[s] \in R!Settled) -> "done"
        [] OTHER -> "open"

A == INSTANCE AlertEngine WITH
  pc <- alert_pc, cancelled <- alert_cancelled,
  give_up <- [s \in Service |-> GiveUpState(s)]

alert_state == <<alert_pc, event, next_target, last_alert_age, alerted_for_failure,
                 alert_records, alert_cancelled, told, quiet>>

\* The store and the recovery engine.
recovery_state == <<status, snapshot, todo, recovery_pc, restarting, attempt_number,
                    attempts, in_progress, current_backoff, waited, restart_count,
                    restart_records, recovery_cancelled, tries, give_ups, rested>>

vars == <<recovery_state, unsent, channel, lagged, alert_state, late>>

Init ==
  /\ R!Init
  /\ unsent = [u \in Upstream |-> A!NoChange]
  /\ channel = <<>>
  /\ lagged = FALSE
  /\ alert_pc = "idle"
  /\ event = NoEvent
  /\ next_target = 0
  /\ last_alert_age = [s \in Service |-> Never]
  /\ alerted_for_failure = [s \in Service |-> FALSE]
  /\ alert_records = [s \in Service |-> <<>>]
  /\ alert_cancelled = FALSE
  /\ told = [s \in Service |-> Never]
  /\ quiet = [s \in Service |-> Cooldown]
  /\ late = {}

\* The health engine writes a status...
StatusChange(u) ==
  /\ R!StatusChange(ServiceOf[u])
  /\ A!ChangeStatus(u)
  /\ late' = late \ {ServiceOf[u]}
  /\ UNCHANGED <<channel, lagged, alert_state>>

\* ... and broadcasts the change.
Publish(u) == UNCHANGED recovery_state /\ A!Publish(u) /\ UNCHANGED late

\* handle_failed_service gives up: the event that keeps the previous status.
GiveUp(s) ==
  /\ R!GiveUp(s)
  /\ A!Send([service |-> s, to |-> "Failed", kept |-> TRUE])
  /\ late' = IF status[s] \in R!Settled THEN late \cup {s} ELSE late
  /\ UNCHANGED <<unsent, alert_state>>

\* Whatever else the recovery engine does, no event comes of it.  main stops it after
\* the alert engine.
Recover ==
  /\ \/ R!Poll
     \/ \E s \in Service : R!Settle(s) \/ R!Leave(s) \/ R!Begin(s)
     \/ R!Finish
     \/ R!RecordRestart
     \/ R!ScanDone
     \/ R!Stop
     \/ alert_pc = "stopped" /\ R!Shutdown
  /\ UNCHANGED <<unsent, channel, lagged, alert_state, late>>

AlertLoop == UNCHANGED recovery_state /\ A!Loop /\ UNCHANGED late

AlertEnd == UNCHANGED recovery_state /\ (A!Stop \/ A!Shutdown) /\ UNCHANGED late

Second == R!Second /\ A!Second /\ UNCHANGED late

Next ==
  \/ \E u \in Upstream : StatusChange(u) \/ Publish(u)
  \/ \E s \in Service : GiveUp(s)
  \/ Recover
  \/ AlertLoop
  \/ AlertEnd
  \/ Second

\* As in AlertEngine; nothing here needs the recovery engine to go on.
Fairness ==
  /\ WF_vars(AlertLoop)
  /\ \A u \in Upstream : WF_vars(Publish(u))
  /\ WF_vars(Second)

Spec == Init /\ [][Next]_vars /\ Fairness

-----------------------------------------------------------------------------
(* Properties.                                                             *)

\* The give-ups AlertEngine is checked against are those the recovery engine makes: at
\* most one for a scan, never a second one until a scan has seen the service Healthy
\* or Unknown, and possibly after the service has recovered.
ImplementsAlertEngine == A!Init /\ [][A!Next]_(A!vars)

\* What a give-up decided on before a recovery can do: a service that stays Healthy, and
\* whose events come in order, is in the end reported Healthy, or it has been given up
\* after it recovered.
RecoveryToldUnlessLate ==
  \A s \in Service :
    A!Heard(s) /\ A!InOrder(s) /\ <>[](status[s] = "Healthy") =>
      <>[](told[s] = "Healthy" \/ s \in late)
=============================================================================
