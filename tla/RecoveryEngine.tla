--------------------------- MODULE RecoveryEngine ---------------------------
(***************************************************************************)
(* The recovery engine (recovery.rs): one coordinator task that polls a    *)
(* snapshot of every service's status and, service by service, resets,     *)
(* watches, restarts or gives up.  A restart is awaited inside the scan,   *)
(* so while one service is being restarted the statuses of all the others  *)
(* go on changing under a snapshot that is not taken again.                *)
(*                                                                         *)
(* Durations are in whole seconds, as in RecoveryState.  The statuses are  *)
(* written by the health engine; here they are the environment, limited to *)
(* the changes the health engine is shown to write (HealthWritesChanges).  *)
(***************************************************************************)
EXTENDS Integers, Sequences

CONSTANTS
  Service,           \* the ids of the [[services]] blocks
  Mode,              \* Mode[s]: restart.mode, "none", "manual" or "docker"
  MaxRestarts,       \* MaxRestarts[s]: max_restarts
  BaseBackoff,       \* BASE_BACKOFF_SECS
  MaxBackoff,        \* MAX_BACKOFF_SECS
  MaxRestartRecords, \* MAX_RESTART_RECORDS
  CountCap,          \* bound: restart_count is not counted beyond this
  NotStarted,        \* backoff_started_at = None
  NoService          \* no restart is in flight

\* The cap and the most that the jitter puts on top of it.
Longest == MaxBackoff + (MaxBackoff \div 5) + 2

ASSUME RecoveryAssumption ==
  /\ Mode \in [Service -> {"none", "manual", "docker"}]
  /\ MaxRestarts \in [Service -> Nat]
  /\ BaseBackoff \in Nat
  /\ MaxBackoff \in Nat
  /\ BaseBackoff <= MaxBackoff
  /\ MaxRestartRecords \in Nat \ {0}
  /\ CountCap \in Nat
  /\ CountCap >= MaxRestartRecords
  /\ NotStarted \notin Nat
  /\ NoService \notin Service

VARIABLES
  status,           \* ServiceState.status in the shared store
  snapshot,         \* the copy of the statuses the current scan works on
  todo,             \* the services the scan has still to visit
  pc,               \* where the coordinator is
  restarting,       \* the service whose restart the coordinator awaits
  attempt_number,   \* the number of that restart in its episode
  attempts,         \* RecoveryState.current_episode_attempts
  in_progress,      \* RecoveryState.restart_in_progress
  current_backoff,  \* RecoveryState.current_backoff
  waited,           \* time since RecoveryState.backoff_started_at
  restart_count,    \* ServiceState.restart_count
  restart_records,  \* the attempt numbers of restart_records, oldest first
  cancelled,        \* the engine's CancellationToken
  tries,            \* history: restarts begun in the present outage of a service
  give_ups,         \* history: give-up events broadcast in the present outage
  rested            \* history: time since the last restart of a service ended

recovery == <<attempts, in_progress, current_backoff, waited>>
records == <<restart_count, restart_records>>
history == <<tries, give_ups, rested>>
flight == <<restarting, attempt_number>>

vars == <<status, snapshot, todo, pc, flight, recovery, records, cancelled, history>>

Status == {"Unknown", "Healthy", "Degraded", "Failed"}

\* An outage of a service lasts from its leaving Healthy or Unknown to its being
\* one of them again.  These are also the statuses that reset an episode.
Settled == {"Healthy", "Unknown"}

Least(a, b) == IF a <= b THEN a ELSE b

\* RecoveryState::initial
Init ==
  /\ status = [s \in Service |-> "Unknown"]
  /\ snapshot = [s \in Service |-> "Unknown"]
  /\ todo = {}
  /\ pc = "idle"
  /\ restarting = NoService
  /\ attempt_number = 0
  /\ attempts = [s \in Service |-> 0]
  /\ in_progress = [s \in Service |-> FALSE]
  /\ current_backoff = [s \in Service |-> BaseBackoff]
  /\ waited = [s \in Service |-> NotStarted]
  /\ restart_count = [s \in Service |-> 0]
  /\ restart_records = [s \in Service |-> <<>>]
  /\ cancelled = FALSE
  /\ tries = [s \in Service |-> 0]
  /\ give_ups = [s \in Service |-> 0]
  /\ rested = [s \in Service |-> MaxBackoff]

-----------------------------------------------------------------------------
(* The coordinator.                                                        *)

\* The ticker fires: snapshot_services copies every status under the read lock.
Poll ==
  /\ pc = "idle"
  /\ pc' = "scanning"
  /\ snapshot' = status
  /\ todo' = Service
  /\ UNCHANGED <<status, flight, recovery, records, cancelled, history>>

\* The scan takes up s, in the order of a HashMap: any order.
Visit(s) ==
  /\ pc = "scanning"
  /\ s \in todo
  /\ todo' = todo \ {s}

\* Two wrong resets: one attempt is given back for every good scan; a service that was
\* given up stays so.
Settle_Refund(s) ==
  /\ Visit(s)
  /\ snapshot[s] \in Settled
  /\ attempts' = [attempts EXCEPT ![s] = @ - 1]
  /\ UNCHANGED <<status, snapshot, pc, flight, in_progress, current_backoff, waited,
                 records, cancelled, history>>

Settle_NotGivenUp(s) ==
  /\ Visit(s)
  /\ snapshot[s] \in Settled
  /\ attempts' = [attempts EXCEPT ![s] = IF @ > MaxRestarts[s] THEN @ ELSE 0]
  /\ UNCHANGED <<status, snapshot, pc, flight, in_progress, current_backoff, waited,
                 records, cancelled, history>>

\* The snapshot has s Healthy or Unknown: an episode with attempts is over.
Settle(s) ==
  /\ Visit(s)
  /\ snapshot[s] \in Settled
  /\ IF attempts[s] > 0
     THEN /\ attempts' = [attempts EXCEPT ![s] = 0]
          /\ in_progress' = [in_progress EXCEPT ![s] = FALSE]
          /\ current_backoff' = [current_backoff EXCEPT ![s] = BaseBackoff]
          /\ waited' = [waited EXCEPT ![s] = NotStarted]
     ELSE UNCHANGED recovery
  /\ UNCHANGED <<status, snapshot, pc, flight, records, cancelled, history>>

InBackoff(s) == waited[s] # NotStarted /\ waited[s] < current_backoff[s]

\* The snapshot has s Degraded, or Failed with nothing to do now: mode none, a
\* restart in progress, given up already, or still in backoff.
Leave(s) ==
  /\ Visit(s)
  /\ \/ snapshot[s] = "Degraded"
     \/ /\ snapshot[s] = "Failed"
        /\ \/ Mode[s] = "none"
           \/ in_progress[s]
           \/ attempts[s] > MaxRestarts[s]
           \/ attempts[s] < MaxRestarts[s] /\ InBackoff(s)
  /\ UNCHANGED <<status, snapshot, pc, flight, recovery, records, cancelled, history>>

\* A wrong give-up: the episode is closed with the event, and the attempts start again.
GiveUp_Reset(s) ==
  /\ Visit(s)
  /\ snapshot[s] = "Failed"
  /\ Mode[s] # "none"
  /\ ~in_progress[s]
  /\ attempts[s] = MaxRestarts[s]
  /\ attempts' = [attempts EXCEPT ![s] = 0]
  /\ give_ups' = [give_ups EXCEPT ![s] = IF status[s] \in Settled THEN @ ELSE 1]
  /\ UNCHANGED <<status, snapshot, pc, flight, in_progress, current_backoff, waited,
                 records, cancelled, tries, rested>>

\* max_restarts is used up: one Failed-to-Failed event, and the counter goes one
\* beyond the maximum so that the event is not sent again.
GiveUp(s) ==
  /\ Visit(s)
  /\ snapshot[s] = "Failed"
  /\ Mode[s] # "none"
  /\ ~in_progress[s]
  /\ attempts[s] = MaxRestarts[s]
  /\ attempts' = [attempts EXCEPT ![s] = @ + 1]
  /\ give_ups' = [give_ups EXCEPT ![s] = IF status[s] \in Settled THEN @ ELSE @ + 1]
  /\ UNCHANGED <<status, snapshot, pc, flight, in_progress, current_backoff, waited,
                 records, cancelled, tries, rested>>

\* The restart begins; the mutex is released before it is awaited.
Begin(s) ==
  /\ Visit(s)
  /\ snapshot[s] = "Failed"
  /\ Mode[s] # "none"
  /\ ~in_progress[s]
  /\ attempts[s] < MaxRestarts[s]
  /\ ~InBackoff(s)
  /\ pc' = "restarting"
  /\ restarting' = s
  /\ attempt_number' = attempts[s] + 1
  /\ attempts' = [attempts EXCEPT ![s] = @ + 1]
  /\ in_progress' = [in_progress EXCEPT ![s] = TRUE]
  /\ waited' = [waited EXCEPT ![s] = 0]
  /\ tries' = [tries EXCEPT ![s] = IF status[s] \in Settled THEN @ ELSE @ + 1]
  /\ UNCHANGED <<status, snapshot, current_backoff, records, cancelled, give_ups, rested>>

\* A wrong advance: the cap is forgotten.
Advanced_Uncapped(backoff, n) ==
  LET doubled == 2 * backoff
  IN  doubled + (doubled \div 5) + (n % 3)

\* RecoveryState::advance_backoff: doubled, capped, and the jitter on top of the cap.
Advanced(backoff, n) ==
  LET capped == Least(2 * backoff, MaxBackoff)
  IN  capped + (capped \div 5) + (n % 3)

\* Two wrong ends of a restart: the flag is left set; the wait goes on counting from
\* the beginning of the restart.
Finish_KeepFlag ==
  /\ pc = "restarting"
  /\ pc' = "recording"
  /\ current_backoff' = [current_backoff EXCEPT
                           ![restarting] = Advanced(@, attempts[restarting])]
  /\ waited' = [waited EXCEPT ![restarting] = 0]
  /\ rested' = [rested EXCEPT ![restarting] = 0]
  /\ UNCHANGED <<status, snapshot, todo, flight, attempts, in_progress, records, cancelled,
                 tries, give_ups>>

Finish_KeepWait ==
  /\ pc = "restarting"
  /\ pc' = "recording"
  /\ current_backoff' = [current_backoff EXCEPT
                           ![restarting] = Advanced(@, attempts[restarting])]
  /\ in_progress' = [in_progress EXCEPT ![restarting] = FALSE]
  /\ rested' = [rested EXCEPT ![restarting] = 0]
  /\ UNCHANGED <<status, snapshot, todo, flight, attempts, waited, records, cancelled,
                 tries, give_ups>>

\* The restart has ended, one way or another: every RestartOutcome advances the
\* backoff and starts it anew (the outcome itself only goes into the record).
Finish ==
  /\ pc = "restarting"
  /\ pc' = "recording"
  /\ current_backoff' = [current_backoff EXCEPT
                           ![restarting] = Advanced(@, attempts[restarting])]
  /\ in_progress' = [in_progress EXCEPT ![restarting] = FALSE]
  /\ waited' = [waited EXCEPT ![restarting] = 0]
  /\ rested' = [rested EXCEPT ![restarting] = 0]
  /\ UNCHANGED <<status, snapshot, todo, flight, attempts, records, cancelled, tries, give_ups>>

\* A wrong trim: a full history refuses the newest record.
PushRecord_KeepOldest(seq, r) ==
  IF Len(seq) = MaxRestartRecords THEN seq ELSE Append(seq, r)

\* push, then drop the oldest when the limit is exceeded.
PushRecord(seq, r) ==
  LET longer == Append(seq, r)
  IN  IF Len(longer) > MaxRestartRecords THEN Tail(longer) ELSE longer

\* record_restart, under the write lock of the store.
RecordRestart ==
  /\ pc = "recording"
  /\ pc' = "scanning"
  /\ restart_count' = [restart_count EXCEPT ![restarting] = Least(@ + 1, CountCap)]
  /\ restart_records' = [restart_records EXCEPT ![restarting] = PushRecord(@, attempt_number)]
  /\ restarting' = NoService
  /\ attempt_number' = 0
  /\ UNCHANGED <<status, snapshot, todo, recovery, cancelled, history>>

\* scan_and_recover returns to the select.
ScanDone ==
  /\ pc = "scanning"
  /\ todo = {}
  /\ pc' = "idle"
  /\ UNCHANGED <<status, snapshot, todo, flight, recovery, records, cancelled, history>>

\* A wrong loop: episodes are seen to their end before the token is obeyed.
Stop_AfterEpisodes ==
  /\ pc = "idle"
  /\ cancelled
  /\ \A s \in Service : attempts[s] = 0
  /\ pc' = "stopped"
  /\ UNCHANGED <<status, snapshot, todo, flight, recovery, records, cancelled, history>>

\* The cancellation branch of the (unbiased) select: only between two scans.
Stop ==
  /\ pc = "idle"
  /\ cancelled
  /\ pc' = "stopped"
  /\ UNCHANGED <<status, snapshot, todo, flight, recovery, records, cancelled, history>>

-----------------------------------------------------------------------------
(* The surroundings.                                                       *)

\* RecoveryEngineHandle::shutdown
Shutdown ==
  /\ ~cancelled
  /\ cancelled' = TRUE
  /\ UNCHANGED <<status, snapshot, todo, pc, flight, recovery, records, history>>

\* The health engine writes a new status.
StatusChange(s) ==
  /\ \E new \in Status \ {status[s]} :
       /\ new = "Unknown" => status[s] = "Degraded"
       /\ status' = [status EXCEPT ![s] = new]
       /\ IF new \in Settled
          THEN /\ tries' = [tries EXCEPT ![s] = 0]
               /\ give_ups' = [give_ups EXCEPT ![s] = 0]
          ELSE UNCHANGED <<tries, give_ups>>
  /\ UNCHANGED <<snapshot, todo, pc, flight, recovery, records, cancelled, rested>>

\* A second passes.  No backoff is longer than Longest (BackoffCeiling) and nothing
\* asks how much longer than the cap a rest has been: the clocks stop there.
Second ==
  /\ waited' = [s \in Service |-> IF waited[s] = NotStarted THEN NotStarted
                                  ELSE Least(waited[s] + 1, Longest)]
  /\ rested' = [s \in Service |-> Least(rested[s] + 1, MaxBackoff)]
  /\ UNCHANGED <<status, snapshot, todo, pc, flight, attempts, in_progress, current_backoff,
                 records, cancelled, tries, give_ups>>

VisitStep(s) == Settle(s) \/ Leave(s) \/ GiveUp(s) \/ Begin(s)

Coordinator ==
  \/ Poll
  \/ \E s \in Service : VisitStep(s)
  \/ Finish
  \/ RecordRestart
  \/ ScanDone

Next ==
  \/ Coordinator
  \/ Stop
  \/ Shutdown
  \/ Second
  \/ \E s \in Service : StatusChange(s)

\* The ticker keeps firing, every restart ends (a command is killed after
\* RESTART_COMMAND_TIMEOUT_SECS, a Docker call fails at the client's timeout), time
\* passes, and the select takes a branch that is offered again and again.
Fairness ==
  /\ WF_vars(Coordinator)
  /\ WF_vars(Second)
  /\ SF_vars(Stop)

Spec == Init /\ [][Next]_vars /\ Fairness

-----------------------------------------------------------------------------
(* Properties.                                                             *)

TypeOK ==
  /\ status \in [Service -> Status]
  /\ snapshot \in [Service -> Status]
  /\ todo \subseteq Service
  /\ pc \in {"idle", "scanning", "restarting", "recording", "stopped"}
  /\ restarting \in Service \cup {NoService}
  /\ attempt_number \in Nat
  /\ attempts \in [Service -> Nat]
  /\ in_progress \in [Service -> BOOLEAN]
  /\ current_backoff \in [Service -> Nat]
  /\ waited \in [Service -> Nat \cup {NotStarted}]
  /\ restart_count \in [Service -> Nat]
  /\ restart_records \in [Service -> Seq(Nat)]
  /\ cancelled \in BOOLEAN
  /\ tries \in [Service -> Nat]
  /\ give_ups \in [Service -> Nat]
  /\ rested \in [Service -> Nat]

\* restart_in_progress says exactly which restart the coordinator awaits: there is
\* never a second one, none is left behind when the engine stops, and reset(),
\* which clears the flag, never runs under a restart.
InProgressExact ==
  \A s \in Service : in_progress[s] <=> pc = "restarting" /\ restarting = s

\* In one outage a service is restarted at most max_restarts times and given up at
\* most once, although the engine resets and restarts on snapshots that may be
\* older than the outage.
OutageBudget ==
  \A s \in Service : tries[s] <= MaxRestarts[s] /\ give_ups[s] <= 1

\* The abstract policy, seen through the store and the coordinator.
Policy == INSTANCE RestartPolicy WITH
  Limit <- MaxRestarts,
  Nobody <- NoService,
  outage <- {s \in Service : status[s] \notin Settled},
  spent <- tries,
  given_up <- {s \in Service : give_ups[s] > 0},
  busy <- IF pc = "restarting" THEN restarting ELSE NoService

\* However old the snapshots are, what the coordinator does is what the policy allows:
\* one restart at a time, max_restarts of them in an outage, and none of that outage
\* after its give-up.
ImplementsPolicy == Policy!Spec

\* A service without attempts has the recovery state it started with, and one with
\* attempts counts at most one beyond the maximum.
FreshEpisode ==
  \A s \in Service :
    /\ attempts[s] <= MaxRestarts[s] + 1
    /\ attempts[s] = 0 => current_backoff[s] = BaseBackoff /\ waited[s] = NotStarted

\* The restart history the API shows: attempt numbers grow by one within an episode
\* and start again at one, they end with the attempts of the present episode, and
\* restart_count counts them all, the restart awaited or not yet recorded excepted.
RestartHistory ==
  \A s \in Service :
    LET h == restart_records[s]
        n == Len(h)
        open == IF restarting = s THEN 1 ELSE 0
        done == Least(attempts[s], MaxRestarts[s]) - open
    IN  /\ n = Least(restart_count[s], MaxRestartRecords)
        /\ \A i \in 1 .. n : h[i] \in 1 .. MaxRestarts[s]
        /\ \A i \in 1 .. n - 1 : h[i + 1] \in {1, h[i] + 1}
        /\ done > 0 => n > 0 /\ h[n] = done

\* The wait before restart k+1 of an episode doubles with every restart up to the
\* cap, counted from the end of the previous restart.
BackoffRespected ==
  [][\A s \in Service :
       tries'[s] > tries[s] /\ attempts[s] > 0
         => rested[s] >= Least(BaseBackoff * 2 ^ attempts[s], MaxBackoff)]_vars

\* No wait exceeds the cap by more than the jitter.
BackoffCeiling ==
  \A s \in Service : current_backoff[s] <= Longest

\* A service that stays Failed is given up in the end: after its last restart the
\* counter goes one beyond the maximum.
FailedIsGivenUp ==
  \A s \in Service :
    Mode[s] # "none" /\ []~cancelled /\ <>[](status[s] = "Failed")
      => <>[](attempts[s] = MaxRestarts[s] + 1)

\* A service that stays Healthy gets its attempts back.
HealthyIsReset ==
  \A s \in Service :
    []~cancelled /\ <>[](status[s] = "Healthy") => <>[](attempts[s] = 0)

\* shutdown() returns: whatever restart is awaited, the coordinator ends.
StopsOnCancel == cancelled ~> pc = "stopped"

-----------------------------------------------------------------------------
(* What the documents and comments of the repository say and the code does *)
(* not do.                                                                 *)

\* The recovery engine only acts on Failed.
ActsOnlyOnFailed ==
  [][\A s \in Service : ~in_progress[s] /\ in_progress'[s] => status[s] = "Failed"]_vars
=============================================================================
