------------------------ MODULE RecoveryAlert_proofs ------------------------
(***************************************************************************)
(* The recovery engine, with the coordinator's scans, snapshots and        *)
(* attempts, is one of the recovery engines AlertEngine allows for: every  *)
(* step of the two engines together is a step of AlertEngine.              *)
(*                                                                         *)
(* The invariant of RecoveryEngine_proofs is used, not proved again: RP is *)
(* that module with the variables of the composition in place of its own,  *)
(* and its lemmas are cited for the recovery engine's part of every step.  *)
(***************************************************************************)
EXTENDS RecoveryAlert, TLAPS

RP == INSTANCE RecoveryEngine_proofs WITH pc <- recovery_pc, cancelled <- recovery_cancelled

\* Between two scans no service waits for its visit.
NothingPending == recovery_pc \in {"idle", "stopped"} => todo = {}

CompositionInv == RP!RecoveryInv /\ NothingPending

-----------------------------------------------------------------------------
(* The recovery engine's part of a step.                                   *)

LEMMA RecoveryAssumptionHolds == RP!RecoveryAssumption
BY RecoveryPart

\* R and RP are two instances of the same actions.
LEMMA SameActions ==
  /\ R!Init => RP!Init
  /\ R!Poll => RP!Poll
  /\ R!Finish => RP!Finish
  /\ R!RecordRestart => RP!RecordRestart
  /\ R!ScanDone => RP!ScanDone
  /\ R!Stop => RP!Stop
  /\ R!Shutdown => RP!Shutdown
  /\ R!Second => RP!Second
  /\ \A s \in Service :
       /\ R!Settle(s) => RP!Settle(s)
       /\ R!Leave(s) => RP!Leave(s)
       /\ R!GiveUp(s) => RP!GiveUp(s)
       /\ R!Begin(s) => RP!Begin(s)
       /\ R!StatusChange(s) => RP!StatusChange(s)
<1> USE DEF R!recovery, R!records, R!flight, R!history,
            RP!recovery, RP!records, RP!flight, RP!history,
            R!Visit, RP!Visit, R!Settled, RP!Settled
<1>1. R!Init => RP!Init
  BY DEF R!Init, RP!Init
<1>2. R!Poll => RP!Poll
  BY DEF R!Poll, RP!Poll
<1>3. R!Finish => RP!Finish
  BY DEF R!Finish, RP!Finish, R!Advanced, RP!Advanced, R!Least, RP!Least
<1>4. R!RecordRestart => RP!RecordRestart
  BY DEF R!RecordRestart, RP!RecordRestart, R!PushRecord, RP!PushRecord, R!Least, RP!Least
<1>5. R!ScanDone => RP!ScanDone
  BY DEF R!ScanDone, RP!ScanDone
<1>6. R!Stop => RP!Stop
  BY DEF R!Stop, RP!Stop
<1>7. R!Shutdown => RP!Shutdown
  BY DEF R!Shutdown, RP!Shutdown
<1>8. R!Second => RP!Second
  BY DEF R!Second, RP!Second, R!Least, RP!Least, R!Longest, RP!Longest
<1>9. ASSUME NEW s \in Service
      PROVE  /\ R!Settle(s) => RP!Settle(s)
             /\ R!Leave(s) => RP!Leave(s)
             /\ R!GiveUp(s) => RP!GiveUp(s)
             /\ R!Begin(s) => RP!Begin(s)
             /\ R!StatusChange(s) => RP!StatusChange(s)
  <2>1. R!Settle(s) => RP!Settle(s)
    BY DEF R!Settle, RP!Settle
  <2>2. R!Leave(s) => RP!Leave(s)
    BY DEF R!Leave, RP!Leave, R!InBackoff, RP!InBackoff
  <2>3. R!GiveUp(s) => RP!GiveUp(s)
    BY DEF R!GiveUp, RP!GiveUp
  <2>4. R!Begin(s) => RP!Begin(s)
    BY DEF R!Begin, RP!Begin, R!InBackoff, RP!InBackoff
  <2>5. R!StatusChange(s) => RP!StatusChange(s)
    BY DEF R!StatusChange, RP!StatusChange, R!Status, RP!Status
  <2> QED BY <2>1, <2>2, <2>3, <2>4, <2>5
<1> QED BY <1>1, <1>2, <1>3, <1>4, <1>5, <1>6, <1>7, <1>8, <1>9

\* Every step of the composition is one of the recovery engine or leaves it alone.
LEMMA RecoveryPartOfStep == [Next]_vars => [RP!Next]_(RP!vars)
<1> SUFFICES ASSUME [Next]_vars PROVE [RP!Next]_(RP!vars)
  OBVIOUS
<1> DEFINE Still == UNCHANGED RP!vars
<1>1. recovery_state' = recovery_state => Still
  BY DEF recovery_state, RP!vars, RP!recovery, RP!records, RP!flight, RP!history
<1>2. ASSUME NEW s \in Service, GiveUp(s) PROVE RP!Next
  BY <1>2, SameActions DEF GiveUp, RP!Next, RP!Coordinator, RP!VisitStep
<1>3. CASE Recover
  BY <1>3, SameActions DEF Recover, RP!Next, RP!Coordinator, RP!VisitStep
<1>4. CASE AlertLoop \/ AlertEnd
  BY <1>1, <1>4 DEF AlertLoop, AlertEnd
<1>5. CASE Second
  BY <1>5, SameActions DEF Second, RP!Next
<1>6. CASE UNCHANGED vars
  BY <1>1, <1>6 DEF vars
<1>7. ASSUME NEW u \in Upstream, StatusChange(u) \/ Publish(u) PROVE [RP!Next]_(RP!vars)
  <2>1. CASE StatusChange(u)
    BY <2>1, FeedPart, SameActions DEF StatusChange, RP!Next
  <2>2. CASE Publish(u)
    BY <1>1, <2>2 DEF Publish
  <2> QED BY <1>7, <2>1, <2>2
<1> QED BY <1>2, <1>3, <1>4, <1>5, <1>6, <1>7 DEF Next

LEMMA CompositionInit == Init => CompositionInv
<1> SUFFICES ASSUME Init PROVE CompositionInv
  OBVIOUS
<1>1. RP!Init
  BY SameActions DEF Init
<1>2. RP!RecoveryInv
  BY <1>1, RP!RecoveryInit, RecoveryAssumptionHolds
<1>3. NothingPending
  BY <1>1 DEF RP!Init, NothingPending
<1> QED BY <1>2, <1>3 DEF CompositionInv

\* Only Poll fills the list of services to visit, and ScanDone ends a scan no earlier
\* than all are visited.
LEMMA PendingStep == NothingPending /\ [RP!Next]_(RP!vars) => NothingPending'
<1> SUFFICES ASSUME NothingPending, [RP!Next]_(RP!vars) PROVE NothingPending'
  OBVIOUS
<1>1. ASSUME NEW s \in Service, RP!VisitStep(s) PROVE NothingPending'
  <2>1. recovery_pc' \in {"scanning", "restarting"}
    BY <1>1 DEF RP!VisitStep, RP!Settle, RP!Leave, RP!GiveUp, RP!Begin, RP!Visit
  <2> QED BY <2>1 DEF NothingPending
<1>2. CASE RP!Poll \/ RP!Finish \/ RP!RecordRestart
  BY <1>2 DEF RP!Poll, RP!Finish, RP!RecordRestart, NothingPending
<1>3. CASE RP!ScanDone \/ RP!Stop
  BY <1>3 DEF RP!ScanDone, RP!Stop, NothingPending
<1>4. CASE RP!Shutdown \/ RP!Second \/ UNCHANGED RP!vars
  BY <1>4 DEF RP!Shutdown, RP!Second, RP!vars, NothingPending
<1>5. ASSUME NEW s \in Service, RP!StatusChange(s) PROVE NothingPending'
  BY <1>5 DEF RP!StatusChange, NothingPending
<1> QED BY <1>1, <1>2, <1>3, <1>4, <1>5 DEF RP!Next, RP!Coordinator

LEMMA CompositionStep == CompositionInv /\ [Next]_vars => CompositionInv'
BY RecoveryPartOfStep, PendingStep, RP!RecoveryNext, RecoveryAssumptionHolds
   DEF CompositionInv

LEMMA CompositionInvariance == Spec => []CompositionInv
BY CompositionInit, CompositionStep, PTL DEF Spec

-----------------------------------------------------------------------------
(* What AlertEngine sees of the recovery engine.                           *)

\* A give-up is due to s in the scan under way.
Due(s) ==
  /\ s \in todo
  /\ snapshot[s] = "Failed"
  /\ Mode[s] # "none"
  /\ attempts[s] = MaxRestarts[s]

\* s has been given up, and no scan under way is about to give its attempts back.
Spent(s) ==
  /\ attempts[s] > MaxRestarts[s]
  /\ ~(s \in todo /\ snapshot[s] \in {"Healthy", "Unknown"})

LEMMA GiveUpStateMeaning ==
  ASSUME NEW s \in Service, attempts[s] \in Nat
  PROVE  /\ Due(s) => GiveUpState(s) = "due"
         /\ Spent(s) => GiveUpState(s) = "done"
         /\ ~Due(s) /\ ~Spent(s) => GiveUpState(s) = "open"
<1>1. MaxRestarts[s] \in Nat
  BY RecoveryPart
<1>2. ~(Due(s) /\ Spent(s))
  BY <1>1 DEF Due, Spent
<1> QED BY <1>2 DEF GiveUpState, Due, Spent, R!Settled

LEMMA GiveUpStateMeaningNext ==
  ASSUME NEW s \in Service, attempts'[s] \in Nat
  PROVE  /\ Due(s)' => GiveUpState(s)' = "due"
         /\ Spent(s)' => GiveUpState(s)' = "done"
         /\ ~Due(s)' /\ ~Spent(s)' => GiveUpState(s)' = "open"
<1>1. MaxRestarts[s] \in Nat
  BY RecoveryPart
<1>2. ~(Due(s)' /\ Spent(s)')
  BY <1>1 DEF Due, Spent
<1> QED BY <1>2 DEF GiveUpState, Due, Spent, R!Settled

\* The types the mapping needs, before and after a step.
LEMMA MappedTypes ==
  ASSUME CompositionInv
  PROVE  /\ attempts \in [Service -> Nat]
         /\ MaxRestarts \in [Service -> Nat]
         /\ status \in [Service -> {"Unknown", "Healthy", "Degraded", "Failed"}]
         /\ todo \subseteq Service
BY RecoveryPart DEF CompositionInv, RP!RecoveryInv, RP!TypeOK, RP!Status

\* Where the recovery engine is, service by service: the give_up of AlertEngine.
GiveUpStates == [s \in Service |-> GiveUpState(s)]

\* A state that is as due and as spent as before is the same state.
LEMMA SameGiveUpState ==
  ASSUME NEW s \in Service, attempts[s] \in Nat, attempts'[s] \in Nat,
         Due(s)' <=> Due(s), Spent(s)' <=> Spent(s)
  PROVE  GiveUpState(s)' = GiveUpState(s)
<1>1. CASE Due(s)
  BY <1>1, GiveUpStateMeaning, GiveUpStateMeaningNext
<1>2. CASE Spent(s)
  BY <1>2, GiveUpStateMeaning, GiveUpStateMeaningNext
<1>3. CASE ~Due(s) /\ ~Spent(s)
  BY <1>3, GiveUpStateMeaning, GiveUpStateMeaningNext
<1> QED BY <1>1, <1>2, <1>3

LEMMA SameGiveUpStates ==
  ASSUME UNCHANGED <<todo, snapshot, attempts>>
  PROVE  GiveUpStates' = GiveUpStates
BY DEF GiveUpStates, GiveUpState, R!Settled

-----------------------------------------------------------------------------
(* Every step is a step of AlertEngine.                                    *)

LEMMA MappedInit == Init => A!Init
<1> SUFFICES ASSUME Init PROVE A!Init
  OBVIOUS
<1>1. ASSUME NEW s \in Service PROVE GiveUpState(s) = "open"
  <2>1. todo = {} /\ attempts[s] = 0
    BY DEF Init, R!Init
  <2>2. ~Due(s) /\ ~Spent(s)
    BY <2>1, RecoveryPart DEF Due, Spent
  <2> QED BY <2>1, <2>2, GiveUpStateMeaning
<1>2. status = [s \in Service |-> "Unknown"]
  BY DEF Init, R!Init
<1> QED BY <1>1, <1>2 DEF Init, A!Init, A!FeedInit

LEMMA MappedStatusChange ==
  ASSUME NEW u \in Upstream, StatusChange(u)
  PROVE  A!StatusChange(u)
<1>1. GiveUpStates' = GiveUpStates
  BY SameGiveUpStates DEF StatusChange, R!StatusChange, R!recovery
<1> QED
  BY <1>1 DEF StatusChange, A!StatusChange, A!rate_limit, A!history, alert_state, GiveUpStates

\* A give-up was due, and has been made.
LEMMA MappedGiveUp ==
  ASSUME CompositionInv, CompositionInv', NEW s \in Service, GiveUp(s)
  PROVE  A!PublishGiveUp(s)
<1>1. /\ s \in todo /\ todo' = todo \ {s}
      /\ snapshot[s] = "Failed" /\ snapshot' = snapshot /\ status' = status
      /\ Mode[s] # "none" /\ attempts[s] = MaxRestarts[s]
      /\ attempts' = [attempts EXCEPT ![s] = attempts[s] + 1]
  BY DEF GiveUp, R!GiveUp, R!Visit
<1>2. attempts \in [Service -> Nat] /\ attempts' \in [Service -> Nat]
      /\ MaxRestarts \in [Service -> Nat]
  BY MappedTypes DEF CompositionInv, RP!RecoveryInv, RP!TypeOK
<1>3. GiveUpState(s) = "due"
  BY <1>1, <1>2, GiveUpStateMeaning DEF Due
<1>4. GiveUpState(s)' = "done"
  <2>1. attempts'[s] > MaxRestarts[s] /\ s \notin todo'
    BY <1>1, <1>2
  <2> QED BY <1>2, <2>1, GiveUpStateMeaningNext DEF Spent
<1>5. ASSUME NEW t \in Service, t # s PROVE GiveUpState(t)' = GiveUpState(t)
  <2>1. attempts'[t] = attempts[t] /\ (t \in todo' <=> t \in todo)
    BY <1>1, <1>2, <1>5
  <2>2. (Due(t)' <=> Due(t)) /\ (Spent(t)' <=> Spent(t))
    BY <1>1, <2>1 DEF Due, Spent
  <2> QED BY <1>2, <2>2, SameGiveUpState
<1>6. GiveUpStates' = [GiveUpStates EXCEPT ![s] = "done"]
  BY <1>4, <1>5 DEF GiveUpStates
<1>7. A!Send([service |-> s, to |-> "Failed", kept |-> TRUE])
      /\ UNCHANGED <<unsent, alert_state>>
  BY DEF GiveUp
<1> QED
  BY <1>1, <1>3, <1>6, <1>7
     DEF A!PublishGiveUp, A!rate_limit, A!history, alert_state, GiveUpStates

\* The poll decides: what is due is what the snapshot has Failed with its attempts
\* used up, and a service it has Healthy or Unknown is as good as reset.
LEMMA MappedPoll ==
  ASSUME CompositionInv, CompositionInv', R!Poll,
         UNCHANGED <<unsent, channel, lagged, alert_state>>
  PROVE  A!Scan
<1>1. /\ todo = {} /\ todo' = Service
      /\ snapshot' = status /\ attempts' = attempts /\ status' = status
  BY DEF R!Poll, R!recovery, CompositionInv, NothingPending
<1>2. attempts \in [Service -> Nat] /\ MaxRestarts \in [Service -> Nat]
  BY MappedTypes
<1> DEFINE due == {s \in Service : /\ status[s] = "Failed" /\ Mode[s] # "none"
                                   /\ attempts[s] = MaxRestarts[s]}
<1>3. ASSUME NEW s \in Service
      PROVE  /\ GiveUpState(s) = IF attempts[s] > MaxRestarts[s] THEN "done" ELSE "open"
             /\ Due(s)' <=> s \in due
             /\ Spent(s)' <=> /\ attempts[s] > MaxRestarts[s]
                              /\ status[s] \notin {"Healthy", "Unknown"}
  <2>1. ~Due(s) /\ (Spent(s) <=> attempts[s] > MaxRestarts[s])
    BY <1>1 DEF Due, Spent
  <2>2. GiveUpState(s) = IF attempts[s] > MaxRestarts[s] THEN "done" ELSE "open"
    BY <1>2, <2>1, GiveUpStateMeaning
  <2>3. (Due(s)' <=> s \in due)
    BY <1>1 DEF Due
  <2>4. Spent(s)' <=> attempts[s] > MaxRestarts[s] /\ status[s] \notin {"Healthy", "Unknown"}
    BY <1>1 DEF Spent
  <2> QED BY <2>2, <2>3, <2>4
<1>4. due \in SUBSET {s \in Service : status[s] = "Failed" /\ GiveUpStates[s] = "open"}
  <2>1. ASSUME NEW s \in due PROVE GiveUpState(s) = "open"
    BY <1>2, <1>3
  <2> QED BY <2>1 DEF GiveUpStates
<1>5. ASSUME NEW s \in Service
      PROVE  /\ s \in due => GiveUpState(s)' = "due"
             /\ s \notin due /\ status[s] \in {"Healthy", "Unknown"} =>
                  GiveUpState(s)' = "open"
             /\ s \notin due /\ status[s] \notin {"Healthy", "Unknown"} =>
                  GiveUpState(s)' = GiveUpState(s)
  <2>1. attempts'[s] \in Nat
    BY <1>1, <1>2
  <2> HIDE DEF due
  <2> QED BY <1>3, <2>1, GiveUpStateMeaningNext
<1> HIDE DEF due
<1>6. GiveUpStates' = [s \in Service |-> CASE s \in due -> "due"
                                          [] status[s] \in {"Healthy", "Unknown"} -> "open"
                                          [] OTHER -> GiveUpStates[s]]
  <2>1. ASSUME NEW s \in due PROVE status[s] \notin {"Healthy", "Unknown"}
    BY DEF due
  <2> QED BY <1>5, <2>1 DEF GiveUpStates
<1>7. \A s \in Service : GiveUpStates[s] # "due"
  BY <1>3 DEF GiveUpStates
<1> QED
  BY <1>1, <1>4, <1>6, <1>7
     DEF A!Scan, A!rate_limit, A!history, alert_state, GiveUpStates

\* What AlertEngine does not see.
LEMMA Unseen ==
  ASSUME GiveUpStates' = GiveUpStates, status' = status,
         UNCHANGED <<unsent, channel, lagged, alert_state>>
  PROVE  UNCHANGED A!vars
BY DEF A!vars, A!world, A!rate_limit, A!history, alert_state, GiveUpStates

\* A visit that gives nothing up: where s is with its give-up, the poll has decided.
\* InProgressExact is needed here: a visit never finds a restart in progress, so no
\* give-up that is due is left for a later scan.
LEMMA MappedVisit ==
  ASSUME CompositionInv, CompositionInv', NEW s \in Service,
         R!Settle(s) \/ R!Leave(s) \/ R!Begin(s)
  PROVE  GiveUpStates' = GiveUpStates /\ status' = status
<1>1. /\ s \in todo /\ todo' = todo \ {s} /\ recovery_pc = "scanning"
      /\ snapshot' = snapshot /\ status' = status
  BY DEF R!Settle, R!Leave, R!Begin, R!Visit
<1>2. attempts \in [Service -> Nat] /\ attempts' \in [Service -> Nat]
      /\ MaxRestarts \in [Service -> Nat]
  BY MappedTypes DEF CompositionInv, RP!RecoveryInv, RP!TypeOK
<1>3. \/ attempts' = attempts
      \/ attempts' = [attempts EXCEPT ![s] = 0] /\ snapshot[s] \in {"Healthy", "Unknown"}
      \/ /\ attempts' = [attempts EXCEPT ![s] = attempts[s] + 1]
         /\ attempts[s] < MaxRestarts[s]
  BY DEF R!Settle, R!Leave, R!Begin, R!recovery, R!Settled
<1>4. ASSUME NEW t \in Service, t # s PROVE GiveUpState(t)' = GiveUpState(t)
  <2>1. attempts'[t] = attempts[t]
    BY <1>2, <1>3, <1>4
  <2>2. (Due(t)' <=> Due(t)) /\ (Spent(t)' <=> Spent(t))
    BY <1>1, <1>4, <2>1 DEF Due, Spent
  <2> QED BY <1>2, <2>1, <2>2, SameGiveUpState
<1>5. ~Due(s)' /\ (Spent(s)' <=> attempts'[s] > MaxRestarts[s])
  BY <1>1 DEF Due, Spent
<1>6. ~in_progress[s]
  BY <1>1 DEF CompositionInv, RP!RecoveryInv, RP!InProgressExact
<1>7. ~Due(s) /\ (Spent(s) <=> attempts'[s] > MaxRestarts[s])
  <2>1. CASE R!Settle(s)
    <3>1. snapshot[s] \in {"Healthy", "Unknown"}
      BY <2>1 DEF R!Settle, R!Settled
    <3>2. attempts'[s] = 0
      BY <1>2, <2>1 DEF R!Settle, R!recovery
    <3> QED BY <1>1, <1>2, <3>1, <3>2 DEF Due, Spent
  <2>2. CASE R!Leave(s)
    <3>1. /\ attempts' = attempts
          /\ snapshot[s] \notin {"Healthy", "Unknown"}
          /\ snapshot[s] = "Failed" => Mode[s] = "none" \/ attempts[s] # MaxRestarts[s]
      BY <1>2, <1>6, <2>2 DEF R!Leave, R!recovery
    <3> QED BY <3>1 DEF Due, Spent
  <2>3. CASE R!Begin(s)
    <3>1. attempts[s] < MaxRestarts[s] /\ attempts'[s] = attempts[s] + 1
      BY <1>2, <2>3 DEF R!Begin
    <3> QED BY <1>2, <3>1 DEF Due, Spent
  <2> QED BY <2>1, <2>2, <2>3
<1>8. GiveUpState(s)' = GiveUpState(s)
  BY <1>2, <1>5, <1>7, SameGiveUpState
<1> QED BY <1>1, <1>4, <1>8 DEF GiveUpStates

LEMMA MappedRecover ==
  ASSUME CompositionInv, CompositionInv', Recover
  PROVE  [A!Scan]_(A!vars)
<1>1. UNCHANGED <<unsent, channel, lagged, alert_state>>
  BY DEF Recover
<1>2. CASE R!Poll
  BY <1>1, <1>2, MappedPoll
<1>3. ASSUME NEW s \in Service, R!Settle(s) \/ R!Leave(s) \/ R!Begin(s)
      PROVE  UNCHANGED A!vars
  BY <1>1, <1>3, MappedVisit, Unseen
<1>4. CASE R!Finish \/ R!RecordRestart \/ R!ScanDone \/ R!Stop \/ R!Shutdown
  <2>1. UNCHANGED <<status, todo, snapshot, attempts>>
    BY <1>4 DEF R!Finish, R!RecordRestart, R!ScanDone, R!Stop, R!Shutdown, R!recovery
  <2>2. GiveUpStates' = GiveUpStates
    BY <2>1, SameGiveUpStates
  <2> QED BY <1>1, <2>1, <2>2, Unseen
<1> QED BY <1>2, <1>3, <1>4 DEF Recover

\* The alert engine's own steps leave the store and the recovery engine alone.
LEMMA MappedAlert ==
  ASSUME AlertLoop \/ AlertEnd \/ Second \/ \E u \in Upstream : Publish(u)
  PROVE  A!Next
BY DEF Publish, AlertLoop, AlertEnd, Second, A!Next

LEMMA MappedStep == CompositionInv /\ CompositionInv' /\ [Next]_vars => [A!Next]_(A!vars)
<1> SUFFICES ASSUME CompositionInv, CompositionInv', [Next]_vars PROVE [A!Next]_(A!vars)
  OBVIOUS
<1>1. ASSUME NEW s \in Service, GiveUp(s) PROVE A!Next
  BY <1>1, MappedGiveUp DEF A!Next
<1>2. CASE Recover
  BY <1>2, MappedRecover DEF A!Next
<1>3. CASE AlertLoop \/ AlertEnd \/ Second
  BY <1>3, MappedAlert
<1>4. CASE UNCHANGED vars
  <2>1. UNCHANGED <<status, todo, snapshot, attempts, unsent, channel, lagged, alert_state>>
    BY <1>4 DEF vars, recovery_state
  <2>2. GiveUpStates' = GiveUpStates
    BY <2>1, SameGiveUpStates
  <2> QED BY <2>1, <2>2, Unseen
<1>5. ASSUME NEW u \in Upstream, StatusChange(u) \/ Publish(u) PROVE A!Next
  BY <1>5, MappedStatusChange, MappedAlert DEF A!Next
<1> QED BY <1>1, <1>2, <1>3, <1>4, <1>5 DEF Next

\* The give-ups of the recovery engine, with its scans, old snapshots and attempts, are
\* give-ups AlertEngine allows for: at most one for a scan, none before the attempts are
\* used up, and no second one until a scan has seen the service Healthy or Unknown.
THEOREM RecoveryAlertImplements == Spec => ImplementsAlertEngine
BY MappedInit, MappedStep, CompositionInvariance, PTL DEF Spec, ImplementsAlertEngine

-----------------------------------------------------------------------------
(* What the two engines keep to together follows from what each keeps to:  *)
(* the composition takes only steps that either engine's invariant allows. *)

AP == INSTANCE AlertEngine_proofs WITH
  pc <- alert_pc, cancelled <- alert_cancelled,
  give_up <- [s \in Service |-> GiveUpState(s)]

LEMMA AlertAssumptionHolds == AP!AlertAssumption /\ AP!FeedAssumption
BY AlertPart, FeedPart DEF AP!Kind, AP!Status

\* A and AP are two instances of the same specification.
LEMMA SameSend ==
  ASSUME NEW e, A!Send(e)
  PROVE  AP!Send(e)
BY DEF A!Send, AP!Send

LEMMA SameAlertSteps == A!Next => AP!Next
<1> SUFFICES ASSUME A!Next PROVE AP!Next
  OBVIOUS
<1> USE DEF A!world, A!rate_limit, A!history, AP!world, AP!rate_limit, AP!history
<1>1. ASSUME NEW u \in Upstream, A!Publish(u) PROVE AP!Publish(u)
  BY <1>1, SameSend DEF A!Publish, AP!Publish, A!TakeChange, AP!TakeChange,
                        A!NoChange, AP!NoChange
<1>2. ASSUME NEW s \in Service, A!PublishGiveUp(s) PROVE AP!PublishGiveUp(s)
  BY <1>2, SameSend DEF A!PublishGiveUp, AP!PublishGiveUp
<1>3. A!Scan => AP!Scan
  BY DEF A!Scan, AP!Scan
<1>4. A!Skip => AP!Skip
  BY DEF A!Skip, AP!Skip, A!should_suppress_event, AP!should_suppress_event,
         A!is_rate_limited, AP!is_rate_limited
<1>5. A!Alert => AP!Alert
  BY DEF A!Alert, AP!Alert, A!should_suppress_event, AP!should_suppress_event,
         A!is_rate_limited, AP!is_rate_limited, A!update_rate_limit, AP!update_rate_limit,
         A!Failure, AP!Failure
<1>6. A!Lagged => AP!Lagged
  BY DEF A!Lagged, AP!Lagged
<1>7. A!Deliver => AP!Deliver
  BY DEF A!Deliver, AP!Deliver, A!PushRecord, AP!PushRecord,
         A!update_rate_limit, AP!update_rate_limit, A!Failure, AP!Failure
<1>8. A!Stop => AP!Stop
  BY DEF A!Stop, AP!Stop
<1>9. A!Second => AP!Second
  BY DEF A!Second, AP!Second
<1>10. A!Shutdown => AP!Shutdown
  BY DEF A!Shutdown, AP!Shutdown
<1>11. ASSUME NEW u \in Upstream, A!StatusChange(u) PROVE AP!StatusChange(u)
  BY <1>11 DEF A!StatusChange, AP!StatusChange, A!ChangeStatus, AP!ChangeStatus,
               A!Feasible, AP!Feasible, A!Siblings, AP!Siblings, A!NoChange, AP!NoChange,
               A!Status, AP!Status, A!Failure, AP!Failure
<1> QED
  BY <1>1, <1>2, <1>3, <1>4, <1>5, <1>6, <1>7, <1>8, <1>9, <1>10, <1>11
     DEF A!Next, AP!Next, A!Loop, AP!Loop

LEMMA SameAlert ==
  /\ A!Init => AP!Init
  /\ [A!Next]_(A!vars) => [AP!Next]_(AP!vars)
<1>1. A!Init => AP!Init
  BY DEF A!Init, AP!Init, A!FeedInit, AP!FeedInit, A!NoChange, AP!NoChange
<1>2. UNCHANGED A!vars => UNCHANGED AP!vars
  BY DEF A!vars, A!world, A!rate_limit, A!history, AP!vars, AP!world, AP!rate_limit, AP!history
<1> QED BY <1>1, <1>2, SameAlertSteps

LEMMA ComposedAlertInv == Spec => []AP!AlertInv
<1>1. Init => AP!AlertInv
  BY MappedInit, SameAlert, AP!AlertInit, AlertAssumptionHolds
<1>2. AP!AlertInv /\ [A!Next]_(A!vars) => AP!AlertInv'
  BY SameAlert, AP!AlertNext, AlertAssumptionHolds
<1> QED
  BY <1>1, <1>2, RecoveryAlertImplements, PTL DEF Spec, ImplementsAlertEngine

\* In the two engines together, too, the coordinator does what the restart policy
\* allows: the alert engine never delays, repeats or adds a visit.
THEOREM CompositionImplementsPolicy == Spec => RP!ImplementsPolicy
<1>1. Init => RP!Policy!Init
  BY SameActions, RP!PolicyInit, RecoveryAssumptionHolds DEF Init
<1>2. CompositionInv /\ [Next]_vars => [RP!Policy!Next]_(RP!Policy!policy)
  BY RecoveryPartOfStep, RP!PolicyStep, RecoveryAssumptionHolds DEF CompositionInv
<1> QED
  BY <1>1, <1>2, CompositionInvariance, PTL DEF Spec, RP!ImplementsPolicy, RP!Policy!Spec

\* Two alerts about failures of a service, with no recovery told between them, keep the
\* cooldown whenever the recovery engine gives up.
THEOREM CompositionCooldownRespected == Spec => A!CooldownRespected
<1>1. AP!AlertInv /\ [A!Next]_(A!vars) =>
        [\A s \in Service :
           /\ alert_pc = "idle" /\ alert_pc' = "dispatching"
           /\ event'.service = s /\ event'.to \in A!Failure /\ told[s] \in A!Failure
           => quiet[s] >= Cooldown]_(A!vars)
  <2> SUFFICES ASSUME AP!AlertInv, A!Next, NEW s \in Service,
                      alert_pc = "idle", alert_pc' = "dispatching",
                      event'.service = s, event'.to \in A!Failure, told[s] \in A!Failure
               PROVE  quiet[s] >= Cooldown
    OBVIOUS
  <2>1. AP!Next /\ event'.to \in AP!Failure /\ told[s] \in AP!Failure
    BY SameAlertSteps DEF A!Failure, AP!Failure
  <2> QED BY <2>1, AP!CooldownStep, AlertAssumptionHolds
<1> QED
  BY <1>1, ComposedAlertInv, RecoveryAlertImplements, PTL
     DEF A!CooldownRespected, ImplementsAlertEngine
=============================================================================
