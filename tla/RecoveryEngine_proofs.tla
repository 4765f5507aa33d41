------------------------ MODULE RecoveryEngine_proofs ------------------------
(***************************************************************************)
(* What the recovery engine keeps to for every number of services, every   *)
(* max_restarts and every pair of backoff bounds, although the snapshot it *)
(* works on may be older than the outage it works on.                      *)
(***************************************************************************)
EXTENDS RecoveryEngine, SequenceTheorems, FiniteSetTheorems, TLAPS

\* The restart in flight, if there is one, belongs to an episode with attempts.
Flight ==
  IF pc \in {"restarting", "recording"}
  THEN restarting \in Service /\ attempts[restarting] > 0
  ELSE restarting = NoService

\* Nothing has been spent in an outage that has not begun.
Unspent(s) == tries[s] = 0 /\ give_ups[s] = 0

\* The key to the budget: while s waits for its visit and the snapshot has it
\* settled, the outage s may be in by now is younger than the snapshot, so the
\* reset the visit makes takes back nothing that was spent in it.
Ledger(s) ==
  /\ status[s] \in Settled => Unspent(s)
  /\ s \in todo /\ snapshot[s] \in Settled => Unspent(s)
  /\ tries[s] <= attempts[s]
  /\ tries[s] <= MaxRestarts[s]
  /\ give_ups[s] <= 1
  /\ give_ups[s] = 1 => attempts[s] = MaxRestarts[s] + 1

RecoveryInv ==
  /\ TypeOK
  /\ Flight
  /\ InProgressExact
  /\ \A s \in Service : Ledger(s)
  /\ FreshEpisode
  /\ BackoffCeiling

-----------------------------------------------------------------------------
\* The next backoff is a number of seconds no longer than the cap and its jitter.
LEMMA AdvancedBounded ==
  ASSUME NEW b \in Nat, NEW n \in Nat
  PROVE  Advanced(b, n) \in Nat /\ Advanced(b, n) <= Longest
<1> DEFINE capped == Least(2 * b, MaxBackoff)
<1>1. capped \in Nat /\ capped <= MaxBackoff
  BY RecoveryAssumption DEF Least
<1>2. n % 3 \in 0 .. 2
  OBVIOUS
<1>3. capped \div 5 \in Nat /\ capped \div 5 <= MaxBackoff \div 5
  <2> HIDE DEF capped
  <2> QED BY <1>1, RecoveryAssumption
<1> HIDE DEF capped
<1>4. MaxBackoff \div 5 \in Nat
  BY RecoveryAssumption
<1>5. Advanced(b, n) = capped + (capped \div 5) + (n % 3)
  BY DEF Advanced, capped
<1> HIDE DEF Least
<1> QED BY <1>1, <1>2, <1>3, <1>4, <1>5, RecoveryAssumption DEF Longest

LEMMA LeastType ==
  ASSUME NEW a \in Nat, NEW b \in Nat
  PROVE  Least(a, b) \in Nat /\ Least(a, b) <= a /\ Least(a, b) <= b
BY DEF Least

LEMMA LongestType == Longest \in Nat /\ BaseBackoff <= Longest
BY RecoveryAssumption DEF Longest

LEMMA MaxRestartsType ==
  ASSUME NEW s \in Service
  PROVE  MaxRestarts[s] \in Nat
BY RecoveryAssumption

LEMMA PushRecordType ==
  ASSUME NEW h \in Seq(Nat), NEW r \in Nat
  PROVE  PushRecord(h, r) \in Seq(Nat)
BY DEF PushRecord

-----------------------------------------------------------------------------
LEMMA RecoveryInit == Init => RecoveryInv
<1> SUFFICES ASSUME Init PROVE RecoveryInv
  OBVIOUS
<1>1. TypeOK
  <2>1. /\ status \in [Service -> Status]
        /\ snapshot \in [Service -> Status]
    BY DEF Init, Status
  <2>2. /\ attempts \in [Service -> Nat]
        /\ restart_count \in [Service -> Nat]
        /\ tries \in [Service -> Nat]
        /\ give_ups \in [Service -> Nat]
    BY DEF Init
  <2>3. current_backoff \in [Service -> Nat] /\ rested \in [Service -> Nat]
    BY RecoveryAssumption, LongestType DEF Init
  <2>4. waited \in [Service -> Nat \cup {NotStarted}]
    BY DEF Init
  <2>5. in_progress \in [Service -> BOOLEAN]
    BY DEF Init
  <2>6. restart_records \in [Service -> Seq(Nat)]
    BY DEF Init
  <2>7. /\ todo = {} /\ pc = "idle" /\ restarting = NoService
        /\ attempt_number = 0 /\ cancelled = FALSE
    BY DEF Init
  <2> QED BY <2>1, <2>2, <2>3, <2>4, <2>5, <2>6, <2>7 DEF TypeOK
<1>2. Flight
  BY DEF Init, Flight
<1>3. InProgressExact
  BY DEF Init, InProgressExact
<1>4. ASSUME NEW s \in Service PROVE Ledger(s)
  <2>1. tries[s] = 0 /\ give_ups[s] = 0 /\ attempts[s] = 0
    BY DEF Init
  <2> QED BY <2>1, MaxRestartsType DEF Ledger, Unspent
<1>5. FreshEpisode
  <2> SUFFICES ASSUME NEW s \in Service
               PROVE  /\ attempts[s] <= MaxRestarts[s] + 1
                      /\ current_backoff[s] = BaseBackoff /\ waited[s] = NotStarted
    BY DEF FreshEpisode
  <2>1. attempts[s] = 0 /\ current_backoff[s] = BaseBackoff /\ waited[s] = NotStarted
    BY DEF Init
  <2> QED BY <2>1, MaxRestartsType
<1>6. BackoffCeiling
  BY LongestType DEF Init, BackoffCeiling
<1> QED BY <1>1, <1>2, <1>3, <1>4, <1>5, <1>6 DEF RecoveryInv

-----------------------------------------------------------------------------
(* Every action keeps the invariant.                                       *)

LEMMA PollKeeps == RecoveryInv /\ Poll => RecoveryInv'
<1> SUFFICES ASSUME RecoveryInv, Poll PROVE RecoveryInv'
  OBVIOUS
<1> USE DEF Poll, recovery, records, flight, history
<1>1. TypeOK'
  BY DEF RecoveryInv, TypeOK
<1>2. Flight'
  BY DEF RecoveryInv, Flight
<1>3. InProgressExact'
  BY DEF RecoveryInv, InProgressExact
<1>4. \A s \in Service : Ledger(s)'
  BY DEF RecoveryInv, Ledger, Unspent
<1>5. FreshEpisode'
  BY DEF RecoveryInv, FreshEpisode
<1>6. BackoffCeiling'
  BY DEF RecoveryInv, BackoffCeiling
<1> QED BY <1>1, <1>2, <1>3, <1>4, <1>5, <1>6 DEF RecoveryInv

LEMMA SettleKeeps ==
  ASSUME NEW s \in Service, RecoveryInv, Settle(s)
  PROVE  RecoveryInv'
<1>1. /\ pc = "scanning" /\ pc' = "scanning"
      /\ s \in todo /\ snapshot[s] \in Settled /\ todo' = todo \ {s}
      /\ UNCHANGED <<status, snapshot, restarting, attempt_number, restart_count,
                     restart_records, cancelled, tries, give_ups, rested>>
  BY DEF Settle, Visit, records, flight, history
<1>2. \/ UNCHANGED <<attempts, in_progress, current_backoff, waited>>
      \/ /\ attempts' = [attempts EXCEPT ![s] = 0]
         /\ in_progress' = [in_progress EXCEPT ![s] = FALSE]
         /\ current_backoff' = [current_backoff EXCEPT ![s] = BaseBackoff]
         /\ waited' = [waited EXCEPT ![s] = NotStarted]
  BY DEF Settle, recovery
<1>3. TypeOK'
  <2>1. /\ attempts' \in [Service -> Nat]
        /\ current_backoff' \in [Service -> Nat]
        /\ waited' \in [Service -> Nat \cup {NotStarted}]
    <3>1. /\ attempts \in [Service -> Nat]
          /\ current_backoff \in [Service -> Nat]
          /\ waited \in [Service -> Nat \cup {NotStarted}]
      BY DEF RecoveryInv, TypeOK
    <3>2. /\ attempts' = attempts \/ attempts' = [attempts EXCEPT ![s] = 0]
          /\ \/ current_backoff' = current_backoff
             \/ current_backoff' = [current_backoff EXCEPT ![s] = BaseBackoff]
          /\ waited' = waited \/ waited' = [waited EXCEPT ![s] = NotStarted]
      BY <1>2
    <3> QED BY <3>1, <3>2, RecoveryAssumption
  <2>2. in_progress' \in [Service -> BOOLEAN]
    BY <1>2 DEF RecoveryInv, TypeOK
  <2> QED BY <1>1, <2>1, <2>2 DEF RecoveryInv, TypeOK
<1>4. Flight'
  BY <1>1 DEF RecoveryInv, Flight
<1>5. InProgressExact'
  BY <1>1, <1>2 DEF RecoveryInv, TypeOK, InProgressExact
<1>6. ASSUME NEW t \in Service PROVE Ledger(t)'
  <2>1. Ledger(t) /\ Ledger(s)
    BY DEF RecoveryInv
  <2>2. attempts'[t] = attempts[t] \/ (t = s /\ attempts'[t] = 0)
    <3>1. attempts \in [Service -> Nat]
      BY DEF RecoveryInv, TypeOK
    <3>2. attempts' = attempts \/ attempts' = [attempts EXCEPT ![s] = 0]
      BY <1>2
    <3> QED BY <3>1, <3>2
  <2>3. Unspent(s)
    BY <1>1, <2>1 DEF Ledger
  <2>4. t \in todo' => t \in todo
    BY <1>1
  <2>5. CASE attempts'[t] = attempts[t]
    BY <1>1, <2>1, <2>4, <2>5 DEF Ledger, Unspent
  <2>6. CASE t = s /\ attempts'[t] = 0
    <3>1. tries'[t] = 0 /\ give_ups'[t] = 0
      BY <1>1, <2>3, <2>6 DEF Unspent
    <3> QED BY <2>6, <3>1, MaxRestartsType DEF Ledger, Unspent
  <2> QED BY <2>2, <2>5, <2>6
<1>7. FreshEpisode'
  <2> SUFFICES ASSUME NEW t \in Service
               PROVE  /\ attempts'[t] <= MaxRestarts[t] + 1
                      /\ attempts'[t] = 0 => current_backoff'[t] = BaseBackoff
                                              /\ waited'[t] = NotStarted
    BY DEF FreshEpisode
  <2>1. /\ attempts[t] <= MaxRestarts[t] + 1
        /\ attempts[t] = 0 => current_backoff[t] = BaseBackoff /\ waited[t] = NotStarted
    BY DEF RecoveryInv, FreshEpisode
  <2>2. \/ /\ attempts'[t] = attempts[t]
           /\ current_backoff'[t] = current_backoff[t]
           /\ waited'[t] = waited[t]
        \/ /\ attempts'[t] = 0
           /\ current_backoff'[t] = BaseBackoff
           /\ waited'[t] = NotStarted
    BY <1>2 DEF RecoveryInv, TypeOK
  <2> QED BY <2>1, <2>2, MaxRestartsType
<1>8. BackoffCeiling'
  BY <1>2, LongestType DEF RecoveryInv, TypeOK, BackoffCeiling
<1> QED BY <1>3, <1>4, <1>5, <1>6, <1>7, <1>8 DEF RecoveryInv

LEMMA LeaveKeeps ==
  ASSUME NEW s \in Service, RecoveryInv, Leave(s)
  PROVE  RecoveryInv'
<1>1. /\ todo' \subseteq todo
      /\ UNCHANGED <<status, snapshot, pc, flight, recovery, records, cancelled, history>>
  BY DEF Leave, Visit
<1> USE <1>1 DEF recovery, records, flight, history
<1>2. TypeOK'
  BY DEF RecoveryInv, TypeOK
<1>3. Flight'
  BY DEF RecoveryInv, Flight
<1>4. InProgressExact'
  BY DEF RecoveryInv, InProgressExact
<1>5. \A t \in Service : Ledger(t)'
  BY DEF RecoveryInv, Ledger, Unspent
<1>6. FreshEpisode'
  BY DEF RecoveryInv, FreshEpisode
<1>7. BackoffCeiling'
  BY DEF RecoveryInv, BackoffCeiling
<1> QED BY <1>2, <1>3, <1>4, <1>5, <1>6, <1>7 DEF RecoveryInv

LEMMA GiveUpKeeps ==
  ASSUME NEW s \in Service, RecoveryInv, GiveUp(s)
  PROVE  RecoveryInv'
<1>1. /\ pc = "scanning" /\ todo' = todo \ {s}
      /\ attempts[s] = MaxRestarts[s]
      /\ attempts' = [attempts EXCEPT ![s] = attempts[s] + 1]
      /\ give_ups' = [give_ups EXCEPT ![s] =
                        IF status[s] \in Settled THEN give_ups[s] ELSE give_ups[s] + 1]
      /\ s \in todo /\ snapshot[s] = "Failed"
      /\ UNCHANGED <<status, snapshot, pc, restarting, attempt_number, in_progress,
                     current_backoff, waited, restart_count, restart_records, cancelled,
                     tries, rested>>
  BY DEF GiveUp, Visit, records, flight
<1>2. TypeOK'
  <2>1. attempts' \in [Service -> Nat] /\ give_ups' \in [Service -> Nat]
    <3>1. attempts \in [Service -> Nat] /\ give_ups \in [Service -> Nat]
      BY DEF RecoveryInv, TypeOK
    <3> DEFINE n == IF status[s] \in Settled THEN give_ups[s] ELSE give_ups[s] + 1
    <3>2. n \in Nat /\ give_ups' = [give_ups EXCEPT ![s] = n]
      <4>1. give_ups[s] \in Nat
        BY <3>1
      <4>2. n = give_ups[s] \/ n = give_ups[s] + 1
        OBVIOUS
      <4>3. give_ups' = [give_ups EXCEPT ![s] = n]
        BY <1>1
      <4> HIDE DEF n
      <4> QED BY <4>1, <4>2, <4>3
    <3> HIDE DEF n
    <3> QED BY <1>1, <3>1, <3>2
  <2> QED BY <1>1, <2>1 DEF RecoveryInv, TypeOK
<1>3. Flight'
  BY <1>1 DEF RecoveryInv, Flight
<1>4. InProgressExact'
  BY <1>1 DEF RecoveryInv, InProgressExact
<1>5. ASSUME NEW t \in Service PROVE Ledger(t)'
  <2>1. Ledger(t) /\ tries[t] \in Nat /\ give_ups[t] \in Nat
    BY DEF RecoveryInv, TypeOK
  <2>2. t # s => attempts'[t] = attempts[t] /\ give_ups'[t] = give_ups[t]
    BY <1>1 DEF RecoveryInv, TypeOK
  <2>3. CASE t # s
    BY <1>1, <2>1, <2>2, <2>3 DEF Ledger, Unspent
  <2>4. CASE t = s
    <3>1. attempts'[s] = MaxRestarts[s] + 1
      BY <1>1 DEF RecoveryInv, TypeOK
    <3>2. give_ups'[s] = IF status[s] \in Settled THEN give_ups[s] ELSE give_ups[s] + 1
      BY <1>1 DEF RecoveryInv, TypeOK
    <3>3. give_ups[s] = 0
      BY <1>1, <2>1, <2>4, MaxRestartsType DEF Ledger
    <3>4. t \notin todo'
      BY <1>1, <2>4
    <3> QED BY <1>1, <2>1, <2>4, <3>1, <3>2, <3>3, <3>4, MaxRestartsType DEF Ledger, Unspent
  <2> QED BY <2>3, <2>4
<1>6. FreshEpisode'
  <2> SUFFICES ASSUME NEW t \in Service
               PROVE  /\ attempts'[t] <= MaxRestarts[t] + 1
                      /\ attempts'[t] = 0 => current_backoff[t] = BaseBackoff
                                              /\ waited[t] = NotStarted
    BY <1>1 DEF FreshEpisode
  <2>1. /\ attempts[t] <= MaxRestarts[t] + 1
        /\ attempts[t] = 0 => current_backoff[t] = BaseBackoff /\ waited[t] = NotStarted
    BY DEF RecoveryInv, FreshEpisode
  <2>2. attempts'[t] = attempts[t] \/ attempts'[t] = MaxRestarts[t] + 1
    BY <1>1 DEF RecoveryInv, TypeOK
  <2> QED BY <2>1, <2>2, MaxRestartsType
<1>7. BackoffCeiling'
  BY <1>1 DEF RecoveryInv, BackoffCeiling
<1> QED BY <1>2, <1>3, <1>4, <1>5, <1>6, <1>7 DEF RecoveryInv

LEMMA BeginKeeps ==
  ASSUME NEW s \in Service, RecoveryInv, Begin(s)
  PROVE  RecoveryInv'
<1>1. /\ todo' = todo \ {s} /\ pc' = "restarting"
      /\ restarting' = s /\ attempt_number' = attempts[s] + 1
      /\ s \in todo /\ snapshot[s] = "Failed"
      /\ attempts[s] < MaxRestarts[s]
      /\ attempts' = [attempts EXCEPT ![s] = attempts[s] + 1]
      /\ waited' = [waited EXCEPT ![s] = 0]
      /\ tries' = [tries EXCEPT ![s] =
                     IF status[s] \in Settled THEN tries[s] ELSE tries[s] + 1]
      /\ UNCHANGED <<status, snapshot, current_backoff, restart_count, restart_records,
                     cancelled, give_ups, rested>>
  BY DEF Begin, Visit, records
<1>2. pc = "scanning" /\ in_progress' = [in_progress EXCEPT ![s] = TRUE]
  BY DEF Begin, Visit
<1>3. TypeOK'
  <2>1. /\ attempts' \in [Service -> Nat] /\ tries' \in [Service -> Nat]
        /\ waited' \in [Service -> Nat \cup {NotStarted}]
        /\ attempt_number' \in Nat
    BY <1>1 DEF RecoveryInv, TypeOK
  <2>2. in_progress' \in [Service -> BOOLEAN]
    BY <1>2 DEF RecoveryInv, TypeOK
  <2> QED BY <1>1, <2>1, <2>2 DEF RecoveryInv, TypeOK
<1>4. Flight'
  BY <1>1 DEF RecoveryInv, TypeOK, Flight
<1>5. InProgressExact'
  BY <1>1, <1>2 DEF RecoveryInv, TypeOK, InProgressExact
<1>6. ASSUME NEW t \in Service PROVE Ledger(t)'
  <2>1. /\ Ledger(t) /\ tries[t] \in Nat /\ give_ups[t] \in Nat /\ attempts[t] \in Nat
    BY DEF RecoveryInv, TypeOK
  <2>2. t # s => attempts'[t] = attempts[t] /\ tries'[t] = tries[t]
    BY <1>1 DEF RecoveryInv, TypeOK
  <2>3. CASE t # s
    BY <1>1, <2>1, <2>2, <2>3 DEF Ledger, Unspent
  <2>4. CASE t = s
    <3>1. attempts'[s] = attempts[s] + 1
      BY <1>1 DEF RecoveryInv, TypeOK
    <3>2. tries'[s] = IF status[s] \in Settled THEN tries[s] ELSE tries[s] + 1
      BY <1>1 DEF RecoveryInv, TypeOK
    <3>3. give_ups[s] = 0
      BY <1>1, <2>1, <2>4, MaxRestartsType DEF Ledger
    <3>4. t \notin todo'
      BY <1>1, <2>4
    <3> QED BY <1>1, <2>1, <2>4, <3>1, <3>2, <3>3, <3>4, MaxRestartsType DEF Ledger, Unspent
  <2> QED BY <2>3, <2>4
<1>7. FreshEpisode'
  <2> SUFFICES ASSUME NEW t \in Service
               PROVE  /\ attempts'[t] <= MaxRestarts[t] + 1
                      /\ attempts'[t] = 0 => current_backoff[t] = BaseBackoff
                                              /\ waited'[t] = NotStarted
    BY <1>1 DEF FreshEpisode
  <2>1. /\ attempts[t] <= MaxRestarts[t] + 1
        /\ attempts[t] = 0 => current_backoff[t] = BaseBackoff /\ waited[t] = NotStarted
        /\ attempts[t] \in Nat
    BY DEF RecoveryInv, TypeOK, FreshEpisode
  <2>2. \/ attempts'[t] = attempts[t] /\ waited'[t] = waited[t]
        \/ attempts'[t] = attempts[t] + 1 /\ attempts[t] < MaxRestarts[t]
    BY <1>1 DEF RecoveryInv, TypeOK
  <2> QED BY <2>1, <2>2, MaxRestartsType
<1>8. BackoffCeiling'
  BY <1>1 DEF RecoveryInv, BackoffCeiling
<1> QED BY <1>3, <1>4, <1>5, <1>6, <1>7, <1>8 DEF RecoveryInv

LEMMA FinishKeeps == RecoveryInv /\ Finish => RecoveryInv'
<1> SUFFICES ASSUME RecoveryInv, Finish PROVE RecoveryInv'
  OBVIOUS
<1> DEFINE next == Advanced(current_backoff[restarting], attempts[restarting])
<1>1. restarting \in Service /\ attempts[restarting] > 0
  BY DEF RecoveryInv, Flight, Finish
<1>2. next \in Nat /\ next <= Longest
  BY <1>1, AdvancedBounded DEF RecoveryInv, TypeOK
<1>3. current_backoff' = [current_backoff EXCEPT ![restarting] = next]
  BY DEF Finish
<1> HIDE DEF next
<1> USE DEF Finish, recovery, records, flight, history
<1>4. TypeOK'
  BY <1>1, <1>2, <1>3 DEF RecoveryInv, TypeOK
<1>5. Flight'
  BY <1>1 DEF RecoveryInv, Flight
<1>6. InProgressExact'
  BY <1>1 DEF RecoveryInv, TypeOK, InProgressExact
<1>7. \A t \in Service : Ledger(t)'
  BY DEF RecoveryInv, Ledger, Unspent
<1>8. FreshEpisode'
  BY <1>1, <1>3 DEF RecoveryInv, TypeOK, FreshEpisode
<1>9. BackoffCeiling'
  BY <1>1, <1>2, <1>3 DEF RecoveryInv, TypeOK, BackoffCeiling
<1> QED BY <1>4, <1>5, <1>6, <1>7, <1>8, <1>9 DEF RecoveryInv

LEMMA RecordRestartKeeps == RecoveryInv /\ RecordRestart => RecoveryInv'
<1> SUFFICES ASSUME RecoveryInv, RecordRestart PROVE RecoveryInv'
  OBVIOUS
<1> USE DEF RecordRestart, recovery, records, flight, history
<1>1. restarting \in Service
  BY DEF RecoveryInv, Flight
<1>2. /\ Least(restart_count[restarting] + 1, CountCap) \in Nat
      /\ PushRecord(restart_records[restarting], attempt_number) \in Seq(Nat)
  <2>1. restart_count[restarting] + 1 \in Nat /\ CountCap \in Nat
    BY <1>1, RecoveryAssumption DEF RecoveryInv, TypeOK
  <2>2. restart_records[restarting] \in Seq(Nat) /\ attempt_number \in Nat
    BY <1>1 DEF RecoveryInv, TypeOK
  <2>3. Least(restart_count[restarting] + 1, CountCap) \in Nat
    BY <2>1, LeastType
  <2> QED BY <2>2, <2>3, PushRecordType
<1>3. restart_count' \in [Service -> Nat] /\ restart_records' \in [Service -> Seq(Nat)]
  BY <1>1, <1>2 DEF RecoveryInv, TypeOK
<1>4. TypeOK'
  BY <1>3 DEF RecoveryInv, TypeOK
<1>5. Flight'
  BY DEF RecoveryInv, Flight
<1>6. InProgressExact'
  BY DEF RecoveryInv, InProgressExact
<1>7. \A t \in Service : Ledger(t)'
  BY DEF RecoveryInv, Ledger, Unspent
<1>8. FreshEpisode'
  BY DEF RecoveryInv, FreshEpisode
<1>9. BackoffCeiling'
  BY DEF RecoveryInv, BackoffCeiling
<1> QED BY <1>4, <1>5, <1>6, <1>7, <1>8, <1>9 DEF RecoveryInv

LEMMA StatusChangeKeeps ==
  ASSUME NEW s \in Service, RecoveryInv, StatusChange(s)
  PROVE  RecoveryInv'
<1>1. PICK new \in Status :
        /\ status' = [status EXCEPT ![s] = new]
        /\ IF new \in Settled
           THEN /\ tries' = [tries EXCEPT ![s] = 0]
                /\ give_ups' = [give_ups EXCEPT ![s] = 0]
           ELSE tries' = tries /\ give_ups' = give_ups
  BY DEF StatusChange
<1>2. UNCHANGED <<snapshot, todo, pc, restarting, attempt_number, attempts, in_progress,
                  current_backoff, waited, restart_count, restart_records, cancelled, rested>>
  BY DEF StatusChange, recovery, records, flight
<1>3. TypeOK'
  <2>1. status' \in [Service -> Status]
    BY <1>1 DEF RecoveryInv, TypeOK
  <2>2. tries' \in [Service -> Nat] /\ give_ups' \in [Service -> Nat]
    <3>1. tries \in [Service -> Nat] /\ give_ups \in [Service -> Nat]
      BY DEF RecoveryInv, TypeOK
    <3> QED BY <1>1, <3>1
  <2> QED BY <1>2, <2>1, <2>2 DEF RecoveryInv, TypeOK
<1>4. Flight'
  BY <1>2 DEF RecoveryInv, Flight
<1>5. InProgressExact'
  BY <1>2 DEF RecoveryInv, InProgressExact
<1>6. ASSUME NEW t \in Service PROVE Ledger(t)'
  <2>1. Ledger(t) /\ attempts[t] \in Nat
    BY DEF RecoveryInv, TypeOK
  <2>2. CASE t = s /\ new \in Settled
    <3>1. tries'[t] = 0 /\ give_ups'[t] = 0
      BY <1>1, <2>2 DEF RecoveryInv, TypeOK
    <3> QED BY <1>2, <2>1, <3>1, MaxRestartsType DEF Ledger, Unspent
  <2>3. CASE ~(t = s /\ new \in Settled)
    <3>1. tries'[t] = tries[t] /\ give_ups'[t] = give_ups[t]
      BY <1>1, <2>3 DEF RecoveryInv, TypeOK
    <3>2. status'[t] \in Settled => status[t] \in Settled
      BY <1>1, <2>3 DEF RecoveryInv, TypeOK
    <3> QED BY <1>2, <2>1, <3>1, <3>2 DEF Ledger, Unspent
  <2> QED BY <2>2, <2>3
<1>7. FreshEpisode'
  BY <1>2 DEF RecoveryInv, FreshEpisode
<1>8. BackoffCeiling'
  BY <1>2 DEF RecoveryInv, BackoffCeiling
<1> QED BY <1>3, <1>4, <1>5, <1>6, <1>7, <1>8 DEF RecoveryInv

LEMMA SecondKeeps == RecoveryInv /\ Second => RecoveryInv'
<1> SUFFICES ASSUME RecoveryInv, Second PROVE RecoveryInv'
  OBVIOUS
<1> USE DEF Second, recovery, records, flight, history
<1>1. ASSUME NEW n \in Nat, NEW m \in Nat PROVE Least(n + 1, m) \in Nat
  <2>1. n + 1 \in Nat
    OBVIOUS
  <2> QED BY <2>1 DEF Least
<1>2. waited' \in [Service -> Nat \cup {NotStarted}]
  BY <1>1, LongestType DEF RecoveryInv, TypeOK
<1>3. rested' \in [Service -> Nat]
  <2>1. rested \in [Service -> Nat] /\ MaxBackoff \in Nat
    BY RecoveryAssumption DEF RecoveryInv, TypeOK
  <2> QED BY <1>1, <2>1
<1>4. TypeOK'
  BY <1>2, <1>3 DEF RecoveryInv, TypeOK
<1>5. Flight'
  BY DEF RecoveryInv, Flight
<1>6. InProgressExact'
  BY DEF RecoveryInv, InProgressExact
<1>7. \A t \in Service : Ledger(t)'
  BY DEF RecoveryInv, Ledger, Unspent
<1>8. FreshEpisode'
  BY DEF RecoveryInv, FreshEpisode
<1>9. BackoffCeiling'
  BY DEF RecoveryInv, BackoffCeiling
<1> QED BY <1>4, <1>5, <1>6, <1>7, <1>8, <1>9 DEF RecoveryInv

\* ScanDone and Stop move the coordinator, Shutdown and stuttering not even that.
LEMMA QuietKeeps ==
  ASSUME RecoveryInv,
         pc' = pc \/ {pc, pc'} \cap {"restarting", "recording"} = {},
         pc' \in {"idle", "stopped", pc},
         cancelled' \in BOOLEAN,
         UNCHANGED <<status, snapshot, todo, flight, recovery, records, history>>
  PROVE  RecoveryInv'
<1> USE DEF recovery, records, flight, history
<1>1. TypeOK'
  BY DEF RecoveryInv, TypeOK
<1>2. Flight'
  BY DEF RecoveryInv, Flight
<1>3. InProgressExact'
  BY DEF RecoveryInv, InProgressExact
<1>4. \A s \in Service : Ledger(s)'
  BY DEF RecoveryInv, Ledger, Unspent
<1>5. FreshEpisode'
  BY DEF RecoveryInv, FreshEpisode
<1>6. BackoffCeiling'
  BY DEF RecoveryInv, BackoffCeiling
<1> QED BY <1>1, <1>2, <1>3, <1>4, <1>5, <1>6 DEF RecoveryInv

LEMMA RecoveryNext == RecoveryInv /\ [Next]_vars => RecoveryInv'
<1> SUFFICES ASSUME RecoveryInv, [Next]_vars PROVE RecoveryInv'
  OBVIOUS
<1>1. ASSUME NEW s \in Service, VisitStep(s) PROVE RecoveryInv'
  BY <1>1, SettleKeeps, LeaveKeeps, GiveUpKeeps, BeginKeeps DEF VisitStep
<1>2. CASE Poll
  BY <1>2, PollKeeps
<1>3. CASE Finish
  BY <1>3, FinishKeeps
<1>4. CASE RecordRestart
  BY <1>4, RecordRestartKeeps
<1>5. CASE ScanDone
  BY <1>5, QuietKeeps DEF ScanDone, RecoveryInv, TypeOK
<1>6. CASE Stop
  BY <1>6, QuietKeeps DEF Stop, RecoveryInv, TypeOK
<1>7. CASE Shutdown
  BY <1>7, QuietKeeps DEF Shutdown
<1>8. CASE Second
  BY <1>8, SecondKeeps
<1>9. ASSUME NEW s \in Service, StatusChange(s) PROVE RecoveryInv'
  BY <1>9, StatusChangeKeeps
<1>10. CASE UNCHANGED vars
  BY <1>10, QuietKeeps DEF vars, RecoveryInv, TypeOK
<1> QED
  BY <1>1, <1>2, <1>3, <1>4, <1>5, <1>6, <1>7, <1>8, <1>9, <1>10 DEF Next, Coordinator

LEMMA RecoveryInvariance == Spec => []RecoveryInv
BY RecoveryInit, RecoveryNext, PTL DEF Spec

-----------------------------------------------------------------------------
\* Every variable of the engine keeps its type: in particular no counter of a
\* RecoveryState leaves the naturals.
THEOREM RecoveryTypeOK == Spec => []TypeOK
<1>1. RecoveryInv => TypeOK
  BY DEF RecoveryInv
<1> QED BY <1>1, RecoveryInvariance, PTL

\* restart_in_progress always names exactly the restart the coordinator awaits.
THEOREM RecoveryInProgressExact == Spec => []InProgressExact
<1>1. RecoveryInv => InProgressExact
  BY DEF RecoveryInv
<1> QED BY <1>1, RecoveryInvariance, PTL

\* No outage costs a service more than max_restarts restarts and one give-up, however
\* old the snapshots are that the engine resets and restarts on.
THEOREM RecoveryOutageBudget == Spec => []OutageBudget
<1>1. RecoveryInv => OutageBudget
  BY DEF RecoveryInv, Ledger, OutageBudget
<1> QED BY <1>1, RecoveryInvariance, PTL

\* attempts never passes max_restarts + 1, and without attempts nothing is left of the
\* previous episode's backoff.
THEOREM RecoveryFreshEpisode == Spec => []FreshEpisode
<1>1. RecoveryInv => FreshEpisode
  BY DEF RecoveryInv
<1> QED BY <1>1, RecoveryInvariance, PTL

\* No backoff is longer than the cap, a fifth of the cap and two seconds.
THEOREM RecoveryBackoffCeiling == Spec => []BackoffCeiling
<1>1. RecoveryInv => BackoffCeiling
  BY DEF RecoveryInv
<1> QED BY <1>1, RecoveryInvariance, PTL

-----------------------------------------------------------------------------
(* The restart history.                                                    *)

\* What record_restart pushes: one element longer, or shifted by one when full.
LEMMA PushRecordShape ==
  ASSUME NEW h \in Seq(Nat), NEW r \in Nat, Len(h) <= MaxRestartRecords
  PROVE  /\ Len(h) < MaxRestartRecords =>
              /\ Len(PushRecord(h, r)) = Len(h) + 1
              /\ \A i \in 1 .. Len(h) : PushRecord(h, r)[i] = h[i]
              /\ PushRecord(h, r)[Len(h) + 1] = r
         /\ Len(h) = MaxRestartRecords =>
              /\ Len(PushRecord(h, r)) = MaxRestartRecords
              /\ \A i \in 1 .. MaxRestartRecords - 1 : PushRecord(h, r)[i] = h[i + 1]
              /\ PushRecord(h, r)[MaxRestartRecords] = r
<1> DEFINE a == Append(h, r)
           n == MaxRestartRecords
<1>1. /\ a \in Seq(Nat) /\ a # <<>>
      /\ Len(a) = Len(h) + 1 /\ a[Len(h) + 1] = r
      /\ \A i \in 1 .. Len(h) : a[i] = h[i]
      /\ Len(h) \in Nat /\ n \in Nat /\ n > 0
  <2>1. n \in Nat /\ n > 0
    BY RecoveryAssumption
  <2>2. Len(h) \in Nat
    BY LenProperties
  <2>3. /\ a \in Seq(Nat) /\ a # <<>> /\ Len(a) = Len(h) + 1
        /\ \A i \in 1 .. Len(h) : a[i] = h[i]
        /\ a[Len(h) + 1] = r
    BY AppendProperties
  <2> QED BY <2>1, <2>2, <2>3
<1>2. PushRecord(h, r) = IF Len(a) > n THEN Tail(a) ELSE a
  BY DEF PushRecord
<1>3. CASE Len(h) < n
  <2>1. PushRecord(h, r) = a
    BY <1>1, <1>2, <1>3
  <2> HIDE DEF a
  <2> QED BY <1>1, <1>3, <2>1
<1>4. CASE Len(h) = n
  <2>1. PushRecord(h, r) = Tail(a)
    BY <1>1, <1>2, <1>4
  <2>2. Len(Tail(a)) = n /\ \A i \in 1 .. n : Tail(a)[i] = a[i + 1]
    BY <1>1, <1>4, HeadTailProperties
  <2> HIDE DEF a
  <2>3. Tail(a)[n] = r
    BY <1>1, <1>4, <2>2
  <2>4. ASSUME NEW i \in 1 .. n - 1 PROVE Tail(a)[i] = h[i + 1]
    <3>1. i \in 1 .. n /\ i + 1 \in 1 .. Len(h)
      BY <1>1, <1>4
    <3>2. Tail(a)[i] = a[i + 1] /\ a[i + 1] = h[i + 1]
      BY <1>1, <2>2, <3>1
    <3> QED BY <3>2
  <2> QED BY <1>1, <1>4, <2>1, <2>2, <2>3, <2>4
<1> QED BY <1>1, <1>3, <1>4

\* The history h of a service with the limit m, after c restarts, d of them in the
\* present episode.
Episodic(h, c, m, d) ==
  /\ Len(h) = Least(c, MaxRestartRecords)
  /\ \A i \in 1 .. Len(h) : h[i] \in 1 .. m
  /\ \A i \in 1 .. Len(h) - 1 : h[i + 1] \in {1, h[i] + 1}
  /\ d > 0 => Len(h) > 0 /\ h[Len(h)] = d

\* A history stays one when the next restart of its episode is recorded.
LEMMA EpisodicPush ==
  ASSUME NEW h \in Seq(Nat), NEW c \in Nat, NEW m \in Nat, NEW d \in Nat,
         d + 1 <= m, Episodic(h, c, m, d)
  PROVE  Episodic(PushRecord(h, d + 1), Least(c + 1, CountCap), m, d + 1)
<1> DEFINE n == MaxRestartRecords
           k == Len(h)
           r == d + 1
           p == PushRecord(h, r)
           e == Least(c + 1, CountCap)
<1>1. /\ n \in Nat /\ n > 0 /\ CountCap \in Nat /\ CountCap >= n
      /\ k \in Nat /\ k = Least(c, n) /\ r \in Nat /\ r \in 1 .. m
  BY RecoveryAssumption, LenProperties DEF Episodic
<1>2. /\ \A i \in 1 .. k : h[i] \in 1 .. m
      /\ \A i \in 1 .. k - 1 : h[i + 1] \in {1, h[i] + 1}
      /\ d > 0 => k > 0 /\ h[k] = d
  BY DEF Episodic
<1>3. k <= n
  BY <1>1 DEF Least
<1>4. /\ k < n => /\ Len(p) = k + 1 /\ p[k + 1] = r
                  /\ \A i \in 1 .. k : p[i] = h[i]
      /\ k = n => /\ Len(p) = n /\ p[n] = r
                  /\ \A i \in 1 .. n - 1 : p[i] = h[i + 1]
  <2>1. r \in Nat /\ Len(h) <= MaxRestartRecords
    BY <1>1, <1>3
  <2> HIDE DEF r
  <2> QED BY <2>1, PushRecordShape
<1>5. k > 0 => r \in {1, h[k] + 1}
  <2>1. CASE d = 0
    BY <2>1
  <2>2. CASE d > 0
    BY <1>2, <2>2
  <2> QED BY <2>1, <2>2
<1>6. Episodic(p, e, m, r) <=>
        /\ Len(p) = Least(e, n)
        /\ \A i \in 1 .. Len(p) : p[i] \in 1 .. m
        /\ \A i \in 1 .. Len(p) - 1 : p[i + 1] \in {1, p[i] + 1}
        /\ r > 0 => Len(p) > 0 /\ p[Len(p)] = r
  BY DEF Episodic
<1> HIDE DEF n, k, r, p
<1>7. CASE k < n
  <2>1. Len(p) = k + 1 /\ p[k + 1] = r /\ \A i \in 1 .. k : p[i] = h[i]
    BY <1>4, <1>7
  <2>2. k + 1 = Least(e, n)
    BY <1>1, <1>7 DEF Least
  <2>3. ASSUME NEW i \in 1 .. k + 1 PROVE p[i] \in 1 .. m
    <3>1. CASE i = k + 1
      BY <1>1, <2>1, <3>1
    <3>2. CASE i \in 1 .. k
      BY <1>2, <2>1, <3>2
    <3> QED BY <1>1, <3>1, <3>2
  <2>4. ASSUME NEW i \in 1 .. k PROVE p[i + 1] \in {1, p[i] + 1}
    <3>1. CASE i = k
      BY <1>1, <1>5, <2>1, <3>1
    <3>2. CASE i \in 1 .. k - 1
      <4>1. i + 1 \in 1 .. k
        BY <1>1, <3>2
      <4> QED BY <1>2, <2>1, <3>2, <4>1
    <3> QED BY <1>1, <3>1, <3>2
  <2>5. Len(p) - 1 = k /\ Len(p) > 0
    BY <1>1, <2>1
  <2> HIDE DEF e
  <2>6. Episodic(p, e, m, r)
    BY <1>6, <2>1, <2>2, <2>3, <2>4, <2>5
  <2> QED BY <2>6 DEF p, r, e
<1>8. CASE k = n
  <2>1. Len(p) = n /\ p[n] = r /\ \A i \in 1 .. n - 1 : p[i] = h[i + 1]
    BY <1>4, <1>8
  <2>2. n = Least(e, n)
    BY <1>1, <1>8 DEF Least
  <2>3. ASSUME NEW i \in 1 .. n PROVE p[i] \in 1 .. m
    <3>1. CASE i = n
      BY <1>1, <2>1, <3>1
    <3>2. CASE i \in 1 .. n - 1
      <4>1. i + 1 \in 1 .. k
        BY <1>1, <1>8, <3>2
      <4> QED BY <1>2, <2>1, <3>2, <4>1
    <3> QED BY <1>1, <3>1, <3>2
  <2>4. ASSUME NEW i \in 1 .. n - 1 PROVE p[i + 1] \in {1, p[i] + 1}
    <3>1. p[i] = h[i + 1] /\ i + 1 \in 1 .. k
      BY <1>1, <1>8, <2>1
    <3>2. CASE i = n - 1
      <4>1. i + 1 = n /\ i + 1 = k
        BY <1>1, <1>8, <3>2
      <4> QED BY <1>1, <1>5, <1>8, <2>1, <3>1, <4>1
    <3>3. CASE i \in 1 .. n - 2
      <4>1. i + 1 \in 1 .. n - 1 /\ i + 1 \in 1 .. k - 1
        BY <1>1, <1>8, <3>3
      <4>2. p[i + 1] = h[i + 1 + 1] /\ h[i + 1 + 1] \in {1, h[i + 1] + 1}
        BY <1>2, <2>1, <4>1
      <4> QED BY <3>1, <4>2
    <3> QED BY <1>1, <3>2, <3>3
  <2> HIDE DEF e
  <2>5. Episodic(p, e, m, r)
    BY <1>1, <1>6, <2>1, <2>2, <2>3, <2>4
  <2> QED BY <2>5 DEF p, r, e
<1> QED BY <1>1, <1>3, <1>7, <1>8

\* The restarts of the present episode of s that are in the records.
Recorded(s) == Least(attempts[s], MaxRestarts[s]) - (IF restarting = s THEN 1 ELSE 0)

\* The restart in flight carries the number of its attempt, so the record that is
\* written at its end continues the episode, whatever happened in between.
Numbered ==
  restarting \in Service =>
    /\ attempt_number = attempts[restarting]
    /\ attempts[restarting] \in 1 .. MaxRestarts[restarting]

HistoryInv ==
  /\ Numbered
  /\ \A s \in Service :
       Episodic(restart_records[s], restart_count[s], MaxRestarts[s], Recorded(s))

LEMMA HistoryInit == Init => HistoryInv
<1> SUFFICES ASSUME Init PROVE HistoryInv
  OBVIOUS
<1>1. Numbered
  BY RecoveryAssumption DEF Init, Numbered
<1>2. ASSUME NEW s \in Service
      PROVE  Episodic(restart_records[s], restart_count[s], MaxRestarts[s], Recorded(s))
  <2>1. restart_records[s] = <<>> /\ restart_count[s] = 0 /\ attempts[s] = 0 /\ restarting # s
    BY RecoveryAssumption DEF Init
  <2>2. Recorded(s) = 0 /\ Least(0, MaxRestartRecords) = 0
    BY <2>1, MaxRestartsType, RecoveryAssumption DEF Recorded, Least
  <2> QED BY <2>1, <2>2 DEF Episodic
<1> QED BY <1>1, <1>2 DEF HistoryInv

\* A step that writes no record keeps the history of a service, when it keeps the
\* number of its recorded attempts or brings it back to zero.
LEMMA HistoryFrame ==
  ASSUME HistoryInv, NEW s \in Service,
         restart_records'[s] = restart_records[s], restart_count'[s] = restart_count[s],
         Recorded(s)' = Recorded(s) \/ Recorded(s)' = 0
  PROVE  Episodic(restart_records'[s], restart_count'[s], MaxRestarts[s], Recorded(s)')
<1>1. Episodic(restart_records[s], restart_count[s], MaxRestarts[s], Recorded(s))
  BY DEF HistoryInv
<1> QED BY <1>1 DEF Episodic

LEMMA HistoryStep == RecoveryInv /\ HistoryInv /\ [Next]_vars => HistoryInv'
<1> SUFFICES ASSUME RecoveryInv, HistoryInv, [Next]_vars PROVE HistoryInv'
  OBVIOUS
<1>0. TypeOK /\ Flight /\ Numbered
  BY DEF RecoveryInv, HistoryInv
<1>1. ASSUME NEW s \in Service, Settle(s) PROVE HistoryInv'
  <2>1. /\ restarting = NoService /\ restarting' = NoService
        /\ UNCHANGED <<restart_records, restart_count>>
        /\ attempts' = attempts \/ attempts' = [attempts EXCEPT ![s] = 0]
    BY <1>1, <1>0 DEF Settle, Visit, Flight, flight, records, recovery
  <2>2. ASSUME NEW t \in Service PROVE Recorded(t)' = Recorded(t) \/ Recorded(t)' = 0
    <3>1. attempts'[t] = attempts[t] \/ attempts'[t] = 0
      BY <1>0, <2>1 DEF TypeOK
    <3>2. restarting # t /\ restarting' # t
      BY <2>1, RecoveryAssumption
    <3> QED BY <3>1, <3>2, MaxRestartsType DEF Recorded, Least
  <2> QED BY <2>1, <2>2, HistoryFrame, RecoveryAssumption DEF HistoryInv, Numbered
<1>2. ASSUME NEW s \in Service, GiveUp(s) PROVE HistoryInv'
  <2>1. /\ restarting = NoService /\ restarting' = NoService
        /\ UNCHANGED <<restart_records, restart_count>>
        /\ attempts[s] = MaxRestarts[s]
        /\ attempts' = [attempts EXCEPT ![s] = attempts[s] + 1]
    BY <1>2, <1>0 DEF GiveUp, Visit, Flight, flight, records
  <2>2. ASSUME NEW t \in Service PROVE Recorded(t)' = Recorded(t)
    <3>1. \/ attempts'[t] = attempts[t]
          \/ attempts[t] = MaxRestarts[t] /\ attempts'[t] = MaxRestarts[t] + 1
      BY <1>0, <2>1 DEF TypeOK
    <3>2. restarting' = restarting
      BY <2>1
    <3> QED BY <3>1, <3>2, MaxRestartsType DEF Recorded, Least
  <2> QED BY <2>1, <2>2, HistoryFrame, RecoveryAssumption DEF HistoryInv, Numbered
<1>3. ASSUME NEW s \in Service, Begin(s) PROVE HistoryInv'
  <2>1. /\ restarting = NoService /\ restarting' = s
        /\ UNCHANGED <<restart_records, restart_count>>
        /\ attempts[s] < MaxRestarts[s]
        /\ attempt_number' = attempts[s] + 1
        /\ attempts' = [attempts EXCEPT ![s] = attempts[s] + 1]
    BY <1>3, <1>0 DEF Begin, Visit, Flight, records
  <2>2. attempts'[s] = attempts[s] + 1 /\ attempts[s] \in Nat
    BY <1>0, <2>1 DEF TypeOK
  <2>3. ASSUME NEW t \in Service PROVE Recorded(t)' = Recorded(t)
    <3>1. restarting # t
      BY <2>1, RecoveryAssumption
    <3>2. CASE t = s
      BY <2>1, <2>2, <3>1, <3>2, MaxRestartsType DEF Recorded, Least
    <3>3. CASE t # s
      <4>1. attempts'[t] = attempts[t] /\ restarting' # t
        BY <1>0, <2>1, <3>3 DEF TypeOK
      <4> QED BY <3>1, <4>1 DEF Recorded
    <3> QED BY <3>2, <3>3
  <2>4. Numbered'
    BY <2>1, <2>2, MaxRestartsType DEF Numbered
  <2> QED BY <2>1, <2>3, <2>4, HistoryFrame DEF HistoryInv
<1>4. CASE RecordRestart
  <2>1. PICK r \in Service : /\ r = restarting /\ attempt_number = attempts[r]
                            /\ attempts[r] \in 1 .. MaxRestarts[r]
    BY <1>4, <1>0 DEF RecordRestart, Flight, Numbered
  <2> DEFINE d == Recorded(r)
  <2>2. /\ restarting' = NoService /\ attempts' = attempts
        /\ restart_count' = [restart_count EXCEPT ![r] = Least(restart_count[r] + 1, CountCap)]
        /\ restart_records' =
             [restart_records EXCEPT ![r] = PushRecord(restart_records[r], attempt_number)]
    BY <1>4, <2>1 DEF RecordRestart, recovery
  <2>3. d \in Nat /\ d + 1 = attempt_number /\ d + 1 <= MaxRestarts[r]
    BY <2>1, MaxRestartsType DEF Recorded, Least
  <2>4. Recorded(r)' = d + 1
    BY <2>1, <2>2, MaxRestartsType, RecoveryAssumption DEF Recorded, Least
  <2>5. /\ restart_records'[r] = PushRecord(restart_records[r], d + 1)
        /\ restart_count'[r] = Least(restart_count[r] + 1, CountCap)
    BY <1>0, <2>1, <2>2, <2>3 DEF TypeOK
  <2>6. Episodic(restart_records'[r], restart_count'[r], MaxRestarts[r], Recorded(r)')
    <3>1. /\ restart_records[r] \in Seq(Nat) /\ restart_count[r] \in Nat
          /\ MaxRestarts[r] \in Nat
          /\ Episodic(restart_records[r], restart_count[r], MaxRestarts[r], d)
      BY <1>0, <2>1, MaxRestartsType DEF TypeOK, HistoryInv
    <3> HIDE DEF d
    <3> QED BY <2>3, <2>4, <2>5, <3>1, EpisodicPush
  <2>7. ASSUME NEW t \in Service, t # r
        PROVE  Episodic(restart_records'[t], restart_count'[t], MaxRestarts[t], Recorded(t)')
    <3>1. restart_records'[t] = restart_records[t] /\ restart_count'[t] = restart_count[t]
      BY <1>0, <2>2, <2>7 DEF TypeOK
    <3>2. Recorded(t)' = Recorded(t)
      BY <2>1, <2>2, <2>7, RecoveryAssumption DEF Recorded
    <3> QED BY <3>1, <3>2, HistoryFrame
  <2>8. Numbered'
    BY <2>2, RecoveryAssumption DEF Numbered
  <2> QED BY <2>6, <2>7, <2>8 DEF HistoryInv
<1>5. ASSUME UNCHANGED <<restarting, attempt_number, attempts, restart_count, restart_records>>
      PROVE  HistoryInv'
  BY <1>5 DEF HistoryInv, Numbered, Recorded
<1>6. \/ \E s \in Service : Settle(s) \/ GiveUp(s) \/ Begin(s)
      \/ RecordRestart
      \/ UNCHANGED <<restarting, attempt_number, attempts, restart_count, restart_records>>
  BY DEF Next, Coordinator, VisitStep, Poll, Leave, Finish, ScanDone, Stop, Shutdown,
         StatusChange, Second, vars, flight, records, recovery
<1> QED BY <1>1, <1>2, <1>3, <1>4, <1>5, <1>6

LEMMA HistoryInvariance == Spec => []HistoryInv
BY HistoryInit, HistoryStep, RecoveryInvariance, PTL DEF Spec

\* The attempt numbers the API shows grow by one within an episode and start again at
\* one, end with the attempts of the present episode, and are as many as
\* restart_count says, up to MAX_RESTART_RECORDS.
THEOREM RecoveryRestartHistory == Spec => []RestartHistory
<1>1. HistoryInv => RestartHistory
  BY DEF HistoryInv, RestartHistory, Episodic, Recorded
<1> QED BY <1>1, HistoryInvariance, PTL

-----------------------------------------------------------------------------
(* The backoff doubles.  The powers of two are counted as the subsets of an *)
(* interval: the library states that 2 ^ n is their number.                 *)

\* 2 ^ 0 is the number of subsets of the empty set.
LEMMA PowerZero == 2 ^ 0 = 1
<1>1. Cardinality(SUBSET {}) = 2 ^ Cardinality({})
  BY FS_EmptySet, FS_SUBSET
<1>2. SUBSET {} = {{}}
  OBVIOUS
<1>3. Cardinality({{}}) = 1
  BY FS_Singleton
<1> QED BY <1>1, <1>2, <1>3, FS_EmptySet

\* Each subset of 1 .. n makes two of 1 .. n + 1, without and with n + 1.
LEMMA PowerNext ==
  ASSUME NEW n \in Nat
  PROVE  2 ^ n \in Nat /\ 2 ^ (n + 1) = 2 * 2 ^ n
<1> DEFINE S == 1 .. n
           x == n + 1
           A == SUBSET S
           With == {T \cup {x} : T \in A}
           f == [T \in A |-> T \cup {x}]
<1>1. IsFiniteSet(S) /\ Cardinality(S) = n
  BY FS_Interval
<1>2. IsFiniteSet(S \cup {x}) /\ Cardinality(S \cup {x}) = n + 1
  <2>1. x \notin S
    OBVIOUS
  <2> HIDE DEF S, x
  <2> QED BY <1>1, <2>1, FS_AddElement
<1>3. IsFiniteSet(A) /\ Cardinality(A) = 2 ^ n
  <2> HIDE DEF S
  <2> QED BY <1>1, FS_SUBSET
<1>4. IsFiniteSet(SUBSET (S \cup {x})) /\ Cardinality(SUBSET (S \cup {x})) = 2 ^ (n + 1)
  <2> HIDE DEF S, x
  <2> QED BY <1>2, FS_SUBSET
<1>5. x \notin S
  OBVIOUS
<1> HIDE DEF S, x
<1>6. SUBSET (S \cup {x}) = A \cup With
  <2>1. ASSUME NEW T \in SUBSET (S \cup {x}), x \in T PROVE T \in With
    <3>1. T \ {x} \in A /\ T = (T \ {x}) \cup {x}
      BY <2>1
    <3> QED BY <3>1
  <2>2. ASSUME NEW T \in SUBSET (S \cup {x}), x \notin T PROVE T \in A
    BY <2>2
  <2>3. A \cup With \subseteq SUBSET (S \cup {x})
    OBVIOUS
  <2> QED BY <2>1, <2>2, <2>3
<1>7. A \cap With = {}
  BY <1>5
<1>8. f \in Bijection(A, With)
  <2>1. f \in [A -> With]
    OBVIOUS
  <2>2. ASSUME NEW T \in A, NEW U \in A, f[T] = f[U] PROVE T = U
    <3>1. T \cup {x} = U \cup {x} /\ x \notin T /\ x \notin U
      BY <1>5, <2>2
    <3> QED BY <3>1
  <2>3. \A t \in With : \E T \in A : f[T] = t
    OBVIOUS
  <2> HIDE DEF f, With, A
  <2>4. f \in Injection(A, With)
    BY <2>1, <2>2 DEF Injection, IsInjective
  <2>5. f \in Surjection(A, With)
    BY <2>1, <2>3 DEF Surjection
  <2> QED BY <2>4, <2>5 DEF Bijection
<1> HIDE DEF A, With, f
<1>9. IsFiniteSet(With) /\ Cardinality(With) = Cardinality(A)
  BY <1>3, <1>8, FS_Bijection DEF ExistsBijection
<1>10. Cardinality(A \cup With) = Cardinality(A) + Cardinality(With) - Cardinality(A \cap With)
  BY <1>3, <1>9, FS_Union
<1>11. Cardinality(A) \in Nat /\ Cardinality({}) = 0
  BY <1>3, FS_CardinalityType, FS_EmptySet
<1>12. Cardinality(A \cup With) = 2 * Cardinality(A)
  <2> DEFINE a == Cardinality(A)
             b == Cardinality(A \cap With)
  <2>1. a \in Nat /\ b = 0
    BY <1>7, <1>11
  <2>2. Cardinality(A \cup With) = a + a - b
    BY <1>9, <1>10
  <2> HIDE DEF a, b
  <2>3. Cardinality(A \cup With) = 2 * a
    BY <2>1, <2>2
  <2> QED BY <2>3 DEF a
<1> QED BY <1>3, <1>4, <1>6, <1>11, <1>12

\* The backoff that restart e + 1 of an episode has to wait for, the jitter left out.
Owed(e) == Least(BaseBackoff * 2 ^ e, MaxBackoff)

LEMMA OwedType ==
  ASSUME NEW e \in Nat
  PROVE  Owed(e) \in Nat /\ Owed(e) <= MaxBackoff
<1>1. 2 ^ e \in Nat /\ BaseBackoff \in Nat /\ MaxBackoff \in Nat
  BY PowerNext, RecoveryAssumption
<1>2. BaseBackoff * 2 ^ e \in Nat
  BY <1>1
<1> QED BY <1>1, <1>2, LeastType DEF Owed

\* A backoff that was long enough is long enough for the next restart once advanced.
LEMMA OwedNext ==
  ASSUME NEW e \in Nat, NEW b \in Nat, NEW n \in Nat, b >= Owed(e)
  PROVE  Advanced(b, n) >= Owed(e + 1)
<1> DEFINE p == BaseBackoff * 2 ^ e
           q == BaseBackoff * 2 ^ (e + 1)
           capped == Least(2 * b, MaxBackoff)
<1>1. BaseBackoff \in Nat /\ MaxBackoff \in Nat /\ 2 ^ e \in Nat /\ 2 ^ (e + 1) = 2 * 2 ^ e
  BY PowerNext, RecoveryAssumption
<1>2. p \in Nat /\ q = 2 * p
  <2> DEFINE x == 2 ^ e
             y == 2 ^ (e + 1)
  <2>1. x \in Nat /\ y = 2 * x
    BY <1>1
  <2> HIDE DEF x, y
  <2>2. BaseBackoff * x \in Nat /\ BaseBackoff * y = 2 * (BaseBackoff * x)
    BY <1>1, <2>1
  <2> QED BY <2>2 DEF x, y
<1>3. b >= Least(p, MaxBackoff) /\ Owed(e + 1) = Least(q, MaxBackoff)
  BY DEF Owed
<1>4. Advanced(b, n) = capped + (capped \div 5) + (n % 3)
  BY DEF Advanced
<1> HIDE DEF p, q
<1>5. capped \in Nat /\ capped >= Least(q, MaxBackoff)
  BY <1>1, <1>2, <1>3 DEF Least
<1> HIDE DEF capped
<1>6. capped \div 5 \in Nat /\ n % 3 \in Nat
  BY <1>5
<1>7. Least(q, MaxBackoff) \in Int
  BY <1>1, <1>2 DEF Least
<1> QED BY <1>3, <1>4, <1>5, <1>6, <1>7

\* The restarts of the episode of s whose end has advanced its backoff.
Ended(s) == IF in_progress[s] THEN attempts[s] - 1 ELSE attempts[s]

\* The clock of the backoff runs from the end of the last restart, or from the
\* beginning of the one in flight; the backoff has doubled with every end.
BackoffOf(s) ==
  /\ attempts[s] \in 1 .. MaxRestarts[s] => waited[s] # NotStarted
  /\ in_progress[s] => attempts[s] > 0
  /\ waited[s] # NotStarted => rested[s] >= Least(waited[s], MaxBackoff)
  /\ attempts[s] <= MaxRestarts[s] => current_backoff[s] >= Owed(Ended(s))

BackoffInv == \A s \in Service : BackoffOf(s)

LEMMA BackoffInit == Init => BackoffInv
<1> SUFFICES ASSUME Init, NEW s \in Service PROVE BackoffOf(s)
  BY DEF BackoffInv
<1>1. /\ attempts[s] = 0 /\ waited[s] = NotStarted /\ ~in_progress[s]
      /\ current_backoff[s] = BaseBackoff
  BY DEF Init
<1>2. Owed(0) <= BaseBackoff
  BY PowerZero, RecoveryAssumption DEF Owed, Least
<1> QED BY <1>1, <1>2, RecoveryAssumption DEF BackoffOf, Ended

\* A service whose recovery state a step leaves alone.
LEMMA BackoffFrame ==
  ASSUME NEW s \in Service, BackoffOf(s),
         attempts'[s] = attempts[s], in_progress'[s] = in_progress[s],
         current_backoff'[s] = current_backoff[s], waited'[s] = waited[s],
         rested'[s] = rested[s]
  PROVE  BackoffOf(s)'
BY DEF BackoffOf, Ended

LEMMA BackoffStep == RecoveryInv /\ BackoffInv /\ [Next]_vars => BackoffInv'
<1> SUFFICES ASSUME RecoveryInv, BackoffInv, [Next]_vars, NEW t \in Service
             PROVE  BackoffOf(t)'
  BY DEF BackoffInv
<1>0. TypeOK /\ BackoffOf(t) /\ attempts[t] \in Nat /\ MaxRestarts[t] \in Nat
  BY MaxRestartsType DEF RecoveryInv, TypeOK, BackoffInv
<1>1. ASSUME NEW s \in Service, Settle(s) PROVE BackoffOf(t)'
  <2>1. /\ rested' = rested
        /\ \/ UNCHANGED <<attempts, in_progress, current_backoff, waited>>
           \/ /\ attempts' = [attempts EXCEPT ![s] = 0]
              /\ in_progress' = [in_progress EXCEPT ![s] = FALSE]
              /\ current_backoff' = [current_backoff EXCEPT ![s] = BaseBackoff]
              /\ waited' = [waited EXCEPT ![s] = NotStarted]
    BY <1>1 DEF Settle, recovery, history
  <2>2. \/ /\ attempts'[t] = 0 /\ ~in_progress'[t]
           /\ current_backoff'[t] = BaseBackoff /\ waited'[t] = NotStarted
        \/ /\ attempts'[t] = attempts[t] /\ in_progress'[t] = in_progress[t]
           /\ current_backoff'[t] = current_backoff[t] /\ waited'[t] = waited[t]
    BY <1>0, <2>1 DEF TypeOK
  <2>3. Owed(0) <= BaseBackoff
    BY PowerZero, RecoveryAssumption DEF Owed, Least
  <2>4. CASE attempts'[t] = 0 /\ ~in_progress'[t]
             /\ current_backoff'[t] = BaseBackoff /\ waited'[t] = NotStarted
    BY <2>3, <2>4, RecoveryAssumption DEF BackoffOf, Ended
  <2> QED BY <1>0, <2>1, <2>2, <2>4, BackoffFrame
<1>2. ASSUME NEW s \in Service, GiveUp(s) PROVE BackoffOf(t)'
  <2>1. /\ UNCHANGED <<in_progress, current_backoff, waited, rested>>
        /\ attempts[s] = MaxRestarts[s] /\ ~in_progress[s]
        /\ attempts' = [attempts EXCEPT ![s] = attempts[s] + 1]
    BY <1>2 DEF GiveUp
  <2>2. CASE t = s
    <3>1. attempts'[t] = MaxRestarts[t] + 1
      BY <1>0, <2>1, <2>2 DEF TypeOK
    <3> QED BY <1>0, <2>1, <3>1 DEF BackoffOf, Ended
  <2>3. CASE t # s
    BY <1>0, <2>1, <2>3, BackoffFrame DEF TypeOK
  <2> QED BY <2>2, <2>3
<1>3. ASSUME NEW s \in Service, Begin(s) PROVE BackoffOf(t)'
  <2>1. /\ UNCHANGED <<current_backoff, rested>>
        /\ ~in_progress[s] /\ attempts[s] < MaxRestarts[s]
        /\ attempts' = [attempts EXCEPT ![s] = attempts[s] + 1]
        /\ in_progress' = [in_progress EXCEPT ![s] = TRUE]
        /\ waited' = [waited EXCEPT ![s] = 0]
    BY <1>3 DEF Begin
  <2>2. CASE t = s
    <3>1. attempts'[t] = attempts[t] + 1 /\ in_progress'[t] /\ waited'[t] = 0
      BY <1>0, <2>1, <2>2 DEF TypeOK
    <3>2. Ended(t)' = Ended(t)
      BY <1>0, <2>1, <2>2, <3>1 DEF Ended
    <3>3. rested'[t] >= Least(0, MaxBackoff) /\ 0 # NotStarted
      BY <1>0, <2>1, RecoveryAssumption DEF TypeOK, Least
    <3>4. current_backoff'[t] >= Owed(Ended(t)')
      BY <1>0, <2>1, <2>2, <3>2 DEF BackoffOf
    <3> QED BY <1>0, <3>1, <3>3, <3>4 DEF BackoffOf
  <2>3. CASE t # s
    BY <1>0, <2>1, <2>3, BackoffFrame DEF TypeOK
  <2> QED BY <2>2, <2>3
<1>4. CASE Finish
  <2>1. PICK r \in Service : r = restarting /\ in_progress[r]
    BY <1>4 DEF Finish, RecoveryInv, Flight, InProgressExact
  <2> DEFINE next == Advanced(current_backoff[r], attempts[r])
  <2>2. /\ attempts' = attempts
        /\ in_progress' = [in_progress EXCEPT ![r] = FALSE]
        /\ current_backoff' = [current_backoff EXCEPT ![r] = next]
        /\ waited' = [waited EXCEPT ![r] = 0]
        /\ rested' = [rested EXCEPT ![r] = 0]
    BY <1>4, <2>1 DEF Finish
  <2>3. CASE t = r
    <3>1. current_backoff[t] \in Nat /\ attempts[t] > 0 /\ Ended(t) = attempts[t] - 1
      BY <1>0, <2>1, <2>3 DEF TypeOK, BackoffOf, Ended
    <3>2. /\ attempts'[t] = attempts[t] /\ ~in_progress'[t]
          /\ waited'[t] = 0 /\ rested'[t] = 0
      BY <1>0, <2>2, <2>3 DEF TypeOK
    <3>3. current_backoff'[t] = Advanced(current_backoff[t], attempts[t])
      BY <1>0, <2>2, <2>3 DEF TypeOK
    <3>4. Ended(t)' = attempts[t]
      BY <3>2 DEF Ended
    <3>5. attempts[t] <= MaxRestarts[t] => current_backoff'[t] >= Owed(attempts[t])
      <4> SUFFICES ASSUME attempts[t] <= MaxRestarts[t]
                   PROVE  Advanced(current_backoff[t], attempts[t]) >= Owed(attempts[t])
        BY <3>3
      <4>1. current_backoff[t] >= Owed(attempts[t] - 1)
        BY <1>0, <3>1 DEF BackoffOf
      <4>2. attempts[t] - 1 \in Nat /\ (attempts[t] - 1) + 1 = attempts[t]
        BY <1>0, <3>1
      <4> DEFINE e == attempts[t] - 1
      <4>3. e \in Nat /\ e + 1 = attempts[t] /\ current_backoff[t] >= Owed(e)
        BY <4>1, <4>2
      <4> HIDE DEF e
      <4>4. Advanced(current_backoff[t], attempts[t]) >= Owed(e + 1)
        BY <1>0, <3>1, <4>3, OwedNext
      <4> QED BY <4>3, <4>4
    <3>6. Least(0, MaxBackoff) = 0 /\ 0 # NotStarted
      BY RecoveryAssumption DEF Least
    <3> QED BY <3>2, <3>4, <3>5, <3>6 DEF BackoffOf
  <2>4. CASE t # r
    BY <1>0, <2>2, <2>4, BackoffFrame DEF TypeOK
  <2> QED BY <2>3, <2>4
<1>5. CASE Second
  <2>1. /\ UNCHANGED <<attempts, in_progress, current_backoff>>
        /\ waited'[t] = IF waited[t] = NotStarted THEN NotStarted
                        ELSE Least(waited[t] + 1, Longest)
        /\ rested'[t] = Least(rested[t] + 1, MaxBackoff)
    BY <1>5 DEF Second
  <2>2. rested[t] \in Nat /\ waited[t] \in Nat \cup {NotStarted} /\ MaxBackoff \in Nat
    BY <1>0, RecoveryAssumption DEF TypeOK
  <2>3. CASE waited[t] = NotStarted
    <3>1. waited'[t] = NotStarted
      BY <2>1, <2>3
    <3> QED BY <1>0, <2>1, <2>3, <3>1 DEF BackoffOf, Ended
  <2>4. CASE waited[t] # NotStarted
    <3> DEFINE w == waited[t]
               x == Least(w + 1, Longest)
               y == Least(rested[t] + 1, MaxBackoff)
    <3>1. w \in Nat /\ rested[t] >= Least(w, MaxBackoff)
      BY <1>0, <2>2, <2>4 DEF BackoffOf
    <3>2. x \in Nat /\ x <= w + 1
      <4>1. w + 1 \in Nat
        BY <3>1
      <4> HIDE DEF w
      <4> QED BY <4>1, LongestType, LeastType
    <3>3. y >= Least(w + 1, MaxBackoff)
      BY <2>2, <3>1 DEF Least
    <3>4. Least(x, MaxBackoff) <= Least(w + 1, MaxBackoff)
      <4> HIDE DEF x, w
      <4> QED BY <2>2, <3>1, <3>2 DEF Least
    <3>5. waited'[t] = x /\ rested'[t] = y /\ x # NotStarted
      BY <2>1, <2>4, <3>2, RecoveryAssumption
    <3>6. y >= Least(x, MaxBackoff)
      <4>1. Least(x, MaxBackoff) \in Int /\ Least(w + 1, MaxBackoff) \in Int /\ y \in Int
        BY <2>2, <3>1, <3>2 DEF Least
      <4> HIDE DEF x, y, w
      <4> QED BY <3>3, <3>4, <4>1
    <3> HIDE DEF x, y, w
    <3> QED BY <1>0, <2>1, <3>5, <3>6 DEF BackoffOf, Ended
  <2> QED BY <2>3, <2>4
<1>6. ASSUME UNCHANGED <<attempts, in_progress, current_backoff, waited, rested>>
      PROVE  BackoffOf(t)'
  BY <1>0, <1>6, BackoffFrame
<1>7. \/ \E s \in Service : Settle(s) \/ GiveUp(s) \/ Begin(s)
      \/ Finish \/ Second
      \/ UNCHANGED <<attempts, in_progress, current_backoff, waited, rested>>
  BY DEF Next, Coordinator, VisitStep, Poll, Leave, RecordRestart, ScanDone, Stop, Shutdown,
         StatusChange, vars, recovery, history
<1> QED BY <1>1, <1>2, <1>3, <1>4, <1>5, <1>6, <1>7

LEMMA BackoffInvariance == Spec => []BackoffInv
BY BackoffInit, BackoffStep, RecoveryInvariance, PTL DEF Spec

\* What a restart in an outage has waited for.
LEMMA RestartWaited ==
  ASSUME RecoveryInv, BackoffInv, [Next]_vars, NEW s \in Service,
         tries'[s] > tries[s], attempts[s] > 0
  PROVE  rested[s] >= Least(BaseBackoff * 2 ^ attempts[s], MaxBackoff)
<1>0. TypeOK /\ BackoffOf(s) /\ tries[s] \in Nat
  BY DEF RecoveryInv, TypeOK, BackoffInv
<1>1. Begin(s)
  <2>1. ASSUME NEW t \in Service, Begin(t) PROVE t = s
    <3>1. t # s => tries'[s] = tries[s]
      BY <1>0, <2>1 DEF Begin, TypeOK
    <3> QED BY <1>0, <3>1
  <2>2. ASSUME NEW t \in Service, StatusChange(t) PROVE tries'[s] = tries[s] \/ tries'[s] = 0
    <3>1. tries' = tries \/ tries' = [tries EXCEPT ![t] = 0]
      BY <2>2 DEF StatusChange
    <3> QED BY <1>0, <3>1 DEF TypeOK
  <2>3. \/ \E t \in Service : Begin(t) \/ StatusChange(t)
        \/ tries' = tries
    BY DEF Next, Coordinator, VisitStep, Poll, Settle, Leave, GiveUp, Finish, RecordRestart,
           ScanDone, Stop, Shutdown, Second, vars, history
  <2> QED BY <1>0, <2>1, <2>2, <2>3
<1>2. attempts[s] < MaxRestarts[s] /\ ~in_progress[s] /\ ~InBackoff(s)
  BY <1>1 DEF Begin
<1>3. /\ waited[s] \in Nat /\ current_backoff[s] \in Nat /\ rested[s] \in Nat
      /\ attempts[s] \in Nat /\ MaxRestarts[s] \in Nat /\ MaxBackoff \in Nat
  <2>1. /\ waited[s] \in Nat \cup {NotStarted} /\ current_backoff[s] \in Nat
        /\ rested[s] \in Nat /\ attempts[s] \in Nat
        /\ MaxRestarts[s] \in Nat /\ MaxBackoff \in Nat
    BY <1>0, MaxRestartsType, RecoveryAssumption DEF TypeOK
  <2>2. attempts[s] \in 1 .. MaxRestarts[s]
    BY <1>2, <2>1
  <2> QED BY <1>0, <2>1, <2>2 DEF BackoffOf
<1>4. waited[s] # NotStarted
  BY <1>3, RecoveryAssumption
<1>5. waited[s] >= current_backoff[s]
  BY <1>2, <1>3, <1>4 DEF InBackoff
<1>6. current_backoff[s] >= Owed(attempts[s])
  <2>1. Ended(s) = attempts[s] /\ attempts[s] <= MaxRestarts[s]
    BY <1>2, <1>3 DEF Ended
  <2> QED BY <1>0, <2>1 DEF BackoffOf
<1>7. rested[s] >= Least(waited[s], MaxBackoff)
  BY <1>0, <1>4 DEF BackoffOf
<1>8. Owed(attempts[s]) \in Nat /\ Owed(attempts[s]) <= MaxBackoff
  BY <1>3, OwedType
<1>9. rested[s] >= Owed(attempts[s])
  BY <1>3, <1>5, <1>6, <1>7, <1>8 DEF Least
<1> QED BY <1>9 DEF Owed

\* Restart k + 1 of an episode begins no earlier than BASE_BACKOFF_SECS doubled k times,
\* or the cap, after the end of restart k.
THEOREM RecoveryBackoffRespected == Spec => BackoffRespected
<1>1. RecoveryInv /\ BackoffInv /\ [Next]_vars =>
        [\A s \in Service :
           tries'[s] > tries[s] /\ attempts[s] > 0
             => rested[s] >= Least(BaseBackoff * 2 ^ attempts[s], MaxBackoff)]_vars
  BY RestartWaited
<1> QED
  BY <1>1, RecoveryInvariance, BackoffInvariance, PTL DEF Spec, BackoffRespected

-----------------------------------------------------------------------------
(* The engine implements the policy: step by step, from the invariant.     *)

LEMMA PolicyInit == Init => Policy!Init
<1> SUFFICES ASSUME Init PROVE Policy!Init
  OBVIOUS
<1>1. {s \in Service : status[s] \notin Settled} = {}
  BY DEF Init, Settled
<1>2. {s \in Service : give_ups[s] > 0} = {}
  BY DEF Init
<1>3. tries = [s \in Service |-> 0] /\ pc = "idle"
  BY DEF Init
<1> QED BY <1>1, <1>2, <1>3 DEF Policy!Init

\* Who is being restarted, in the policy's eyes.
Busy == IF pc = "restarting" THEN restarting ELSE NoService

\* What the policy does not see.
LEMMA PolicyBlind ==
  ASSUME UNCHANGED <<status, tries, give_ups>>, Busy' = Busy
  PROVE  UNCHANGED Policy!policy
BY DEF Policy!policy, Busy

LEMMA PolicyBegin ==
  ASSUME NEW s \in Service, RecoveryInv, Begin(s)
  PROVE  Policy!Restart(s)
<1>1. pc = "scanning" /\ pc' = "restarting" /\ restarting' = s
  BY DEF Begin, Visit
<1>2. Ledger(s) /\ tries \in [Service -> Nat] /\ attempts[s] \in Nat /\ give_ups[s] \in Nat
  BY DEF RecoveryInv, TypeOK
<1>3. attempts[s] < MaxRestarts[s] /\ UNCHANGED <<status, give_ups>>
  BY DEF Begin
<1>4. tries[s] < MaxRestarts[s] /\ give_ups[s] = 0
  BY <1>2, <1>3, MaxRestartsType DEF Ledger
<1>5. tries' = IF status[s] \in Settled THEN tries ELSE [tries EXCEPT ![s] = @ + 1]
  <2>1. tries' = [tries EXCEPT ![s] =
                    IF status[s] \in Settled THEN tries[s] ELSE tries[s] + 1]
    BY DEF Begin
  <2> QED BY <1>2, <2>1
<1>6. s \in {t \in Service : status[t] \notin Settled} <=> status[s] \notin Settled
  OBVIOUS
<1>7. s \notin {t \in Service : give_ups[t] > 0}
  BY <1>4
<1> QED BY <1>1, <1>3, <1>4, <1>5, <1>6, <1>7 DEF Policy!Restart

LEMMA PolicyFinish == RecoveryInv /\ Finish => Policy!RestartEnds
<1> SUFFICES ASSUME RecoveryInv, Finish PROVE Policy!RestartEnds
  OBVIOUS
<1>1. restarting \in Service /\ pc = "restarting" /\ pc' = "recording"
  BY DEF RecoveryInv, Flight, Finish
<1>2. UNCHANGED <<status, tries, give_ups>>
  BY DEF Finish
<1> QED BY <1>1, <1>2, RecoveryAssumption DEF Policy!RestartEnds

\* A give-up of a service that has recovered meanwhile is none for the policy.
LEMMA PolicyGiveUp ==
  ASSUME NEW s \in Service, RecoveryInv, GiveUp(s)
  PROVE  [Policy!GiveUp(s)]_Policy!policy
<1> DEFINE out == {t \in Service : status[t] \notin Settled}
           given == {t \in Service : give_ups[t] > 0}
<1>1. /\ pc = "scanning" /\ pc' = pc /\ UNCHANGED <<status, tries, restarting>>
      /\ attempts[s] = MaxRestarts[s]
      /\ give_ups' = [give_ups EXCEPT ![s] =
                        IF status[s] \in Settled THEN give_ups[s] ELSE give_ups[s] + 1]
  BY DEF GiveUp, Visit, flight
<1>2. Ledger(s) /\ give_ups \in [Service -> Nat]
  BY DEF RecoveryInv, TypeOK
<1>3. CASE status[s] \in Settled
  <2>1. give_ups' = give_ups
    BY <1>1, <1>2, <1>3
  <2> QED BY <1>1, <2>1, PolicyBlind DEF Busy
<1>4. CASE status[s] \notin Settled
  <2>1. give_ups[s] = 0
    BY <1>1, <1>2, MaxRestartsType DEF Ledger
  <2>2. give_ups'[s] = 1 /\ \A t \in Service \ {s} : give_ups'[t] = give_ups[t]
    BY <1>1, <1>2, <1>4, <2>1
  <2>3. given' = given \cup {s} /\ s \in out \ given
    BY <1>4, <2>1, <2>2
  <2> HIDE DEF given, out
  <2>4. Policy!GiveUp(s)
    BY <1>1, <2>3 DEF Policy!GiveUp, given, out
  <2> QED BY <2>4
<1> QED BY <1>3, <1>4

LEMMA PolicyStatus ==
  ASSUME NEW s \in Service, RecoveryInv, StatusChange(s)
  PROVE  [Policy!OutageBegins(s) \/ Policy!OutageEnds(s)]_Policy!policy
<1> DEFINE out == {t \in Service : status[t] \notin Settled}
           given == {t \in Service : give_ups[t] > 0}
<1>1. PICK new \in Status :
        /\ status' = [status EXCEPT ![s] = new]
        /\ IF new \in Settled
           THEN /\ tries' = [tries EXCEPT ![s] = 0]
                /\ give_ups' = [give_ups EXCEPT ![s] = 0]
           ELSE tries' = tries /\ give_ups' = give_ups
  BY DEF StatusChange
<1>2. /\ Ledger(s) /\ status \in [Service -> Status]
      /\ tries \in [Service -> Nat] /\ give_ups \in [Service -> Nat]
  BY DEF RecoveryInv, TypeOK
<1>3. Busy' = Busy /\ UNCHANGED <<pc, restarting>>
  BY DEF StatusChange, Busy, flight
<1>4. status'[s] = new /\ \A t \in Service \ {s} : status'[t] = status[t]
  BY <1>1, <1>2
<1>5. CASE new \in Settled /\ status[s] \in Settled
  <2>1. tries' = tries /\ give_ups' = give_ups
    BY <1>1, <1>2, <1>5 DEF Ledger, Unspent
  <2>2. out' = out
    BY <1>4, <1>5
  <2> HIDE DEF out
  <2> QED BY <1>3, <2>1, <2>2 DEF Policy!policy, Busy, out
<1>6. CASE new \in Settled /\ status[s] \notin Settled
  <2>1. out' = out \ {s} /\ s \in out
    BY <1>4, <1>6
  <2>2. tries' = [tries EXCEPT ![s] = 0] /\ given' = given \ {s}
    BY <1>1, <1>2, <1>6
  <2> HIDE DEF out, given
  <2>3. Policy!OutageEnds(s)
    BY <1>3, <2>1, <2>2 DEF Policy!OutageEnds, Busy, out, given
  <2> QED BY <2>3
<1>7. CASE new \notin Settled /\ status[s] \in Settled
  <2>1. out' = out \cup {s} /\ s \notin out
    BY <1>4, <1>7
  <2>2. tries' = tries /\ give_ups' = give_ups
    BY <1>1, <1>7
  <2> HIDE DEF out
  <2>3. Policy!OutageBegins(s)
    BY <1>3, <2>1, <2>2 DEF Policy!OutageBegins, Busy, out
  <2> QED BY <2>3
<1>8. CASE new \notin Settled /\ status[s] \notin Settled
  <2>1. out' = out
    BY <1>4, <1>8
  <2>2. tries' = tries /\ give_ups' = give_ups
    BY <1>1, <1>8
  <2> HIDE DEF out
  <2> QED BY <1>3, <2>1, <2>2 DEF Policy!policy, Busy, out
<1> QED BY <1>5, <1>6, <1>7, <1>8

LEMMA PolicyStep == RecoveryInv /\ [Next]_vars => [Policy!Next]_(Policy!policy)
<1> SUFFICES ASSUME RecoveryInv, [Next]_vars PROVE [Policy!Next]_(Policy!policy)
  OBVIOUS
<1> USE DEF Policy!Next
<1>1. ASSUME NEW s \in Service, VisitStep(s) PROVE [Policy!Next]_(Policy!policy)
  <2>1. CASE Settle(s) \/ Leave(s)
    BY <2>1, PolicyBlind DEF Settle, Leave, Visit, flight, history, Busy
  <2>2. CASE GiveUp(s)
    BY <2>2, PolicyGiveUp
  <2>3. CASE Begin(s)
    BY <2>3, PolicyBegin
  <2> QED BY <1>1, <2>1, <2>2, <2>3 DEF VisitStep
<1>2. CASE Finish
  BY <1>2, PolicyFinish
<1>3. CASE RecordRestart
  BY <1>3, PolicyBlind DEF RecordRestart, history, Busy
<1>4. CASE Poll \/ ScanDone \/ Stop
  BY <1>4, PolicyBlind DEF Poll, ScanDone, Stop, flight, history, Busy
<1>5. CASE Shutdown \/ Second \/ UNCHANGED vars
  BY <1>5, PolicyBlind DEF Shutdown, Second, vars, flight, history, Busy
<1>6. ASSUME NEW s \in Service, StatusChange(s) PROVE [Policy!Next]_(Policy!policy)
  BY <1>6, PolicyStatus
<1> QED BY <1>1, <1>2, <1>3, <1>4, <1>5, <1>6 DEF Next, Coordinator

\* However old the snapshots are: one restart at a time, max_restarts of them in an
\* outage, one give-up, and no restart of the outage after it.
THEOREM RecoveryImplementsPolicy == Spec => ImplementsPolicy
BY PolicyInit, PolicyStep, RecoveryInvariance, PTL DEF Spec, ImplementsPolicy, Policy!Spec
=============================================================================
