------------------------- MODULE AlertEngine_proofs -------------------------
(***************************************************************************)
(* What the alert engine keeps to for every number of services, every list *)
(* of targets, every cooldown and every capacity of the channel: neither   *)
(* slow deliveries nor lost events nor the alerts of other services        *)
(* shorten a cooldown or make a target be passed over.                     *)
(***************************************************************************)
EXTENDS AlertEngine, SequenceTheorems, TLAPS

\* The engine is delivering an alert about s.
Busy(s) == pc = "dispatching" /\ event.service = s

\* The alert under delivery is the last one told of, and has a target to go to.
Dispatch ==
  pc = "dispatching" =>
    /\ event \in Event
    /\ next_target \in 1 .. Len(Targets[event.service])
    /\ told[event.service] = event.to

\* Nothing is ever told of a service without targets.
Untold(s) == Targets[s] = <<>> => told[s] = Never

\* After an alert about a failure the entry of the service is set, and it is not older
\* than the alert: the limit can only last longer than the cooldown of the property.
Covered(s) ==
  ~Busy(s) /\ told[s] \in Failure =>
    alerted_for_failure[s] /\ last_alert_age[s] \in 0 .. quiet[s]

\* How many targets have been tried with the last alert about s, and that the newest
\* records are those of these targets.
Tries(s) ==
  IF Busy(s) THEN next_target - 1
  ELSE IF told[s] = Never THEN 0 ELSE Len(Targets[s])

Tried(s) ==
  Len(Targets[s]) <= MaxAlertRecords =>
    LET h == alert_records[s]
        d == Tries(s)
    IN  /\ d <= Len(h)
        /\ \A i \in 1 .. d : LET r == h[Len(h) - d + i]
                             IN  r.kind = Targets[s][i] /\ r.to = told[s]

AlertInv ==
  /\ TypeOK
  /\ Dispatch
  /\ \A s \in Service : Untold(s) /\ Covered(s) /\ Tried(s)

-----------------------------------------------------------------------------
(* The operators.                                                          *)

LEMMA TargetsType ==
  ASSUME NEW s \in Service
  PROVE  Targets[s] \in Seq(Kind) /\ Len(Targets[s]) \in Nat
BY AlertAssumption, LenProperties

LEMMA NeverIsNone == Never \notin Nat /\ Never \notin Status
BY AlertAssumption DEF Status

\* The channel never holds more than its capacity.
LEMMA SendType ==
  ASSUME TypeOK, NEW e \in Event, Send(e)
  PROVE  channel' \in Seq(Event) /\ Len(channel') <= Capacity /\ lagged' \in BOOLEAN
<1>1. /\ channel \in Seq(Event) /\ Len(channel) <= Capacity /\ lagged \in BOOLEAN
      /\ Len(channel) \in Nat /\ Capacity \in Nat /\ Capacity > 0
  BY AlertAssumption, LenProperties DEF TypeOK
<1>2. CASE pc = "stopped"
  BY <1>1, <1>2 DEF Send
<1>3. CASE pc # "stopped" /\ Len(channel) < Capacity
  <2>1. channel' = Append(channel, e) /\ lagged' = lagged
    BY <1>3 DEF Send
  <2> QED BY <1>1, <1>3, <2>1, AppendProperties
<1>4. CASE pc # "stopped" /\ ~(Len(channel) < Capacity)
  <2>1. channel' = Append(Tail(channel), e) /\ lagged' = TRUE
    BY <1>4 DEF Send
  <2>2. channel # <<>>
    BY <1>1, <1>4
  <2>3. Tail(channel) \in Seq(Event) /\ Len(Tail(channel)) = Len(channel) - 1
    BY <1>1, <2>2, HeadTailProperties
  <2> QED BY <1>1, <2>1, <2>3, AppendProperties
<1> QED BY <1>2, <1>3, <1>4

\* The newest record is the last, and the d before it stay where they were, counted
\* from the end, as long as there is room for them all.
LEMMA PushRecordEnd ==
  ASSUME NEW h \in Seq(AlertRecord), NEW r \in AlertRecord
  PROVE  LET g == PushRecord(h, r)
         IN  /\ g \in Seq(AlertRecord)
             /\ \A d \in Nat : d + 1 <= MaxAlertRecords /\ d <= Len(h) =>
                  /\ d + 1 <= Len(g)
                  /\ g[Len(g)] = r
                  /\ \A i \in 1 .. d : g[Len(g) - (d + 1) + i] = h[Len(h) - d + i]
<1> DEFINE a == Append(h, r)
           g == PushRecord(h, r)
<1>1. /\ a \in Seq(AlertRecord) /\ a # <<>> /\ Len(h) \in Nat
      /\ Len(a) = Len(h) + 1 /\ a[Len(h) + 1] = r
      /\ \A i \in 1 .. Len(h) : a[i] = h[i]
  BY AppendProperties, LenProperties
<1>2. MaxAlertRecords \in Nat /\ MaxAlertRecords > 0
  BY AlertAssumption
<1>3. CASE Len(a) > MaxAlertRecords
  <2>1. g = Tail(a)
    BY <1>3 DEF PushRecord
  <2>2. /\ Tail(a) \in Seq(AlertRecord) /\ Len(Tail(a)) = Len(h)
        /\ \A i \in 1 .. Len(h) : Tail(a)[i] = a[i + 1]
    BY <1>1, HeadTailProperties
  <2>3. ASSUME NEW d \in Nat, d + 1 <= MaxAlertRecords, d <= Len(h)
        PROVE  /\ d + 1 <= Len(g)
               /\ g[Len(g)] = r
               /\ \A i \in 1 .. d : g[Len(g) - (d + 1) + i] = h[Len(h) - d + i]
    <3> HIDE DEF a, g
    <3>1. Len(g) = Len(h) /\ d + 1 <= Len(h)
      BY <1>1, <1>2, <1>3, <2>1, <2>2, <2>3
    <3>2. g[Len(g)] = r
      <4>1. Len(h) \in 1 .. Len(h)
        BY <1>1, <2>3, <3>1
      <4>2. g[Len(h)] = a[Len(h) + 1]
        BY <2>1, <2>2, <4>1
      <4> QED BY <1>1, <3>1, <4>2
    <3>3. ASSUME NEW i \in 1 .. d PROVE g[Len(g) - (d + 1) + i] = h[Len(h) - d + i]
      <4>1. Len(h) - (d + 1) + i \in 1 .. Len(h) /\ Len(h) - d + i \in 1 .. Len(h)
        BY <1>1, <2>3, <3>1
      <4>2. g[Len(h) - (d + 1) + i] = a[(Len(h) - (d + 1) + i) + 1]
        BY <2>1, <2>2, <4>1
      <4>3. (Len(h) - (d + 1) + i) + 1 = Len(h) - d + i
        BY <1>1, <2>3
      <4> QED BY <1>1, <3>1, <4>1, <4>2, <4>3
    <3> QED BY <3>1, <3>2, <3>3
  <2> HIDE DEF a
  <2> QED BY <2>1, <2>2, <2>3
<1>4. CASE ~(Len(a) > MaxAlertRecords)
  <2>1. g = a
    BY <1>4 DEF PushRecord
  <2> HIDE DEF a, g
  <2> QED BY <1>1, <2>1 DEF g
<1> QED BY <1>3, <1>4

-----------------------------------------------------------------------------
(* The invariant.                                                          *)

LEMMA AlertInit == Init => AlertInv
<1> SUFFICES ASSUME Init PROVE AlertInv
  OBVIOUS
<1>1. Cooldown \in Nat /\ Capacity \in Nat
  BY AlertAssumption
<1>2. TypeOK
  <2>1. <<>> \in Seq(Event) /\ Len(<<>>) = 0 /\ <<>> \in Seq(AlertRecord)
    BY EmptySeq
  <2>2. channel \in Seq(Event) /\ Len(channel) <= Capacity
    BY <1>1, <2>1 DEF Init
  <2>3. alert_records \in [Service -> Seq(AlertRecord)]
    BY <2>1 DEF Init
  <2>4. /\ last_alert_age \in [Service -> 0 .. Cooldown \cup {Never}]
        /\ quiet \in [Service -> 0 .. Cooldown]
    BY <1>1 DEF Init
  <2>5. told \in [Service -> Status \cup {Never}]
    BY DEF Init
  <2> QED BY <2>2, <2>3, <2>4, <2>5 DEF Init, FeedInit, TypeOK, Status, NoChange
<1>3. Dispatch
  BY DEF Init, Dispatch
<1>4. ASSUME NEW s \in Service PROVE Untold(s) /\ Covered(s) /\ Tried(s)
  <2>1. told[s] = Never /\ ~Busy(s) /\ alert_records[s] = <<>>
    BY DEF Init, Busy
  <2>2. Never \notin Failure
    BY NeverIsNone DEF Failure, Status
  <2>3. Tried(s)
    BY <2>1 DEF Tried, Tries
  <2> QED BY <2>1, <2>2, <2>3 DEF Untold, Covered
<1> QED BY <1>2, <1>3, <1>4 DEF AlertInv

\* A step that neither begins, continues nor ends an alert, and lets no time pass.
LEMMA Untouched ==
  ASSUME AlertInv, TypeOK',
         pc' = "dispatching" <=> pc = "dispatching",
         UNCHANGED <<event, next_target, last_alert_age, alerted_for_failure,
                     alert_records, told, quiet>>
  PROVE  AlertInv'
<1>1. Dispatch'
  BY DEF AlertInv, Dispatch
<1>2. ASSUME NEW s \in Service PROVE (Untold(s) /\ Covered(s) /\ Tried(s))'
  <2>1. Busy(s)' <=> Busy(s)
    BY DEF Busy
  <2>2. Tries(s)' = Tries(s)
    BY <2>1 DEF Tries
  <2> QED BY <2>1, <2>2 DEF AlertInv, Untold, Covered, Tried
<1> QED BY <1>1, <1>2 DEF AlertInv

LEMMA StatusChangeType ==
  ASSUME AlertInv, NEW u \in Upstream, StatusChange(u)
  PROVE  TypeOK'
<1>1. PICK new \in Status :
        /\ status' = [status EXCEPT ![ServiceOf[u]] = new]
        /\ unsent' = [unsent EXCEPT ![u] = new]
  BY DEF StatusChange, ChangeStatus
<1> QED BY <1>1 DEF StatusChange, AlertInv, TypeOK, rate_limit, history

LEMMA PublishType ==
  ASSUME AlertInv, NEW u \in Upstream, Publish(u)
  PROVE  TypeOK'
<1> DEFINE e == [service |-> ServiceOf[u], to |-> unsent[u], kept |-> FALSE]
<1>1. /\ status' = status
      /\ unsent' = [unsent EXCEPT ![u] = NoChange]
      /\ Send(e)
  BY DEF Publish, TakeChange
<1>2. e \in Event
  <2>1. unsent[u] \in Status
    BY DEF Publish, TakeChange, AlertInv, TypeOK
  <2> QED BY <2>1, FeedAssumption DEF Event
<1>3. channel' \in Seq(Event) /\ Len(channel') <= Capacity /\ lagged' \in BOOLEAN
  <2> HIDE DEF e
  <2> QED BY <1>1, <1>2, SendType DEF AlertInv
<1> QED BY <1>1, <1>3 DEF Publish, AlertInv, TypeOK, rate_limit, history

LEMMA PublishGiveUpType ==
  ASSUME AlertInv, NEW s \in Service, PublishGiveUp(s)
  PROVE  TypeOK'
<1>1. Send([service |-> s, to |-> "Failed", kept |-> TRUE])
  BY DEF PublishGiveUp
<1>2. [service |-> s, to |-> "Failed", kept |-> TRUE] \in Event
  BY DEF Event, Status
<1>3. channel' \in Seq(Event) /\ Len(channel') <= Capacity /\ lagged' \in BOOLEAN
  BY <1>1, <1>2, SendType DEF AlertInv
<1> QED BY <1>3 DEF PublishGiveUp, AlertInv, TypeOK, rate_limit, history

\* What recv leaves in the channel.
LEMMA RecvType ==
  ASSUME TypeOK, channel # <<>>
  PROVE  /\ Head(channel) \in Event
         /\ Tail(channel) \in Seq(Event)
         /\ Len(Tail(channel)) <= Capacity
<1>1. channel \in Seq(Event) /\ Len(channel) <= Capacity /\ Len(channel) \in Nat
      /\ Capacity \in Nat
  BY AlertAssumption, LenProperties DEF TypeOK
<1> QED BY <1>1, HeadTailProperties

LEMMA SecondStep ==
  ASSUME AlertInv, Second
  PROVE  AlertInv'
<1>1. /\ Cooldown \in Nat
      /\ last_alert_age \in [Service -> 0 .. Cooldown \cup {Never}]
      /\ quiet \in [Service -> 0 .. Cooldown]
  BY AlertAssumption DEF AlertInv, TypeOK
<1>2. /\ \A s \in Service :
           last_alert_age'[s] = IF last_alert_age[s] \in 0 .. Cooldown - 1
                                THEN last_alert_age[s] + 1 ELSE last_alert_age[s]
      /\ \A s \in Service :
           quiet'[s] = IF quiet[s] < Cooldown THEN quiet[s] + 1 ELSE quiet[s]
  BY DEF Second
<1>3. UNCHANGED <<status, unsent, give_up, channel, lagged, pc, event, next_target,
                  alerted_for_failure, alert_records, cancelled, told>>
  BY DEF Second, world
<1>4. TypeOK'
  <2>1. last_alert_age' \in [Service -> 0 .. Cooldown \cup {Never}]
    BY <1>1, NeverIsNone DEF Second
  <2>2. quiet' \in [Service -> 0 .. Cooldown]
    BY <1>1 DEF Second
  <2> QED BY <1>3, <2>1, <2>2 DEF AlertInv, TypeOK
<1>5. Dispatch'
  BY <1>3 DEF AlertInv, Dispatch
<1>6. ASSUME NEW s \in Service PROVE (Untold(s) /\ Covered(s) /\ Tried(s))'
  <2>1. Busy(s)' <=> Busy(s)
    BY <1>3 DEF Busy
  <2>2. Tries(s)' = Tries(s)
    BY <1>3, <2>1 DEF Tries
  <2>3. Covered(s)'
    BY <1>1, <1>2, <1>3, <2>1 DEF AlertInv, Covered
  <2> QED BY <1>3, <2>2, <2>3 DEF AlertInv, Untold, Tried
<1> QED BY <1>4, <1>5, <1>6 DEF AlertInv

\* The deliveries begin, or the service has no target.
LEMMA AlertStep ==
  ASSUME AlertInv, Alert
  PROVE  AlertInv'
<1> DEFINE e == Head(channel)
           t == e.service
<1>1. /\ pc = "idle" /\ channel' = Tail(channel)
      /\ e \in Event /\ t \in Service /\ e.to \in Status
      /\ Tail(channel) \in Seq(Event) /\ Len(Tail(channel)) <= Capacity
  BY RecvType DEF Alert, AlertInv, Event
<1>2. UNCHANGED <<status, unsent, give_up, lagged, alert_records, cancelled>>
  BY DEF Alert, world
<1>3. Len(Targets[t]) \in Nat /\ Targets[t] \in Seq(Kind)
  BY <1>1, TargetsType
<1>4. Cooldown \in Nat
  BY AlertAssumption
<1>5. CASE Targets[t] = <<>>
  <2>1. /\ last_alert_age' = [last_alert_age EXCEPT ![t] = 0]
        /\ alerted_for_failure' = [alerted_for_failure EXCEPT ![t] = e.to \in Failure]
        /\ UNCHANGED <<pc, event, next_target, told, quiet>>
    BY <1>5 DEF Alert, update_rate_limit, history
  <2>2. TypeOK'
    BY <1>1, <1>2, <1>4, <2>1 DEF AlertInv, TypeOK
  <2>3. Dispatch'
    BY <2>1 DEF AlertInv, Dispatch
  <2>4. ASSUME NEW s \in Service PROVE (Untold(s) /\ Covered(s) /\ Tried(s))'
    <3>1. ~Busy(s) /\ ~Busy(s)'
      BY <1>1, <2>1 DEF Busy
    <3>2. Untold(s)'
      BY <2>1 DEF AlertInv, Untold
    <3>3. Covered(s)'
      <4>1. CASE s = t
        <5>1. told'[s] \notin Failure
          BY <1>5, <2>1, <4>1, NeverIsNone DEF AlertInv, Untold, Failure, Status
        <5> QED BY <5>1 DEF Covered
      <4>2. CASE s # t
        BY <2>1, <3>1, <4>2 DEF AlertInv, TypeOK, Covered
      <4> QED BY <4>1, <4>2
    <3>4. Tries(s)' = Tries(s)
      BY <2>1, <3>1 DEF Tries
    <3>5. Tried(s)'
      BY <1>2, <2>1, <3>4 DEF AlertInv, Tried
    <3> QED BY <3>2, <3>3, <3>5
  <2> QED BY <2>2, <2>3, <2>4 DEF AlertInv
<1>6. CASE Targets[t] # <<>>
  <2>1. /\ pc' = "dispatching" /\ event' = e /\ next_target' = 1
        /\ told' = [told EXCEPT ![t] = e.to]
        /\ UNCHANGED <<last_alert_age, alerted_for_failure, quiet>>
    BY <1>6 DEF Alert, rate_limit
  <2>2. TypeOK'
    BY <1>1, <1>2, <2>1 DEF AlertInv, TypeOK
  <2>3. Len(Targets[t]) > 0
    BY <1>3, <1>6, EmptySeq
  <2>4. Dispatch'
    <3>1. told'[t] = e.to
      BY <1>1, <2>1 DEF AlertInv, TypeOK
    <3> HIDE DEF e
    <3> QED BY <1>1, <1>3, <2>1, <2>3, <3>1 DEF Dispatch
  <2>5. ASSUME NEW s \in Service PROVE (Untold(s) /\ Covered(s) /\ Tried(s))'
    <3>1. ~Busy(s) /\ (Busy(s)' <=> s = t)
      BY <1>1, <2>1 DEF Busy
    <3>2. s # t => told'[s] = told[s]
      BY <2>1 DEF AlertInv, TypeOK
    <3>3. Untold(s)'
      BY <1>6, <3>2 DEF AlertInv, Untold
    <3>4. Covered(s)'
      BY <2>1, <3>1, <3>2 DEF AlertInv, Covered
    <3>5. Tried(s)'
      <4>1. CASE s = t
        <5>1. Tries(s)' = 0
          BY <2>1, <3>1, <4>1 DEF Tries
        <5>2. Len(alert_records'[s]) \in Nat
          BY <2>2, LenProperties DEF TypeOK
        <5> QED BY <5>1, <5>2 DEF Tried
      <4>2. CASE s # t
        <5>1. Tries(s)' = Tries(s)
          BY <3>1, <3>2, <4>2 DEF Tries
        <5> QED BY <1>2, <3>2, <4>2, <5>1 DEF AlertInv, Tried
      <4> QED BY <4>1, <4>2
    <3> QED BY <3>3, <3>4, <3>5
  <2> QED BY <2>2, <2>4, <2>5 DEF AlertInv
<1> QED BY <1>5, <1>6

\* A delivery has ended: the next target, or the cooldown.
LEMMA DeliverStep ==
  ASSUME AlertInv, Deliver
  PROVE  AlertInv'
<1> DEFINE t == event.service
           k == next_target
           n == Len(Targets[t])
           h == alert_records[t]
<1>1. /\ pc = "dispatching" /\ event \in Event /\ t \in Service /\ event.to \in Status
      /\ k \in 1 .. n /\ told[t] = event.to
  BY DEF Deliver, AlertInv, Dispatch, Event
<1>2. n \in Nat /\ Targets[t][k] \in Kind
  BY <1>1, TargetsType, ElementOfSeq
<1>3. /\ alert_records' = [alert_records EXCEPT ![t] =
           PushRecord(h, [kind |-> Targets[t][k], to |-> event.to])]
      /\ IF k < n
         THEN /\ next_target' = k + 1
              /\ UNCHANGED <<pc, event, rate_limit, quiet>>
         ELSE /\ update_rate_limit(t, event.to)
              /\ pc' = "idle"
              /\ event' = NoEvent
              /\ next_target' = 0
              /\ quiet' = [quiet EXCEPT ![t] = IF event.to \in Failure THEN 0 ELSE Cooldown]
  BY DEF Deliver
<1>4. UNCHANGED <<status, unsent, give_up, channel, lagged, cancelled, told>>
  BY DEF Deliver, world
<1> DEFINE r == [kind |-> Targets[t][k], to |-> event.to]
           g == PushRecord(h, r)
<1>5. r \in AlertRecord /\ r.kind = Targets[t][k] /\ r.to = event.to
  BY <1>1, <1>2 DEF AlertRecord
<1>6. h \in Seq(AlertRecord)
  BY <1>1 DEF AlertInv, TypeOK
<1>7. /\ g \in Seq(AlertRecord)
      /\ \A d \in Nat : d + 1 <= MaxAlertRecords /\ d <= Len(h) =>
           /\ d + 1 <= Len(g)
           /\ g[Len(g)] = r
           /\ \A i \in 1 .. d : g[Len(g) - (d + 1) + i] = h[Len(h) - d + i]
  <2> HIDE DEF r, h
  <2> QED BY <1>5, <1>6, PushRecordEnd
<1>8. /\ alert_records' \in [Service -> Seq(AlertRecord)]
      /\ alert_records'[t] = g
      /\ \A s \in Service : s # t => alert_records'[s] = alert_records[s]
  <2> HIDE DEF g
  <2> QED BY <1>1, <1>3, <1>7 DEF AlertInv, TypeOK, g
<1>9. Cooldown \in Nat
  BY AlertAssumption
<1>10. Len(g) \in Nat /\ Len(h) \in Nat
  <2> HIDE DEF g, h
  <2> QED BY <1>6, <1>7, LenProperties
\* The records of the targets tried so far, the present one included.
<1>11. ASSUME n <= MaxAlertRecords
       PROVE  /\ k <= Len(g)
              /\ \A i \in 1 .. k : g[Len(g) - k + i].kind = Targets[t][i]
                                 /\ g[Len(g) - k + i].to = event.to
  <2>1. Tries(t) = k - 1 /\ k - 1 \in Nat
    BY <1>1 DEF Tries, Busy
  <2>2. /\ k - 1 <= Len(h)
        /\ \A i \in 1 .. k - 1 : h[Len(h) - (k - 1) + i].kind = Targets[t][i]
                                /\ h[Len(h) - (k - 1) + i].to = event.to
    <3>1. Tried(t) /\ told[t] = event.to
      BY <1>1 DEF AlertInv
    <3> HIDE DEF k
    <3> QED BY <1>11, <2>1, <3>1 DEF Tried
  <2>3. (k - 1) + 1 = k /\ k <= MaxAlertRecords
    BY <1>1, <1>2, <1>11, AlertAssumption
  <2> HIDE DEF g, h, r, k
  <2>4. /\ k <= Len(g)
        /\ g[Len(g)] = r
        /\ \A i \in 1 .. k - 1 : g[Len(g) - k + i] = h[Len(h) - (k - 1) + i]
    BY <1>7, <2>1, <2>2, <2>3
  <2>5. ASSUME NEW i \in 1 .. k
        PROVE  g[Len(g) - k + i].kind = Targets[t][i] /\ g[Len(g) - k + i].to = event.to
    <3>1. k \in Nat
      BY <2>1, <2>3
    <3>2. CASE i = k
      <4>1. Len(g) - k + i = Len(g)
        BY <1>10, <3>1, <3>2
      <4> QED BY <1>5, <2>4, <3>2, <4>1
    <3>3. CASE i # k
      <4>1. i \in 1 .. k - 1
        BY <3>1, <3>3
      <4> QED BY <2>2, <2>4, <4>1
    <3> QED BY <3>2, <3>3
  <2> QED BY <2>4, <2>5
<1>12. CASE k < n
  <2>1. /\ next_target' = k + 1
        /\ UNCHANGED <<pc, event, last_alert_age, alerted_for_failure, quiet>>
    BY <1>3, <1>12 DEF rate_limit
  <2>2. TypeOK'
    BY <1>1, <1>4, <1>8, <2>1 DEF AlertInv, TypeOK
  <2>3. Dispatch'
    BY <1>1, <1>2, <1>4, <1>12, <2>1 DEF Dispatch
  <2>4. ASSUME NEW s \in Service PROVE (Untold(s) /\ Covered(s) /\ Tried(s))'
    <3>1. Busy(s)' <=> Busy(s)
      BY <2>1 DEF Busy
    <3>2. Untold(s)' /\ Covered(s)'
      BY <1>4, <2>1, <3>1 DEF AlertInv, Untold, Covered
    <3>3. Tried(s)'
      <4>1. CASE s = t
        <5>1. Tries(s)' = k
          BY <1>1, <2>1, <4>1 DEF Tries, Busy
        <5> HIDE DEF g, k
        <5> QED BY <1>1, <1>4, <1>8, <1>11, <4>1, <5>1 DEF Tried
      <4>2. CASE s # t
        <5>1. Tries(s)' = Tries(s)
          BY <1>1, <1>4, <2>1, <4>2 DEF Tries, Busy
        <5> QED BY <1>4, <1>8, <4>2, <5>1 DEF AlertInv, Tried
      <4> QED BY <4>1, <4>2
    <3> QED BY <3>2, <3>3
  <2> QED BY <2>2, <2>3, <2>4 DEF AlertInv
<1>13. CASE ~(k < n)
  <2>1. /\ last_alert_age' = [last_alert_age EXCEPT ![t] = 0]
        /\ alerted_for_failure' = [alerted_for_failure EXCEPT ![t] = event.to \in Failure]
        /\ pc' = "idle" /\ event' = NoEvent /\ next_target' = 0
        /\ quiet' = [quiet EXCEPT ![t] = IF event.to \in Failure THEN 0 ELSE Cooldown]
    BY <1>3, <1>13 DEF update_rate_limit
  <2>2. TypeOK'
    <3>1. /\ last_alert_age' \in [Service -> 0 .. Cooldown \cup {Never}]
          /\ quiet' \in [Service -> 0 .. Cooldown]
      <4>1. 0 \in 0 .. Cooldown /\ Cooldown \in 0 .. Cooldown
        BY <1>9
      <4>2. /\ last_alert_age \in [Service -> 0 .. Cooldown \cup {Never}]
            /\ quiet \in [Service -> 0 .. Cooldown]
        BY DEF AlertInv, TypeOK
      <4> HIDE DEF t
      <4> QED BY <2>1, <4>1, <4>2
    <3> QED BY <1>4, <1>8, <2>1, <3>1 DEF AlertInv, TypeOK
  <2>3. Dispatch'
    BY <2>1 DEF Dispatch
  <2>4. ASSUME NEW s \in Service PROVE (Untold(s) /\ Covered(s) /\ Tried(s))'
    <3>1. ~Busy(s)' /\ (Busy(s) <=> s = t)
      BY <1>1, <2>1 DEF Busy
    <3>2. Untold(s)'
      BY <1>4 DEF AlertInv, Untold
    <3>3. Covered(s)'
      <4>1. CASE s = t
        <5>1. last_alert_age'[t] = 0
          BY <1>1, <2>1 DEF AlertInv, TypeOK
        <5>2. event.to \in Failure => alerted_for_failure'[t]
          BY <1>1, <2>1 DEF AlertInv, TypeOK
        <5>3. quiet'[t] \in Nat
          BY <1>1, <1>9, <2>2 DEF TypeOK
        <5>4. told'[t] = event.to
          BY <1>1, <1>4
        <5>5. last_alert_age'[t] \in 0 .. quiet'[t]
          BY <5>1, <5>3
        <5> HIDE DEF t
        <5> QED BY <4>1, <5>2, <5>4, <5>5 DEF Covered
      <4>2. CASE s # t
        BY <1>4, <2>1, <3>1, <4>2 DEF AlertInv, TypeOK, Covered
      <4> QED BY <4>1, <4>2
    <3>4. Tried(s)'
      <4>1. CASE s = t
        <5>1. k = n /\ told[t] # Never
          BY <1>1, <1>2, <1>13, NeverIsNone
        <5>2. Tries(s)' = k
          BY <1>4, <3>1, <4>1, <5>1 DEF Tries
        <5> HIDE DEF g, k
        <5> QED BY <1>1, <1>4, <1>8, <1>11, <4>1, <5>2 DEF Tried
      <4>2. CASE s # t
        <5>1. Tries(s)' = Tries(s)
          BY <1>4, <3>1, <4>2 DEF Tries
        <5> QED BY <1>4, <1>8, <4>2, <5>1 DEF AlertInv, Tried
      <4> QED BY <4>1, <4>2
    <3> QED BY <3>2, <3>3, <3>4
  <2> QED BY <2>2, <2>3, <2>4 DEF AlertInv
<1> QED BY <1>12, <1>13

LEMMA AlertNext ==
  ASSUME AlertInv, [Next]_vars
  PROVE  AlertInv'
<1>1. ASSUME NEW u \in Upstream, StatusChange(u) \/ Publish(u) PROVE AlertInv'
  <2>1. CASE StatusChange(u)
    BY <2>1, StatusChangeType, Untouched DEF StatusChange, rate_limit, history
  <2>2. CASE Publish(u)
    BY <2>2, PublishType, Untouched DEF Publish, rate_limit, history
  <2> QED BY <1>1, <2>1, <2>2
<1>2. ASSUME NEW s \in Service, PublishGiveUp(s) PROVE AlertInv'
  BY <1>2, PublishGiveUpType, Untouched DEF PublishGiveUp, rate_limit, history
<1>3. CASE Scan
  <2>1. give_up' \in [Service -> {"open", "due", "done"}]
    BY <1>3 DEF Scan, AlertInv, TypeOK
  <2>2. TypeOK'
    BY <1>3, <2>1 DEF Scan, AlertInv, TypeOK, rate_limit, history
  <2> QED BY <1>3, <2>2, Untouched DEF Scan, rate_limit, history
<1>4. CASE Shutdown
  <2>1. TypeOK'
    BY <1>4 DEF Shutdown, AlertInv, TypeOK, rate_limit, history, world
  <2> QED BY <1>4, <2>1, Untouched DEF Shutdown, rate_limit, history
<1>5. CASE Skip
  <2>1. Tail(channel) \in Seq(Event) /\ Len(Tail(channel)) <= Capacity
    BY <1>5, RecvType DEF Skip, AlertInv
  <2>2. TypeOK'
    BY <1>5, <2>1 DEF Skip, AlertInv, TypeOK, rate_limit, history, world
  <2> QED BY <1>5, <2>2, Untouched DEF Skip, rate_limit, history
<1>6. CASE Lagged
  <2>1. TypeOK'
    BY <1>6 DEF Lagged, AlertInv, TypeOK, rate_limit, history, world
  <2> QED BY <1>6, <2>1, Untouched DEF Lagged, rate_limit, history
<1>7. CASE Stop
  <2>1. <<>> \in Seq(Event) /\ Len(<<>>) <= Capacity
    BY EmptySeq, AlertAssumption
  <2>2. TypeOK'
    BY <1>7, <2>1 DEF Stop, AlertInv, TypeOK, rate_limit, history, world
  <2> QED BY <1>7, <2>2, Untouched DEF Stop, rate_limit, history
<1>8. CASE UNCHANGED vars
  <2>1. TypeOK'
    BY <1>8 DEF vars, AlertInv, TypeOK, rate_limit, history, world
  <2> QED BY <1>8, <2>1, Untouched DEF vars, rate_limit, history
<1> QED BY <1>1, <1>2, <1>3, <1>4, <1>5, <1>6, <1>7, <1>8, SecondStep, AlertStep, DeliverStep
        DEF Next, Loop

THEOREM AlertInvariance == Spec => []AlertInv
<1> QED BY AlertInit, AlertNext, PTL DEF Spec

-----------------------------------------------------------------------------
(* The theorems.                                                           *)

\* Every state of the alert engine is well typed, for every capacity of the channel.
THEOREM AlertTypeOK == Spec => []TypeOK
<1>1. AlertInv => TypeOK
  BY DEF AlertInv
<1> QED BY <1>1, AlertInvariance, PTL

\* Between two alerts the newest records are those of the last alert's targets.
LEMMA NoTargetSkippedNow ==
  ASSUME AlertInv
  PROVE  NoTargetSkipped
<1> SUFFICES ASSUME pc = "idle", NEW s \in Service,
                    told[s] # Never, Len(Targets[s]) <= MaxAlertRecords
             PROVE  LET n == Len(Targets[s])
                        h == alert_records[s]
                    IN  /\ Len(h) >= n
                        /\ \A i \in 1 .. n : LET r == h[Len(h) - n + i]
                                             IN  r.kind = Targets[s][i] /\ r.to = told[s]
  BY DEF NoTargetSkipped
<1>1. Tries(s) = Len(Targets[s])
  BY DEF Tries, Busy
<1>2. LET h == alert_records[s]
          d == Tries(s)
      IN  /\ d <= Len(h)
          /\ \A i \in 1 .. d : LET r == h[Len(h) - d + i]
                               IN  r.kind = Targets[s][i] /\ r.to = told[s]
  <2>1. Tried(s)
    BY DEF AlertInv
  <2> QED BY <2>1 DEF Tried
<1>3. LET h == alert_records[s]
          n == Len(Targets[s])
      IN  /\ n <= Len(h)
          /\ \A i \in 1 .. n : LET r == h[Len(h) - n + i]
                               IN  r.kind = Targets[s][i] /\ r.to = told[s]
  BY <1>1, <1>2
<1>4. Len(Targets[s]) \in Nat /\ Len(alert_records[s]) \in Nat
  BY TargetsType, LenProperties DEF AlertInv, TypeOK
<1>5. Len(alert_records[s]) >= Len(Targets[s])
  BY <1>3, <1>4
<1> QED BY <1>3, <1>5

\* The records of the store show every target of the last alert about a service,
\* whatever came of the deliveries (handle_event, record_alert).
THEOREM AlertNoTargetSkipped == Spec => []NoTargetSkipped
BY NoTargetSkippedNow, AlertInvariance, PTL

\* An alert about a failure after another one, with no recovery told between them,
\* begins with the whole cooldown behind it.
LEMMA CooldownStep ==
  ASSUME AlertInv, Next, NEW s \in Service,
         pc = "idle", pc' = "dispatching",
         event'.service = s, event'.to \in Failure, told[s] \in Failure
  PROVE  quiet[s] >= Cooldown
<1>1. Alert
  BY DEF Next, Loop, Skip, Lagged, Deliver, Stop, Scan, StatusChange, Publish, PublishGiveUp,
         Second, Shutdown
<1>2. event' = Head(channel) /\ ~is_rate_limited(s, event'.to)
  BY <1>1 DEF Alert
<1>3. event'.to # "Healthy"
  BY DEF Failure
<1>4. alerted_for_failure[s] /\ last_alert_age[s] \in 0 .. quiet[s]
  BY DEF AlertInv, Covered, Busy
<1>5. quiet[s] \in 0 .. Cooldown /\ Cooldown \in Nat
  BY AlertAssumption DEF AlertInv, TypeOK
<1>6. last_alert_age[s] >= Cooldown
  BY <1>2, <1>3, <1>4, <1>5, NeverIsNone DEF is_rate_limited
<1> QED BY <1>4, <1>5, <1>6

\* No number of services, slow deliveries or lost events shortens a cooldown
\* (is_rate_limited, update_rate_limit).
THEOREM AlertCooldownRespected == Spec => CooldownRespected
<1>1. AlertInv /\ [Next]_vars =>
        [\A s \in Service :
           /\ pc = "idle" /\ pc' = "dispatching"
           /\ event'.service = s /\ event'.to \in Failure /\ told[s] \in Failure
           => quiet[s] >= Cooldown]_vars
  BY CooldownStep
<1> QED BY <1>1, AlertInvariance, PTL DEF Spec, CooldownRespected
=============================================================================
