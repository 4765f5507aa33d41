------------------------- MODULE HealthEngine_proofs -------------------------
(***************************************************************************)
(* What holds of the health engine for any number of services and          *)
(* upstreams, any thresholds and any history bound.                        *)
(***************************************************************************)
EXTENDS HealthEngine, WellFoundedInduction, SequenceTheorems,
        FiniteSetTheorems, TLAPS

-----------------------------------------------------------------------------
(* Lemmas about the operators.                                             *)

\* The lookup by host and port always finds an entry, in the same service.
LEMMA SlotExists ==
  ASSUME NEW u \in Upstream
  PROVE  /\ SlotOf(u) \in Upstream
         /\ ServiceOf[SlotOf(u)] = ServiceOf[u]
         /\ SlotOf(SlotOf(u)) = SlotOf(u)
<1> DEFINE T == {v \in Upstream : SameKey(u, v)}
<1>1. T \subseteq Nat /\ u \in T
  BY HealthAssumption DEF Upstream, SameKey
<1>2. PICK v \in T : \A w \in T : ~(<<w, v>> \in OpToRel(<, Nat))
  BY <1>1, NatLessThanWellFounded, WFMin
<1>3. ASSUME NEW w \in Upstream, SameKey(u, w)
      PROVE  v <= w
  <2>1. w \in T /\ w \in Nat /\ v \in Nat
    BY <1>1, <1>3
  <2>2. ~(w < v)
    BY <1>2, <2>1 DEF OpToRel
  <2> QED
    BY <2>1, <2>2
<1> DEFINE First(x, m) == SameKey(x, m) /\ \A w \in Upstream : SameKey(x, w) => m <= w
<1>4. SlotOf(u) \in Upstream /\ First(u, SlotOf(u))
  BY <1>3 DEF SlotOf
<1>5. \A m \in Upstream : First(SlotOf(u), m) <=> First(u, m)
  BY <1>4 DEF SameKey
<1>6. SlotOf(SlotOf(u)) = SlotOf(u)
  <2>1. SlotOf(SlotOf(u)) = CHOOSE m \in Upstream : First(SlotOf(u), m)
    BY DEF SlotOf
  <2>2. SlotOf(u) = CHOOSE m \in Upstream : First(u, m)
    BY DEF SlotOf
  <2> HIDE DEF First
  <2> QED
    BY <1>5, <2>1, <2>2, Zenon
<1> QED
  BY <1>4, <1>6 DEF SameKey

\* The aggregate of a service is a status, and what each value says of the mix.
LEMMA AggregateMeaning ==
  ASSUME NEW us \in [Upstream -> Status], NEW s \in Service
  PROVE  /\ Aggregate(us, s) \in Status
         /\ Aggregate(us, s) = "Healthy" <=> \A u \in UpstreamsOf(s) : us[u] = "Healthy"
         /\ Aggregate(us, s) = "Failed" <=> \A u \in UpstreamsOf(s) : us[u] = "Failed"
         /\ Aggregate(us, s) = "Unknown" => \E u \in UpstreamsOf(s) : us[u] = "Unknown"
         /\ \A u \in UpstreamsOf(s) :
              us[u] = "Failed" => Aggregate(us, s) \in {"Degraded", "Failed"}
<1>1. PICK u \in UpstreamsOf(s) : TRUE
  BY HealthAssumption
<1> QED
  BY <1>1 DEF Aggregate, Status

\* The aggregate of a service depends on that service's entries alone.
LEMMA AggregateFrame ==
  ASSUME NEW us, NEW vs, NEW s \in Service,
         \A u \in UpstreamsOf(s) : us[u] = vs[u]
  PROVE  Aggregate(us, s) = Aggregate(vs, s)
<1>1. {us[u] : u \in UpstreamsOf(s)} = {vs[u] : u \in UpstreamsOf(s)}
  OBVIOUS
<1> QED
  BY <1>1 DEF Aggregate

\* Trimming keeps a history a history.
LEMMA PushRecordType ==
  ASSUME NEW S, NEW h \in Seq(S), NEW r \in S, NEW n \in Nat \ {0}
  PROVE  PushRecord(h, r, n) \in Seq(S)
<1>1. Append(h, r) \in Seq(S) /\ Append(h, r) # <<>>
  BY AppendProperties
<1>2. Tail(Append(h, r)) \in Seq(S)
  BY <1>1, HeadTailProperties
<1> QED
  BY <1>1, <1>2 DEF PushRecord

-----------------------------------------------------------------------------
(* Type correctness.                                                       *)

LEMMA NoEventType == NoEvent \in Status \X Status
BY DEF NoEvent, Status

LEMMA InitType == Init => TypeOK
<1> SUFFICES ASSUME Init
             PROVE  TypeOK
  OBVIOUS
<1>1. event \in [Upstream -> Status \X Status]
  BY NoEventType DEF Init
<1>2. /\ health_records \in [Service -> Seq(BOOLEAN)]
      /\ flow \in [Service -> [Status -> Int]]
  BY DEF Init
<1>3. task \in [Upstream -> TaskState] /\ reach \in [Upstream -> SUBSET {"listening", "running"}]
  BY DEF Init, TaskState
<1>4. /\ ustatus \in [Upstream -> Status]
      /\ failures \in [Upstream -> Nat]
      /\ seen_ok \in [Upstream -> BOOLEAN]
      /\ status \in [Service -> Status]
      /\ cancelled \in BOOLEAN
      /\ last_sent \in [Service -> Status]
  BY DEF Init, Status
<1> QED
  BY <1>1, <1>2, <1>3, <1>4 DEF TypeOK

LEMMA UpdateEntryType ==
  ASSUME TypeOK, NEW u \in Upstream, NEW success \in BOOLEAN, UpdateEntry(u, success)
  PROVE  /\ ustatus' \in [Upstream -> Status]
         /\ failures' \in [Upstream -> Nat]
         /\ seen_ok' \in [Upstream -> BOOLEAN]
<1>1. SlotOf(u) \in Upstream /\ Threshold[ServiceOf[u]] \in Nat
  BY SlotExists, HealthAssumption
<1>2. CASE success
  <2>1. /\ ustatus' = [ustatus EXCEPT ![SlotOf(u)] = "Healthy"]
        /\ failures' = [failures EXCEPT ![SlotOf(u)] = 0]
        /\ seen_ok' = [seen_ok EXCEPT ![SlotOf(u)] = TRUE]
    BY <1>2 DEF UpdateEntry
  <2> QED
    BY <1>1, <2>1 DEF TypeOK, Status
<1>3. CASE ~success
  <2> DEFINE v == SlotOf(u)
             limit == Threshold[ServiceOf[u]]
             verdict == IF failures[v] + 1 >= limit THEN "Failed" ELSE "Degraded"
             streak == IF failures[v] < limit THEN failures[v] + 1 ELSE failures[v]
  <2>1. /\ ustatus' = [ustatus EXCEPT ![v] = verdict]
        /\ failures' = [failures EXCEPT ![v] = streak]
        /\ seen_ok' = seen_ok
    BY <1>3 DEF UpdateEntry
  <2>2. verdict \in Status /\ streak \in Nat
    BY <1>1 DEF TypeOK, Status
  <2> HIDE DEF verdict, streak
  <2> QED
    BY <1>1, <2>1, <2>2 DEF TypeOK
<1> QED
  BY <1>2, <1>3

LEMMA RecordType ==
  ASSUME TypeOK, NEW u \in Upstream, Record(u)
  PROVE  TypeOK'
<1> DEFINE s == ServiceOf[u]
<1>1. s \in Service
  BY HealthAssumption
<1>2. /\ ustatus' \in [Upstream -> Status]
      /\ failures' \in [Upstream -> Nat]
      /\ seen_ok' \in [Upstream -> BOOLEAN]
  <2>1. UpdateEntry(u, task[u] = "passed")
    BY DEF Record
  <2> QED
    BY <2>1, UpdateEntryType
<1>3. status' \in [Service -> Status]
  <2>1. Aggregate(ustatus', s) \in Status
    BY <1>1, <1>2, AggregateMeaning
  <2>2. status' = [status EXCEPT ![s] = Aggregate(ustatus', s)]
    BY DEF Record
  <2> QED
    BY <1>1, <2>1, <2>2 DEF TypeOK
<1>4. health_records' \in [Service -> Seq(BOOLEAN)]
  <2>1. PushRecord(health_records[s], task[u] = "passed", MaxHealthRecords) \in Seq(BOOLEAN)
    BY <1>1, PushRecordType, HealthAssumption DEF TypeOK
  <2> QED
    BY <1>1, <2>1 DEF Record, TypeOK
<1>5. task' \in [Upstream -> TaskState] /\ event' \in [Upstream -> Status \X Status]
  <2>1. <<status[s], status'[s]>> \in Status \X Status
    BY <1>1, <1>3 DEF TypeOK
  <2>2. CASE status'[s] # status[s]
    <3>1. /\ task' = [task EXCEPT ![u] = "sending"]
          /\ event' = [event EXCEPT ![u] = <<status[s], status'[s]>>]
      BY <2>2 DEF Record, EventNeeded
    <3> QED
      BY <2>1, <3>1 DEF TypeOK, TaskState
  <2>3. CASE status'[s] = status[s]
    <3>1. task' = [task EXCEPT ![u] = "waiting"] /\ event' = event
      BY <2>3 DEF Record, EventNeeded
    <3> QED
      BY <3>1 DEF TypeOK, TaskState
  <2> QED
    BY <2>2, <2>3
<1>6. UNCHANGED <<cancelled, reach, last_sent, flow>>
  BY DEF Record, sent
<1> QED
  BY <1>2, <1>3, <1>4, <1>5, <1>6 DEF TypeOK

LEMMA BroadcastType ==
  ASSUME TypeOK, NEW u \in Upstream, Broadcast(u)
  PROVE  TypeOK'
<1> DEFINE s == ServiceOf[u]
           from == event[u][1]
           to == event[u][2]
<1>1. s \in Service /\ from \in Status /\ to \in Status
  BY HealthAssumption DEF TypeOK
<1>2. flow' \in [Service -> [Status -> Int]]
  <2>1. flow[s] \in [Status -> Int]
    BY <1>1 DEF TypeOK
  <2>2. Moved(flow[s], from, to) \in [Status -> Int]
    BY <2>1 DEF Moved, One
  <2>3. flow' = [flow EXCEPT ![s] = Moved(flow[s], from, to)]
    BY DEF Broadcast
  <2> QED
    BY <1>1, <2>2, <2>3 DEF TypeOK
<1>3. last_sent' \in [Service -> Status]
  BY <1>1 DEF Broadcast, TypeOK
<1>4. event' \in [Upstream -> Status \X Status]
  BY NoEventType DEF Broadcast, TypeOK
<1>5. task' \in [Upstream -> TaskState]
  BY DEF Broadcast, TypeOK, TaskState
<1>6. UNCHANGED <<ustatus, failures, seen_ok, status, health_records, cancelled, reach>>
  BY DEF Broadcast, store
<1> QED
  BY <1>2, <1>3, <1>4, <1>5, <1>6 DEF TypeOK

LEMMA StepType == TypeOK /\ [Next]_vars => TypeOK'
<1> SUFFICES ASSUME TypeOK, [Next]_vars
             PROVE  TypeOK'
  OBVIOUS
<1>1. ASSUME NEW u \in Upstream, Tick(u) \/ Inspect(u) \/ Probe(u) \/ Stop(u)
      PROVE  TypeOK'
  <2>1. task' \in [Upstream -> TaskState]
    BY <1>1 DEF TypeOK, TaskState, Tick, Inspect, Probe, Stop
  <2>2. UNCHANGED <<store, event, cancelled, reach, sent>>
    BY <1>1 DEF Tick, Inspect, Probe, Stop
  <2> QED
    BY <2>1, <2>2 DEF TypeOK, store, sent
<1>2. ASSUME NEW u \in Upstream, WorldChange(u)
      PROVE  TypeOK'
  <2>1. reach' \in [Upstream -> SUBSET {"listening", "running"}]
    BY <1>2 DEF TypeOK, WorldChange, World
  <2> QED
    BY <1>2, <2>1 DEF TypeOK, WorldChange, store, sent
<1>3. CASE Shutdown
  BY <1>3 DEF TypeOK, Shutdown, store, sent
<1>4. CASE UNCHANGED vars
  BY <1>4 DEF TypeOK, vars
<1> QED
  BY <1>1, <1>2, <1>3, <1>4, RecordType, BroadcastType DEF Next, CheckStep

\* Every variable of the engine keeps its type in every run.
THEOREM HealthTypeOK == Spec => []TypeOK
BY InitType, StepType, PTL DEF Spec

-----------------------------------------------------------------------------
(* The store: entries, aggregates and the history.                         *)

\* What Record does to the entries: it writes the entry of u and no other.
LEMMA RecordEntries ==
  ASSUME TypeOK, NEW u \in Upstream, Record(u)
  PROVE  /\ \A w \in Upstream : w # SlotOf(u) =>
              /\ ustatus'[w] = ustatus[w]
              /\ failures'[w] = failures[w]
              /\ seen_ok'[w] = seen_ok[w]
         /\ task[u] = "passed" =>
              /\ ustatus'[SlotOf(u)] = "Healthy"
              /\ failures'[SlotOf(u)] = 0
              /\ seen_ok'[SlotOf(u)] = TRUE
         /\ task[u] # "passed" =>
              \/ /\ ustatus'[SlotOf(u)] = "Failed"
                 /\ failures[SlotOf(u)] + 1 >= Threshold[ServiceOf[u]]
                 /\ failures'[SlotOf(u)] = IF failures[SlotOf(u)] < Threshold[ServiceOf[u]]
                                           THEN failures[SlotOf(u)] + 1
                                           ELSE failures[SlotOf(u)]
              \/ /\ ustatus'[SlotOf(u)] = "Degraded"
                 /\ failures[SlotOf(u)] + 1 < Threshold[ServiceOf[u]]
                 /\ failures'[SlotOf(u)] = failures[SlotOf(u)] + 1
<1> DEFINE v == SlotOf(u)
           limit == Threshold[ServiceOf[u]]
           verdict == IF failures[v] + 1 >= limit THEN "Failed" ELSE "Degraded"
           streak == IF failures[v] < limit THEN failures[v] + 1 ELSE failures[v]
<1>1. v \in Upstream /\ limit \in Nat /\ failures[v] \in Nat
  BY SlotExists, HealthAssumption DEF TypeOK
<1>2. UpdateEntry(u, task[u] = "passed")
  BY DEF Record
<1>3. CASE task[u] = "passed"
  <2>1. /\ ustatus' = [ustatus EXCEPT ![v] = "Healthy"]
        /\ failures' = [failures EXCEPT ![v] = 0]
        /\ seen_ok' = [seen_ok EXCEPT ![v] = TRUE]
    BY <1>2, <1>3 DEF UpdateEntry
  <2> QED
    BY <1>1, <1>3, <2>1 DEF TypeOK
<1>4. CASE task[u] # "passed"
  <2>1. /\ ustatus' = [ustatus EXCEPT ![v] = verdict]
        /\ failures' = [failures EXCEPT ![v] = streak]
        /\ seen_ok' = seen_ok
    BY <1>2, <1>4 DEF UpdateEntry
  <2>2. ustatus'[v] = verdict /\ failures'[v] = streak
    BY <1>1, <2>1 DEF TypeOK
  <2>3. \A w \in Upstream : w # v =>
          ustatus'[w] = ustatus[w] /\ failures'[w] = failures[w] /\ seen_ok'[w] = seen_ok[w]
    BY <2>1 DEF TypeOK
  <2>4. failures[v] + 1 < limit => failures[v] < limit
    BY <1>1
  <2> QED
    BY <1>1, <1>4, <2>2, <2>3, <2>4
<1> QED
  BY <1>3, <1>4

\* The status of the service of u after Record, and that of any other service.
LEMMA RecordStatus ==
  ASSUME TypeOK, NEW u \in Upstream, Record(u)
  PROVE  /\ status'[ServiceOf[u]] = Aggregate(ustatus', ServiceOf[u])
         /\ \A s \in Service : s # ServiceOf[u] =>
              status'[s] = status[s] /\ health_records'[s] = health_records[s]
BY HealthAssumption DEF Record, TypeOK

\* The entries of another service are out of reach of Record.
LEMMA RecordSiblingsOnly ==
  ASSUME TypeOK, NEW u \in Upstream, Record(u),
         NEW s \in Service, s # ServiceOf[u]
  PROVE  Aggregate(ustatus', s) = Aggregate(ustatus, s)
<1>1. \A w \in UpstreamsOf(s) : ustatus'[w] = ustatus[w]
  BY RecordEntries, SlotExists DEF UpstreamsOf
<1> QED
  BY <1>1, AggregateFrame

LEMMA StoreStep ==
  ASSUME TypeOK, StoreConsistent, ShadowUnknown, [Next]_vars
  PROVE  StoreConsistent' /\ ShadowUnknown'
<1>1. ASSUME NEW u \in Upstream, Record(u)
      PROVE  StoreConsistent' /\ ShadowUnknown'
  <2> DEFINE v == SlotOf(u)
  <2>0. /\ v \in Upstream /\ ServiceOf[v] = ServiceOf[u] /\ SlotOf(v) = v
        /\ Threshold[ServiceOf[u]] \in Nat /\ failures[v] \in Nat
    BY SlotExists, HealthAssumption DEF TypeOK
  <2>1. EntryFollowsStreak'
    <3> SUFFICES ASSUME NEW w \in Upstream
                 PROVE  FollowsStreak(w)'
      BY DEF EntryFollowsStreak
    <3>0. FollowsStreak(w)
      BY DEF StoreConsistent, EntryFollowsStreak
    <3>1. CASE w # v
      <4>1. /\ ustatus'[w] = ustatus[w]
            /\ failures'[w] = failures[w]
            /\ seen_ok'[w] = seen_ok[w]
        BY <1>1, <3>1, RecordEntries
      <4> QED
        BY <3>0, <4>1 DEF FollowsStreak
    <3>2. CASE w = v /\ task[u] = "passed"
      <4>1. ustatus'[w] = "Healthy" /\ failures'[w] = 0 /\ seen_ok'[w] = TRUE
        BY <1>1, <3>2, RecordEntries
      <4> QED
        BY <4>1 DEF FollowsStreak
    <3>3. CASE w = v /\ task[u] # "passed"
      <4> DEFINE limit == Threshold[ServiceOf[u]]
      <4>1. limit \in Nat /\ failures[w] \in 0 .. limit
        BY <2>0, <3>0, <3>3 DEF FollowsStreak, TypeOK, Status
      <4>2. \/ ustatus'[w] = "Failed" /\ failures'[w] = limit
            \/ ustatus'[w] = "Degraded" /\ failures'[w] \in 1 .. limit - 1
        <5>1. \/ /\ ustatus'[w] = "Failed"
                 /\ failures[w] + 1 >= limit
                 /\ failures'[w] = IF failures[w] < limit THEN failures[w] + 1 ELSE failures[w]
              \/ /\ ustatus'[w] = "Degraded"
                 /\ failures[w] + 1 < limit
                 /\ failures'[w] = failures[w] + 1
          BY <1>1, <3>3, RecordEntries
        <5> QED
          BY <4>1, <5>1
      <4> QED
        BY <2>0, <3>3, <4>2 DEF FollowsStreak
    <3> QED
      BY <3>1, <3>2, <3>3
  <2>2. StatusIsAggregate'
    <3> SUFFICES ASSUME NEW s \in Service
                 PROVE  status'[s] = Aggregate(ustatus', s)
      BY DEF StatusIsAggregate
    <3>1. CASE s = ServiceOf[u]
      BY <1>1, <3>1, RecordStatus
    <3>2. CASE s # ServiceOf[u]
      BY <1>1, <3>2, RecordStatus, RecordSiblingsOnly DEF StoreConsistent, StatusIsAggregate
    <3> QED
      BY <3>1, <3>2
  <2>3. ShadowUnknown'
    <3> SUFFICES ASSUME NEW w \in Upstream, SlotOf(w) # w
                 PROVE  ustatus'[w] = "Unknown"
      BY DEF ShadowUnknown
    <3>1. w # v
      BY <2>0
    <3>2. ustatus'[w] = ustatus[w]
      BY <1>1, <3>1, RecordEntries
    <3> QED
      BY <3>2 DEF ShadowUnknown
  <2> QED
    BY <2>1, <2>2, <2>3 DEF StoreConsistent
<1>2. ASSUME UNCHANGED <<ustatus, failures, seen_ok, status>>
      PROVE  StoreConsistent' /\ ShadowUnknown'
  <2>1. \A s \in Service : Aggregate(ustatus', s) = Aggregate(ustatus, s)
    BY <1>2, AggregateFrame
  <2>2. EntryFollowsStreak'
    <3> SUFFICES ASSUME NEW w \in Upstream
                 PROVE  FollowsStreak(w)'
      BY DEF EntryFollowsStreak
    <3>1. FollowsStreak(w)
      BY DEF StoreConsistent, EntryFollowsStreak
    <3> QED
      BY <1>2, <3>1 DEF FollowsStreak
  <2>3. StatusIsAggregate'
    BY <1>2, <2>1 DEF StoreConsistent, StatusIsAggregate
  <2>4. ShadowUnknown'
    BY <1>2 DEF ShadowUnknown
  <2> QED
    BY <2>2, <2>3, <2>4 DEF StoreConsistent
<1>3. \/ \E u \in Upstream : Record(u)
      \/ UNCHANGED <<ustatus, failures, seen_ok, status>>
  BY DEF Next, CheckStep, Tick, Inspect, Probe, Broadcast, Stop, WorldChange, Shutdown, vars, store
<1> QED
  BY <1>1, <1>2, <1>3

\* The history ends as the status says: what Record pushes is the check that
\* decided the entry.
LEMMA PushRecordLast ==
  ASSUME NEW h \in Seq(BOOLEAN), NEW r \in BOOLEAN, NEW n \in Nat \ {0}
  PROVE  /\ PushRecord(h, r, n) # <<>>
         /\ PushRecord(h, r, n)[Len(PushRecord(h, r, n))] = r
<1> DEFINE a == Append(h, r)
<1>1. /\ a \in Seq(BOOLEAN) /\ a # <<>>
      /\ Len(a) = Len(h) + 1 /\ a[Len(h) + 1] = r
      /\ Len(h) \in Nat
  BY AppendProperties, LenProperties
<1>2. CASE Len(a) > n
  <2>1. Len(h) >= 1
    BY <1>1, <1>2
  <2>2. Tail(a) \in Seq(BOOLEAN) /\ Len(Tail(a)) = Len(h) /\ Tail(a)[Len(h)] = r
    BY <1>1, <2>1, HeadTailProperties
  <2>3. PushRecord(h, r, n) = Tail(a) /\ Tail(a) # <<>>
    BY <1>2, <2>1, <2>2 DEF PushRecord
  <2> QED
    BY <2>2, <2>3
<1>3. CASE ~(Len(a) > n)
  BY <1>1, <1>3 DEF PushRecord
<1> QED
  BY <1>2, <1>3

LEMMA HistoryStep ==
  ASSUME TypeOK, LastCheckAgrees, [Next]_vars
  PROVE  LastCheckAgrees'
<1>1. ASSUME NEW u \in Upstream, Record(u)
      PROVE  LastCheckAgrees'
  <2> DEFINE s == ServiceOf[u]
             v == SlotOf(u)
             h == health_records'[s]
             r == (task[u] = "passed")
  <2>1. s \in Service /\ v \in UpstreamsOf(s)
    BY SlotExists, HealthAssumption DEF UpstreamsOf
  <2>2. h = PushRecord(health_records[s], r, MaxHealthRecords)
    BY <1>1, <2>1 DEF Record, TypeOK
  <2>3. h # <<>> /\ h[Len(h)] = r
    <3>1. health_records[s] \in Seq(BOOLEAN)
      BY <2>1 DEF TypeOK
    <3>2. r \in BOOLEAN
      OBVIOUS
    <3> HIDE DEF h, r
    <3> QED
      BY <2>2, <3>1, <3>2, PushRecordLast, HealthAssumption
  <2>4. ustatus' \in [Upstream -> Status]
    BY <1>1, RecordType DEF TypeOK
  <2>5. status'[s] = Aggregate(ustatus', s)
    BY <1>1, RecordStatus
  <2>6. task[u] = "passed" => status'[s] # "Failed"
    <3>1. task[u] = "passed" => ustatus'[v] # "Failed"
      BY <1>1, RecordEntries
    <3> QED
      BY <2>1, <2>4, <2>5, <3>1, AggregateMeaning
  <2>7. task[u] # "passed" => status'[s] # "Healthy"
    <3>1. task[u] # "passed" => ustatus'[v] # "Healthy"
      BY <1>1, RecordEntries
    <3> QED
      BY <2>1, <2>4, <2>5, <3>1, AggregateMeaning
  <2>8. \A x \in Service : x # s => status'[x] = status[x] /\ health_records'[x] = health_records[x]
    BY <1>1, RecordStatus
  <2> HIDE DEF h
  <2>9. /\ status'[s] = "Healthy" => h # <<>> /\ h[Len(h)] = TRUE
        /\ status'[s] = "Failed" => h # <<>> /\ h[Len(h)] = FALSE
    BY <2>3, <2>6, <2>7
  <2> QED
    BY <2>8, <2>9 DEF LastCheckAgrees, h
<1>2. ASSUME UNCHANGED <<status, health_records>>
      PROVE  LastCheckAgrees'
  BY <1>2 DEF LastCheckAgrees
<1>3. \/ \E u \in Upstream : Record(u)
      \/ UNCHANGED <<status, health_records>>
  BY DEF Next, CheckStep, Tick, Inspect, Probe, Broadcast, Stop, WorldChange, Shutdown, vars, store
<1> QED
  BY <1>1, <1>2, <1>3

\* What Record pushes: one element longer, or shifted by one when the history is
\* full; the history never exceeds its bound.
LEMMA PushRecordShape ==
  ASSUME NEW h \in Seq(BOOLEAN), NEW r \in BOOLEAN, NEW n \in Nat \ {0}, Len(h) <= n
  PROVE  /\ Len(h) < n =>
              /\ Len(PushRecord(h, r, n)) = Len(h) + 1
              /\ \A i \in 1 .. Len(h) : PushRecord(h, r, n)[i] = h[i]
              /\ PushRecord(h, r, n)[Len(h) + 1] = r
         /\ Len(h) = n =>
              /\ Len(PushRecord(h, r, n)) = n
              /\ \A i \in 1 .. n - 1 : PushRecord(h, r, n)[i] = h[i + 1]
              /\ PushRecord(h, r, n)[n] = r
<1> DEFINE a == Append(h, r)
<1>1. /\ a \in Seq(BOOLEAN) /\ a # <<>>
      /\ Len(a) = Len(h) + 1 /\ a[Len(h) + 1] = r
      /\ \A i \in 1 .. Len(h) : a[i] = h[i]
      /\ Len(h) \in Nat
  BY AppendProperties, LenProperties
<1>2. CASE Len(h) < n
  <2>1. PushRecord(h, r, n) = a
    BY <1>1, <1>2 DEF PushRecord
  <2> QED
    BY <1>1, <1>2, <2>1
<1>3. CASE Len(h) = n
  <2>1. PushRecord(h, r, n) = Tail(a)
    BY <1>1, <1>3 DEF PushRecord
  <2>2. /\ Len(Tail(a)) = n
        /\ \A i \in 1 .. n : Tail(a)[i] = a[i + 1]
    BY <1>1, <1>3, HeadTailProperties
  <2>3. Tail(a)[n] = r
    BY <1>1, <1>3, <2>2
  <2>4. \A i \in 1 .. n - 1 : Tail(a)[i] = h[i + 1]
    <3> SUFFICES ASSUME NEW i \in 1 .. n - 1
                 PROVE  Tail(a)[i] = h[i + 1]
      OBVIOUS
    <3>1. i \in 1 .. n /\ i + 1 \in 1 .. Len(h)
      BY <1>3
    <3>2. Tail(a)[i] = a[i + 1] /\ a[i + 1] = h[i + 1]
      BY <1>1, <2>2, <3>1
    <3> QED
      BY <3>2
  <2> HIDE DEF a
  <2> QED
    BY <1>3, <2>1, <2>2, <2>3, <2>4
<1> QED
  BY <1>2, <1>3

\* No history exceeds MAX_HEALTH_RECORDS.  The streak property needs it: only a
\* full history may be shorter than the streak.
HistoryBounded == \A s \in Service : Len(health_records[s]) <= MaxHealthRecords

\* The history h ends with the f failures of a streak, or is full of failures.
EndsWith(h, f) ==
  /\ \A i \in 1 .. Len(h) : i > Len(h) - f => ~h[i]
  /\ Len(h) < f => Len(h) = MaxHealthRecords

LEMMA PushFailure ==
  ASSUME NEW h \in Seq(BOOLEAN), Len(h) <= MaxHealthRecords,
         NEW f \in Nat, NEW g \in Nat, g = f \/ g = f + 1, EndsWith(h, f),
         NEW r \in BOOLEAN, ~r
  PROVE  EndsWith(PushRecord(h, r, MaxHealthRecords), g)
<1> DEFINE n == MaxHealthRecords
           p == PushRecord(h, r, n)
           k == Len(h)
<1>1. n \in Nat /\ n > 0 /\ k \in Nat /\ k <= n
  BY HealthAssumption, LenProperties
<1>2. /\ \A i \in 1 .. k : i > k - f => ~h[i]
      /\ k < f => k = n
  BY DEF EndsWith
<1>3. g = f \/ g = f + 1
  OBVIOUS
<1>4. /\ k < n => /\ Len(p) = k + 1 /\ ~p[k + 1]
                  /\ \A i \in 1 .. k : p[i] = h[i]
      /\ k = n => /\ Len(p) = n /\ ~p[n]
                  /\ \A i \in 1 .. n - 1 : p[i] = h[i + 1]
  BY <1>1, PushRecordShape
<1> HIDE DEF n, p, k
<1>5. CASE k < n
  <2>1. f <= k
    BY <1>1, <1>2, <1>5
  <2>2. ASSUME NEW i \in 1 .. k + 1, i > k + 1 - g
        PROVE  ~p[i]
    <3>1. CASE i = k + 1
      BY <1>4, <1>5, <3>1
    <3>2. CASE i # k + 1
      <4>1. i \in 1 .. k /\ i > k - f
        BY <1>1, <1>3, <2>2, <3>2
      <4> QED
        BY <1>2, <1>4, <1>5, <4>1
    <3> QED
      BY <3>1, <3>2
  <2>3. ~(k + 1 < g)
    BY <1>1, <1>3, <2>1
  <2>4. Len(p) = k + 1
    BY <1>4, <1>5
  <2>5. /\ \A i \in 1 .. Len(p) : i > Len(p) - g => ~p[i]
        /\ ~(Len(p) < g)
    BY <1>1, <2>2, <2>3, <2>4
  <2>6. EndsWith(p, g)
    BY <2>5 DEF EndsWith
  <2> QED
    BY <2>6 DEF p, n
<1>6. CASE k = n
  <2>1. ASSUME NEW i \in 1 .. n, i > n - g
        PROVE  ~p[i]
    <3>1. CASE i = n
      BY <1>4, <1>6, <3>1
    <3>2. CASE i # n
      <4>1. i \in 1 .. n - 1 /\ i + 1 \in 1 .. k /\ i + 1 > k - f
        BY <1>1, <1>3, <1>6, <2>1, <3>2
      <4> QED
        BY <1>2, <1>4, <1>6, <4>1
    <3> QED
      BY <3>1, <3>2
  <2>2. EndsWith(p, g)
    BY <1>4, <1>6, <2>1 DEF EndsWith, n
  <2> QED
    BY <2>2 DEF p, n
<1> QED
  BY <1>1, <1>5, <1>6

LEMMA BoundedStep ==
  ASSUME TypeOK, HistoryBounded, [Next]_vars
  PROVE  HistoryBounded'
<1>1. ASSUME NEW u \in Upstream, Record(u)
      PROVE  HistoryBounded'
  <2> DEFINE s == ServiceOf[u]
             h == health_records[s]
             r == (task[u] = "passed")
  <2>1. s \in Service /\ h \in Seq(BOOLEAN) /\ Len(h) <= MaxHealthRecords
        /\ MaxHealthRecords \in Nat \ {0} /\ r \in BOOLEAN /\ Len(h) \in Nat
    BY HealthAssumption, LenProperties DEF TypeOK, HistoryBounded
  <2>2. health_records'[s] = PushRecord(h, r, MaxHealthRecords)
    BY <1>1, <2>1 DEF Record, TypeOK
  <2> HIDE DEF h, r
  <2>3. Len(health_records'[s]) <= MaxHealthRecords
    <3>1. CASE Len(h) < MaxHealthRecords
      <4>1. Len(health_records'[s]) = Len(h) + 1
        BY <2>1, <2>2, <3>1, PushRecordShape
      <4> QED
        BY <2>1, <3>1, <4>1
    <3>2. CASE Len(h) = MaxHealthRecords
      BY <2>1, <2>2, <3>2, PushRecordShape
    <3> QED
      BY <2>1, <3>1, <3>2
  <2>4. \A x \in Service : x # s => health_records'[x] = health_records[x]
    BY <1>1, RecordStatus
  <2> QED
    BY <2>3, <2>4 DEF HistoryBounded
<1>2. \/ \E u \in Upstream : Record(u)
      \/ UNCHANGED health_records
  BY DEF Next, CheckStep, Tick, Inspect, Probe, Broadcast, Stop, WorldChange, Shutdown, vars, store
<1> QED
  BY <1>1, <1>2 DEF HistoryBounded

\* A service with one upstream: nobody else writes its history, and that upstream
\* is the entry its checks are recorded in.
LEMMA FailureCounted ==
  ASSUME TypeOK, NEW u \in Upstream, Record(u), task[u] # "passed", SlotOf(u) = u
  PROVE  failures'[u] = failures[u] \/ failures'[u] = failures[u] + 1
<1>1. failures' = [failures EXCEPT ![u] = IF failures[u] < Threshold[ServiceOf[u]]
                                          THEN failures[u] + 1 ELSE failures[u]]
  BY DEF Record, UpdateEntry
<1>2. failures \in [Upstream -> Nat]
  BY DEF TypeOK
<1> QED BY <1>1, <1>2

LEMMA StreakStep ==
  ASSUME TypeOK, HistoryBounded, HistoryEndsWithStreak, [Next]_vars
  PROVE  HistoryEndsWithStreak'
<1> SUFFICES ASSUME NEW w \in Upstream, UpstreamsOf(ServiceOf[w]) = {w}
             PROVE  EndsWith(health_records'[ServiceOf[w]], failures'[w])
  BY DEF HistoryEndsWithStreak, EndsWith
<1> DEFINE s == ServiceOf[w]
           h == health_records[s]
           f == failures[w]
<1>1. /\ s \in Service /\ h \in Seq(BOOLEAN) /\ f \in Nat
      /\ Len(h) <= MaxHealthRecords /\ EndsWith(h, f)
      /\ SlotOf(w) = w
  <2>1. SlotOf(w) \in UpstreamsOf(s)
    BY SlotExists DEF UpstreamsOf
  <2> QED
    BY <2>1, HealthAssumption
       DEF TypeOK, HistoryBounded, HistoryEndsWithStreak, EndsWith
<1>2. ASSUME Record(w)
      PROVE  EndsWith(health_records'[s], failures'[w])
  <2>1. health_records'[s] = PushRecord(h, task[w] = "passed", MaxHealthRecords)
    BY <1>1, <1>2 DEF Record, TypeOK
  <2>2. CASE task[w] = "passed"
    <3>1. failures'[w] = 0
      BY <1>1, <1>2, <2>2, RecordEntries
    <3>2. h \in Seq(BOOLEAN) /\ TRUE \in BOOLEAN
      BY <1>1
    <3>3. health_records'[s] \in Seq(BOOLEAN)
      BY <1>1, <1>2, RecordType DEF TypeOK
    <3>4. Len(health_records'[s]) \in Nat
      BY <3>3, LenProperties
    <3> HIDE DEF s
    <3> QED
      BY <3>1, <3>4 DEF EndsWith
  <2>3. CASE task[w] # "passed"
    <3>1. failures'[w] = f \/ failures'[w] = f + 1
      BY <1>1, <1>2, <2>3, FailureCounted
    <3>2. failures'[w] \in Nat
      BY <1>1, <3>1
    <3> DEFINE g == failures'[w]
               r == (task[w] = "passed")
    <3>3. r \in BOOLEAN /\ ~r
      BY <2>3
    <3> HIDE DEF h, f, g, r
    <3>4. EndsWith(PushRecord(h, r, MaxHealthRecords), g)
      BY <1>1, <3>1, <3>2, <3>3, PushFailure DEF g
    <3> QED
      BY <2>1, <3>4 DEF g, r
  <2> QED
    BY <2>2, <2>3
<1>3. ASSUME NEW u \in Upstream, Record(u), u # w
      PROVE  EndsWith(health_records'[s], failures'[w])
  <2>1. ServiceOf[u] # s
    BY <1>3 DEF UpstreamsOf
  <2>2. SlotOf(u) # w
    BY <2>1, SlotExists
  <2>3. health_records'[s] = h
    BY <1>1, <1>3, <2>1, RecordStatus
  <2>4. failures'[w] = f
    BY <1>3, <2>2, RecordEntries
  <2> QED
    BY <1>1, <2>3, <2>4
<1>4. ASSUME UNCHANGED <<health_records, failures>>
      PROVE  EndsWith(health_records'[s], failures'[w])
  BY <1>1, <1>4
<1>5. \/ \E u \in Upstream : Record(u)
      \/ UNCHANGED <<health_records, failures>>
  BY DEF Next, CheckStep, Tick, Inspect, Probe, Broadcast, Stop, WorldChange, Shutdown, vars, store
<1> QED
  BY <1>2, <1>3, <1>4, <1>5

-----------------------------------------------------------------------------
(* The events.                                                             *)

\* The outcome of Record for the events: the event of u is the step of the status.
LEMMA RecordEvent ==
  ASSUME TypeOK, NEW u \in Upstream, Record(u)
  PROVE  /\ task[u] # "sending"
         /\ status'[ServiceOf[u]] # status[ServiceOf[u]] =>
              /\ task' = [task EXCEPT ![u] = "sending"]
              /\ event' = [event EXCEPT ![u] = <<status[ServiceOf[u]], status'[ServiceOf[u]]>>]
         /\ status'[ServiceOf[u]] = status[ServiceOf[u]] =>
              /\ task' = [task EXCEPT ![u] = "waiting"]
              /\ event' = event
         /\ \A w \in Upstream : w # u => task'[w] = task[w] /\ event'[w] = event[w]
         /\ UNCHANGED <<last_sent, flow>>
<1> DEFINE s == ServiceOf[u]
<1>1. CASE status'[s] # status[s]
  <2>1. /\ task' = [task EXCEPT ![u] = "sending"]
        /\ event' = [event EXCEPT ![u] = <<status[s], status'[s]>>]
    BY <1>1 DEF Record, EventNeeded
  <2> QED
    BY <1>1, <2>1 DEF Record, EventNeeded, TypeOK, sent
<1>2. CASE status'[s] = status[s]
  <2>1. task' = [task EXCEPT ![u] = "waiting"] /\ event' = event
    BY <1>2 DEF Record, EventNeeded
  <2> QED
    BY <1>2, <2>1 DEF Record, EventNeeded, TypeOK, sent
<1> QED
  BY <1>1, <1>2

LEMMA ChainStep ==
  ASSUME TypeOK, SoleEventsChain, [Next]_vars
  PROVE  SoleEventsChain'
<1> SUFFICES ASSUME NEW w \in Upstream, UpstreamsOf(ServiceOf[w]) = {w}
             PROVE  IF task'[w] = "sending"
                    THEN event'[w] = <<last_sent'[ServiceOf[w]], status'[ServiceOf[w]]>>
                    ELSE last_sent'[ServiceOf[w]] = status'[ServiceOf[w]]
  BY DEF SoleEventsChain
<1> DEFINE s == ServiceOf[w]
           Chain == IF task'[w] = "sending"
                    THEN event'[w] = <<last_sent'[s], status'[s]>>
                    ELSE last_sent'[s] = status'[s]
<1>1. IF task[w] = "sending" THEN event[w] = <<last_sent[s], status[s]>>
      ELSE last_sent[s] = status[s]
  BY DEF SoleEventsChain
<1>2. s \in Service /\ \A u \in Upstream : ServiceOf[u] = s => u = w
  BY HealthAssumption DEF UpstreamsOf
<1>3. ASSUME NEW u \in Upstream, Record(u)
      PROVE  Chain
  <2>0. task[u] # "sending" /\ last_sent' = last_sent
    BY <1>3, RecordEvent
  <2>1. CASE u = w
    <3>1. CASE status'[s] # status[s]
      <4>1. /\ task' = [task EXCEPT ![u] = "sending"]
            /\ event' = [event EXCEPT ![u] = <<status[s], status'[s]>>]
        BY <1>3, <2>1, <3>1, RecordEvent
      <4>2. task'[w] = "sending" /\ event'[w] = <<status[s], status'[s]>>
        BY <2>1, <4>1 DEF TypeOK
      <4> QED
        BY <1>1, <2>0, <2>1, <4>2
    <3>2. CASE status'[s] = status[s]
      <4>1. task' = [task EXCEPT ![u] = "waiting"]
        BY <1>3, <2>1, <3>2, RecordEvent
      <4>2. task'[w] = "waiting"
        BY <2>1, <4>1 DEF TypeOK
      <4> QED
        BY <1>1, <2>0, <2>1, <3>2, <4>2
    <3> QED
      BY <3>1, <3>2
  <2>2. CASE u # w
    <3>1. task'[w] = task[w] /\ event'[w] = event[w]
      BY <1>3, <2>2, RecordEvent
    <3>2. status'[s] = status[s]
      BY <1>2, <1>3, <2>2, RecordStatus
    <3> QED
      BY <1>1, <2>0, <3>1, <3>2
  <2> QED
    BY <2>1, <2>2
<1>4. ASSUME NEW u \in Upstream, Broadcast(u)
      PROVE  Chain
  <2>0. status' = status
    BY <1>4 DEF Broadcast, store
  <2>1. CASE u = w
    <3>1. task[w] = "sending" /\ task'[w] = "waiting" /\ last_sent'[s] = event[w][2]
      BY <1>2, <1>4, <2>1 DEF Broadcast, TypeOK
    <3> QED
      BY <1>1, <2>0, <3>1
  <2>2. CASE u # w
    <3>1. task'[w] = task[w] /\ event'[w] = event[w] /\ last_sent'[s] = last_sent[s]
      BY <1>2, <1>4, <2>2 DEF Broadcast, TypeOK
    <3> QED
      BY <1>1, <2>0, <3>1
  <2> QED
    BY <2>1, <2>2
<1>5. ASSUME NEW u \in Upstream, Tick(u) \/ Inspect(u) \/ Probe(u) \/ Stop(u)
      PROVE  Chain
  <2>1. UNCHANGED <<event, status, last_sent>>
    BY <1>5 DEF Tick, Inspect, Probe, Stop, store, sent
  <2>2. task'[w] = "sending" <=> task[w] = "sending"
    BY <1>5 DEF Tick, Inspect, Probe, Stop, TypeOK
  <2> QED
    BY <1>1, <2>1, <2>2
<1>6. ASSUME UNCHANGED <<task, event, status, last_sent>>
      PROVE  Chain
  BY <1>1, <1>6
<1>7. \/ \E u \in Upstream : Record(u) \/ Broadcast(u)
      \/ \E u \in Upstream : Tick(u) \/ Inspect(u) \/ Probe(u) \/ Stop(u)
      \/ UNCHANGED <<task, event, status, last_sent>>
  BY DEF Next, CheckStep, WorldChange, Shutdown, vars, store, sent
<1> HIDE DEF Chain
<1>8. (\E u \in Upstream : Record(u) \/ Broadcast(u)) => Chain
  BY <1>3, <1>4
<1>9. (\E u \in Upstream : Tick(u) \/ Inspect(u) \/ Probe(u) \/ Stop(u)) => Chain
  BY <1>5
<1>10. Chain
  BY <1>6, <1>7, <1>8, <1>9
<1> QED
  BY <1>10 DEF Chain

LEMMA UnsentFinite ==
  ASSUME NEW s \in Service, NEW i \in {1, 2}, NEW st \in Status
  PROVE  IsFiniteSet(UnsentBy(s, i, st)) /\ Unsent(s, i, st) \in Nat
<1>1. IsFiniteSet(Upstream)
  BY FS_Interval, HealthAssumption DEF Upstream
<1>2. UnsentBy(s, i, st) \subseteq Upstream
  BY DEF UnsentBy, UpstreamsOf
<1> QED
  BY <1>1, <1>2, FS_Subset, FS_CardinalityType DEF Unsent

\* A change of status adds one unsent event out of the old status and one into the
\* new one; a check that changes nothing adds none.
LEMMA RecordUnsent ==
  ASSUME TypeOK, NEW u \in Upstream, Record(u),
         NEW s \in Service, NEW st \in Status
  PROVE  Unsent(s, 2, st)' - Unsent(s, 1, st)'
           = Unsent(s, 2, st) - Unsent(s, 1, st) + One(status'[s] = st) - One(status[s] = st)
<1> DEFINE fresh == s = ServiceOf[u] /\ status'[s] # status[s]
<1>1. /\ u \notin UnsentBy(s, 1, st) /\ u \notin UnsentBy(s, 2, st)
      /\ IsFiniteSet(UnsentBy(s, 1, st)) /\ IsFiniteSet(UnsentBy(s, 2, st))
      /\ Unsent(s, 1, st) \in Nat /\ Unsent(s, 2, st) \in Nat
  BY RecordEvent, UnsentFinite DEF UnsentBy
<1>2. CASE fresh
  <2>1. /\ task' = [task EXCEPT ![u] = "sending"]
        /\ event' = [event EXCEPT ![u] = <<status[s], status'[s]>>]
    BY <1>2, RecordEvent
  <2>2. u \in UpstreamsOf(s)
    BY <1>2 DEF UpstreamsOf
  <2>3. UnsentBy(s, 1, st)' = IF status[s] = st THEN UnsentBy(s, 1, st) \cup {u} ELSE UnsentBy(s, 1, st)
    BY <1>1, <2>1, <2>2 DEF UnsentBy, UpstreamsOf, TypeOK
  <2>4. UnsentBy(s, 2, st)' = IF status'[s] = st THEN UnsentBy(s, 2, st) \cup {u} ELSE UnsentBy(s, 2, st)
    BY <1>1, <2>1, <2>2 DEF UnsentBy, UpstreamsOf, TypeOK
  <2>5. /\ Unsent(s, 1, st)' = Unsent(s, 1, st) + One(status[s] = st)
        /\ Unsent(s, 2, st)' = Unsent(s, 2, st) + One(status'[s] = st)
    BY <1>1, <2>3, <2>4, FS_AddElement DEF Unsent, One
  <2> QED
    BY <1>1, <2>5 DEF One
<1>3. CASE ~fresh
  <2>1. status'[s] = status[s]
    BY <1>3, RecordStatus
  <2>2. \A w \in UpstreamsOf(s) : /\ task'[w] = "sending" <=> task[w] = "sending"
                                  /\ task[w] = "sending" => event'[w] = event[w]
    <3> SUFFICES ASSUME NEW w \in UpstreamsOf(s)
                 PROVE  /\ task'[w] = "sending" <=> task[w] = "sending"
                        /\ task[w] = "sending" => event'[w] = event[w]
      OBVIOUS
    <3>1. CASE w # u
      BY <3>1, RecordEvent DEF UpstreamsOf
    <3>2. CASE w = u
      BY <1>3, <3>2, RecordEvent DEF UpstreamsOf, TypeOK
    <3> QED
      BY <3>1, <3>2
  <2>3. \A i \in {1, 2} : UnsentBy(s, i, st)' = UnsentBy(s, i, st)
    BY <2>2 DEF UnsentBy, UpstreamsOf
  <2> QED
    BY <1>1, <2>1, <2>3 DEF Unsent, One
<1> QED
  BY <1>2, <1>3

\* A broadcast moves one event from the unsent to the sent.
LEMMA BroadcastUnsent ==
  ASSUME TypeOK, NEW u \in Upstream, Broadcast(u),
         NEW s \in Service, NEW st \in Status
  PROVE  flow'[s][st] + Unsent(s, 2, st)' - Unsent(s, 1, st)'
           = flow[s][st] + Unsent(s, 2, st) - Unsent(s, 1, st)
<1> DEFINE from == event[u][1]
           to == event[u][2]
<1>0. /\ IsFiniteSet(UnsentBy(s, 1, st)) /\ IsFiniteSet(UnsentBy(s, 2, st))
      /\ Unsent(s, 1, st) \in Nat /\ Unsent(s, 2, st) \in Nat /\ flow[s][st] \in Int
  BY UnsentFinite DEF TypeOK
<1>1. /\ task[u] = "sending" /\ task' = [task EXCEPT ![u] = "waiting"]
      /\ event' = [event EXCEPT ![u] = NoEvent]
      /\ flow' = [flow EXCEPT ![ServiceOf[u]] = Moved(flow[ServiceOf[u]], from, to)]
  BY DEF Broadcast
<1>2. \A i \in {1, 2} : UnsentBy(s, i, st)' = UnsentBy(s, i, st) \ {u}
  BY <1>1 DEF UnsentBy, UpstreamsOf, TypeOK
<1>3. CASE s = ServiceOf[u]
  <2>1. u \in UpstreamsOf(s)
    BY <1>3 DEF UpstreamsOf
  <2>2. /\ u \in UnsentBy(s, 1, st) <=> from = st
        /\ u \in UnsentBy(s, 2, st) <=> to = st
    BY <1>1, <2>1 DEF UnsentBy
  <2>3. /\ Unsent(s, 1, st)' = Unsent(s, 1, st) - One(from = st)
        /\ Unsent(s, 2, st)' = Unsent(s, 2, st) - One(to = st)
    BY <1>0, <1>2, <2>2, FS_RemoveElement DEF Unsent, One
  <2>4. flow'[s][st] = flow[s][st] + One(st = to) - One(st = from)
    BY <1>1, <1>3 DEF Moved, TypeOK
  <2> QED
    BY <1>0, <2>3, <2>4 DEF One
<1>4. CASE s # ServiceOf[u]
  <2>1. u \notin UpstreamsOf(s)
    BY <1>4 DEF UpstreamsOf
  <2>2. \A i \in {1, 2} : UnsentBy(s, i, st)' = UnsentBy(s, i, st)
    BY <1>2, <2>1 DEF UnsentBy
  <2>3. flow'[s][st] = flow[s][st]
    BY <1>1, <1>4 DEF TypeOK
  <2> QED
    BY <2>2, <2>3 DEF Unsent
<1> QED
  BY <1>3, <1>4

LEMMA BalanceStep ==
  ASSUME TypeOK, EventsBalance, [Next]_vars
  PROVE  EventsBalance'
<1> SUFFICES ASSUME NEW s \in Service, NEW st \in Status
             PROVE  flow'[s][st] + Unsent(s, 2, st)' - Unsent(s, 1, st)'
                      = One(status'[s] = st) - One(st = "Unknown")
  BY DEF EventsBalance
<1>1. /\ flow[s][st] + Unsent(s, 2, st) - Unsent(s, 1, st)
           = One(status[s] = st) - One(st = "Unknown")
      /\ flow[s][st] \in Int
      /\ Unsent(s, 1, st) \in Nat /\ Unsent(s, 2, st) \in Nat
  BY UnsentFinite DEF EventsBalance, TypeOK
<1>2. ASSUME NEW u \in Upstream, Record(u)
      PROVE  flow'[s][st] + Unsent(s, 2, st)' - Unsent(s, 1, st)'
               = One(status'[s] = st) - One(st = "Unknown")
  <2>1. /\ Unsent(s, 1, st)' \in Nat /\ Unsent(s, 2, st)' \in Nat
    <3>1. IsFiniteSet(Upstream)
      BY FS_Interval, HealthAssumption DEF Upstream
    <3>2. UnsentBy(s, 1, st)' \subseteq Upstream /\ UnsentBy(s, 2, st)' \subseteq Upstream
      BY DEF UnsentBy, UpstreamsOf
    <3> QED
      BY <3>1, <3>2, FS_Subset, FS_CardinalityType DEF Unsent
  <2>2. flow' = flow
    BY <1>2, RecordEvent
  <2>3. Unsent(s, 2, st)' - Unsent(s, 1, st)'
          = Unsent(s, 2, st) - Unsent(s, 1, st) + One(status'[s] = st) - One(status[s] = st)
    BY <1>2, RecordUnsent
  <2>4. /\ One(status'[s] = st) \in Int /\ One(status[s] = st) \in Int
        /\ One(st = "Unknown") \in Int
    BY DEF One
  <2> QED
    BY <1>1, <2>1, <2>2, <2>3, <2>4
<1>3. ASSUME NEW u \in Upstream, Broadcast(u)
      PROVE  flow'[s][st] + Unsent(s, 2, st)' - Unsent(s, 1, st)'
               = One(status'[s] = st) - One(st = "Unknown")
  <2>1. status' = status
    BY <1>3 DEF Broadcast, store
  <2> QED
    BY <1>1, <1>3, <2>1, BroadcastUnsent
<1>4. ASSUME UNCHANGED <<event, status, flow>>,
             \A w \in Upstream : task'[w] = "sending" <=> task[w] = "sending"
      PROVE  flow'[s][st] + Unsent(s, 2, st)' - Unsent(s, 1, st)'
               = One(status'[s] = st) - One(st = "Unknown")
  <2>1. \A i \in {1, 2} : UnsentBy(s, i, st)' = UnsentBy(s, i, st)
    BY <1>4 DEF UnsentBy, UpstreamsOf
  <2> QED
    BY <1>1, <1>4, <2>1 DEF Unsent
<1>5. ASSUME NEW u \in Upstream, Tick(u) \/ Inspect(u) \/ Probe(u) \/ Stop(u)
      PROVE  /\ UNCHANGED <<event, status, flow>>
             /\ \A w \in Upstream : task'[w] = "sending" <=> task[w] = "sending"
  <2>1. UNCHANGED <<event, status, flow>>
    BY <1>5 DEF Tick, Inspect, Probe, Stop, store, sent
  <2>2. \A w \in Upstream : task'[w] = "sending" <=> task[w] = "sending"
    BY <1>5 DEF Tick, Inspect, Probe, Stop, TypeOK
  <2> QED
    BY <2>1, <2>2
<1>6. \/ \E u \in Upstream : Record(u)
      \/ \E u \in Upstream : Broadcast(u)
      \/ \E u \in Upstream : Tick(u) \/ Inspect(u) \/ Probe(u) \/ Stop(u)
      \/ UNCHANGED <<task, event, status, flow>>
  BY DEF Next, CheckStep, WorldChange, Shutdown, vars, store, sent
<1> QED
  BY <1>2, <1>3, <1>4, <1>5, <1>6

-----------------------------------------------------------------------------
(* The invariant and the theorems.                                         *)

HealthInv ==
  /\ TypeOK
  /\ StoreConsistent
  /\ ShadowUnknown
  /\ LastCheckAgrees
  /\ HistoryBounded
  /\ HistoryEndsWithStreak
  /\ SoleEventsChain
  /\ EventsBalance

LEMMA InitHealthInv == Init => HealthInv
<1> SUFFICES ASSUME Init
             PROVE  HealthInv
  OBVIOUS
<1>1. TypeOK
  BY InitType
<1>2. StoreConsistent
  <2>1. EntryFollowsStreak
    BY DEF Init, EntryFollowsStreak, FollowsStreak
  <2>2. StatusIsAggregate
    <3> SUFFICES ASSUME NEW s \in Service
                 PROVE  status[s] = Aggregate(ustatus, s)
      BY DEF StatusIsAggregate
    <3>1. PICK u \in UpstreamsOf(s) : TRUE
      BY HealthAssumption
    <3>2. {ustatus[w] : w \in UpstreamsOf(s)} = {"Unknown"}
      BY <3>1 DEF Init, UpstreamsOf
    <3> QED
      BY <3>2 DEF Init, Aggregate
  <2> QED
    BY <2>1, <2>2 DEF StoreConsistent
<1>3. ShadowUnknown /\ LastCheckAgrees
  BY DEF Init, ShadowUnknown, LastCheckAgrees
<1>4. SoleEventsChain
  BY HealthAssumption DEF Init, SoleEventsChain
<1>5. EventsBalance
  <2> SUFFICES ASSUME NEW s \in Service, NEW st \in Status
               PROVE  flow[s][st] + Unsent(s, 2, st) - Unsent(s, 1, st)
                        = One(status[s] = st) - One(st = "Unknown")
    BY DEF EventsBalance
  <2>1. UnsentBy(s, 1, st) = {} /\ UnsentBy(s, 2, st) = {}
    BY DEF Init, UnsentBy, UpstreamsOf
  <2>2. Unsent(s, 1, st) = 0 /\ Unsent(s, 2, st) = 0
    BY <2>1, FS_EmptySet DEF Unsent
  <2> QED
    BY <2>2 DEF Init, One
<1>6. HistoryBounded /\ HistoryEndsWithStreak
  BY HealthAssumption DEF Init, HistoryBounded, HistoryEndsWithStreak
<1> QED
  BY <1>1, <1>2, <1>3, <1>4, <1>5, <1>6 DEF HealthInv

LEMMA StepHealthInv == HealthInv /\ [Next]_vars => HealthInv'
BY StepType, StoreStep, HistoryStep, BoundedStep, StreakStep, ChainStep, BalanceStep DEF HealthInv

LEMMA HealthInvariant == Spec => []HealthInv
BY InitHealthInv, StepHealthInv, PTL DEF Spec

\* Entries follow the streaks of failed checks and every status is the aggregate of
\* its entries, in every run and for every number of upstreams.
THEOREM HealthStoreConsistent == Spec => []StoreConsistent
<1>1. HealthInv => StoreConsistent
  BY DEF HealthInv
<1> QED
  BY <1>1, HealthInvariant, PTL

\* The last check in the history of a service is on the side of its status.
THEOREM HealthLastCheckAgrees == Spec => []LastCheckAgrees
<1>1. HealthInv => LastCheckAgrees
  BY DEF HealthInv
<1> QED
  BY <1>1, HealthInvariant, PTL

\* The history of a service with a single upstream ends with the streak of its
\* failures, or with as much of the streak as MAX_HEALTH_RECORDS allows.
THEOREM HealthHistoryEndsWithStreak == Spec => []HistoryEndsWithStreak
<1>1. HealthInv => HistoryEndsWithStreak
  BY DEF HealthInv
<1> QED
  BY <1>1, HealthInvariant, PTL

\* No status change is lost, invented or broadcast twice.
THEOREM HealthEventsBalance == Spec => []EventsBalance
<1>1. HealthInv => EventsBalance
  BY DEF HealthInv
<1> QED
  BY <1>1, HealthInvariant, PTL

\* The events of a service with a single upstream form a chain.
THEOREM HealthSoleEventsChain == Spec => []SoleEventsChain
<1>1. HealthInv => SoleEventsChain
  BY DEF HealthInv
<1> QED
  BY <1>1, HealthInvariant, PTL

\* A service that lists an address twice is never Healthy nor Failed.
THEOREM HealthRepeatedAddress == Spec => []RepeatedAddressUndecided
<1>1. HealthInv => RepeatedAddressUndecided
  <2> SUFFICES ASSUME HealthInv, NEW u \in Upstream, SlotOf(u) # u
               PROVE  status[ServiceOf[u]] \in {"Unknown", "Degraded"}
    BY DEF RepeatedAddressUndecided
  <2>1. /\ ustatus[u] = "Unknown" /\ ServiceOf[u] \in Service
        /\ ustatus \in [Upstream -> Status] /\ u \in UpstreamsOf(ServiceOf[u])
        /\ status[ServiceOf[u]] = Aggregate(ustatus, ServiceOf[u])
    BY HealthAssumption
       DEF HealthInv, ShadowUnknown, StoreConsistent, StatusIsAggregate, TypeOK, UpstreamsOf
  <2>2. status[ServiceOf[u]] \notin {"Healthy", "Failed"}
    BY <2>1, AggregateMeaning
  <2>3. status[ServiceOf[u]] \in Status
    BY <2>1, AggregateMeaning
  <2> QED
    BY <2>2, <2>3 DEF Status
<1> QED
  BY <1>1, HealthInvariant, PTL

LEMMA StepLegal ==
  ASSUME HealthInv, [Next]_vars, NEW s \in Service
  PROVE  /\ status[s] \in {"Healthy", "Failed"} => status'[s] # "Unknown"
         /\ {status[s], status'[s]} = {"Healthy", "Failed"} =>
              \E u \in Upstream : UpstreamsOf(s) = {u}
<1>1. CASE \E u \in Upstream : Record(u) /\ s = ServiceOf[u]
  <2>1. PICK u \in Upstream : Record(u) /\ s = ServiceOf[u]
    BY <1>1
  <2> DEFINE v == SlotOf(u)
  <2>2. /\ TypeOK /\ TypeOK'
        /\ status[s] = Aggregate(ustatus, s) /\ status'[s] = Aggregate(ustatus', s)
        /\ ustatus \in [Upstream -> Status] /\ ustatus' \in [Upstream -> Status]
    BY <2>1, RecordStatus, StepType DEF HealthInv, StoreConsistent, StatusIsAggregate, TypeOK
  <2>3. v \in Upstream /\ v \in UpstreamsOf(s)
    BY <2>1, SlotExists DEF UpstreamsOf
  <2>4. /\ ustatus'[v] # "Unknown"
        /\ \A w \in UpstreamsOf(s) : w # v => ustatus'[w] = ustatus[w]
    <3>1. ustatus'[v] # "Unknown"
      BY <2>1, <2>2, RecordEntries
    <3>2. ASSUME NEW w \in UpstreamsOf(s), w # v
          PROVE  ustatus'[w] = ustatus[w]
      BY <2>1, <2>2, <3>2, RecordEntries DEF UpstreamsOf
    <3> QED
      BY <3>1, <3>2
  <2>5. status[s] \in {"Healthy", "Failed"} => status'[s] # "Unknown"
    BY <2>2, <2>4, AggregateMeaning
  <2>6. ASSUME {status[s], status'[s]} = {"Healthy", "Failed"}
        PROVE  UpstreamsOf(s) = {v}
    <3>1. \/ status[s] = "Healthy" /\ status'[s] = "Failed"
          \/ status[s] = "Failed" /\ status'[s] = "Healthy"
      BY <2>6
    <3>2. \A w \in UpstreamsOf(s) : ustatus[w] # ustatus'[w]
      BY <2>2, <3>1, AggregateMeaning
    <3> QED
      BY <2>3, <2>4, <3>2
  <2> QED
    BY <2>3, <2>5, <2>6
<1>2. CASE status'[s] = status[s]
  BY <1>2
<1>3. \/ \E u \in Upstream : Record(u) /\ s = ServiceOf[u]
      \/ status'[s] = status[s]
  <2>1. \/ \E u \in Upstream : Record(u)
        \/ status' = status
    BY DEF Next, CheckStep, Tick, Inspect, Probe, Broadcast, Stop, WorldChange, Shutdown, vars, store
  <2>2. TypeOK
    BY DEF HealthInv
  <2> QED
    BY <2>1, <2>2, RecordStatus
<1> QED
  BY <1>1, <1>2, <1>3

-----------------------------------------------------------------------------
(* What the modules of the recovery and the alert engine assume of the     *)
(* health engine: the changes of status that RecoveryEngine!StatusChange   *)
(* makes, and the feed of changes that AlertEngine builds on.              *)

Change(old, new) == new \in Status \ {old} /\ (new = "Unknown" => old = "Degraded")

\* A write to the store, as the recovery engine's polls see it.
WritesChange(s) ==
  \E new \in Status : Change(status[s], new) /\ status' = [status EXCEPT ![s] = new]

LEMMA RecordWrites ==
  ASSUME HealthInv, NEW u \in Upstream, Record(u),
         status'[ServiceOf[u]] # status[ServiceOf[u]]
  PROVE  /\ Change(status[ServiceOf[u]], status'[ServiceOf[u]])
         /\ status' = [status EXCEPT ![ServiceOf[u]] = status'[ServiceOf[u]]]
<1> DEFINE s == ServiceOf[u]
<1>1. s \in Service /\ TypeOK
  BY HealthAssumption DEF HealthInv
<1>2. [Next]_vars
  BY DEF Next, CheckStep
<1>3. status \in [Service -> Status] /\ status' \in [Service -> Status]
  BY <1>1, <1>2, StepType DEF TypeOK
<1>4. status'[s] = "Unknown" => status[s] = "Degraded"
  BY <1>1, <1>2, <1>3, StepLegal DEF Status
<1>5. status' = [status EXCEPT ![s] = status'[s]]
  BY <1>1, <1>3 DEF Record
<1> QED BY <1>1, <1>3, <1>4, <1>5 DEF Change

\* The health engine changes the status of one service at a time, and only as the
\* environment of RecoveryEngine does.
THEOREM HealthWritesChanges == Spec => [][\E s \in Service : WritesChange(s)]_status
<1>1. HealthInv /\ [Next]_vars => [\E s \in Service : WritesChange(s)]_status
  <2> SUFFICES ASSUME HealthInv, [Next]_vars, status' # status
               PROVE  \E s \in Service : WritesChange(s)
    OBVIOUS
  <2>1. PICK u \in Upstream : Record(u)
    BY DEF Next, CheckStep, Tick, Inspect, Probe, Broadcast, Stop, WorldChange, Shutdown, vars, store
  <2> DEFINE s == ServiceOf[u]
  <2>2. s \in Service /\ TypeOK /\ TypeOK'
    BY HealthAssumption, StepType DEF HealthInv
  <2>3. status'[s] # status[s]
    <3>1. \A t \in Service : t # s => status'[t] = status[t]
      BY <2>1, <2>2, RecordStatus
    <3>2. status \in [Service -> Status] /\ status' \in [Service -> Status]
      BY <2>2 DEF TypeOK
    <3> QED BY <3>1, <3>2
  <2>4. /\ Change(status[s], status'[s])
        /\ status' = [status EXCEPT ![s] = status'[s]]
    BY <2>1, <2>3, RecordWrites
  <2>5. status'[s] \in Status
    BY <2>4 DEF Change
  <2> QED BY <2>2, <2>4, <2>5 DEF WritesChange
<1> QED BY <1>1, HealthInvariant, PTL DEF Spec

\* No entry of the service of u is written by two tasks.
Distinct(u) == \A v \in UpstreamsOf(ServiceOf[u]) : SlotOf(v) = v

\* The change a task has still to send was decided by the last check of its upstream,
\* and that check is still what the entry of the upstream says.
EventsTell ==
  \A u \in Upstream : task[u] = "sending" /\ Distinct(u) =>
    /\ ustatus[u] = "Failed" => event[u][2] \in {"Degraded", "Failed"}
    /\ ustatus[u] = "Healthy" => event[u][2] # "Failed"

LEMMA EventsTellStep ==
  ASSUME HealthInv, EventsTell, [Next]_vars
  PROVE  EventsTell'
<1> SUFFICES ASSUME NEW w \in Upstream, task'[w] = "sending", Distinct(w)
             PROVE  /\ ustatus'[w] = "Failed" => event'[w][2] \in {"Degraded", "Failed"}
                    /\ ustatus'[w] = "Healthy" => event'[w][2] # "Failed"
  BY DEF EventsTell, Distinct
<1>0. /\ TypeOK /\ TypeOK' /\ w \in UpstreamsOf(ServiceOf[w]) /\ ServiceOf[w] \in Service
      /\ task[w] = "sending" =>
           /\ ustatus[w] = "Failed" => event[w][2] \in {"Degraded", "Failed"}
           /\ ustatus[w] = "Healthy" => event[w][2] # "Failed"
  BY HealthAssumption, StepType DEF HealthInv, EventsTell, UpstreamsOf
<1>1. CASE Record(w)
  <2> DEFINE s == ServiceOf[w]
  <2>1. status'[s] # status[s]
    BY <1>0, <1>1, RecordEvent DEF TypeOK
  <2>2. event'[w][2] = status'[s]
    BY <1>0, <1>1, <2>1, RecordEvent DEF TypeOK
  <2>3. status'[s] = Aggregate(ustatus', s) /\ ustatus' \in [Upstream -> Status]
    BY <1>0, <1>1, RecordStatus DEF TypeOK
  <2> QED BY <1>0, <2>2, <2>3, AggregateMeaning
<1>2. ASSUME NEW u \in Upstream, Record(u), u # w
      PROVE  UNCHANGED <<task[w], event[w], ustatus[w]>>
  <2>1. SlotOf(u) # w
    <3>1. CASE ServiceOf[u] = ServiceOf[w]
      BY <1>2, <3>1 DEF Distinct, UpstreamsOf
    <3>2. CASE ServiceOf[u] # ServiceOf[w]
      BY <3>2, SlotExists
    <3> QED BY <3>1, <3>2
  <2>2. ustatus'[w] = ustatus[w]
    BY <1>0, <1>2, <2>1, RecordEntries
  <2>3. task'[w] = task[w] /\ event'[w] = event[w]
    BY <1>0, <1>2, RecordEvent
  <2> QED BY <2>2, <2>3
<1>3. ASSUME NEW u \in Upstream,
             Broadcast(u) \/ Tick(u) \/ Inspect(u) \/ Probe(u) \/ Stop(u)
      PROVE  UNCHANGED <<task[w], event[w], ustatus[w]>>
  <2>1. u # w
    BY <1>0, <1>3 DEF Broadcast, Tick, Inspect, Probe, Stop, TypeOK
  <2> QED BY <1>0, <1>3, <2>1 DEF Broadcast, Tick, Inspect, Probe, Stop, TypeOK, store
<1>4. \/ \E u \in Upstream : Record(u)
      \/ \E u \in Upstream : Broadcast(u) \/ Tick(u) \/ Inspect(u) \/ Probe(u) \/ Stop(u)
      \/ UNCHANGED <<task, event, ustatus>>
  BY DEF Next, CheckStep, WorldChange, Shutdown, vars, store
<1> QED BY <1>0, <1>1, <1>2, <1>3, <1>4

\* The changes still to be sent, as StatusFeed has them.
Unsents == [u \in Upstream |-> IF task[u] = "sending" THEN event[u][2] ELSE "none"]

\* What a check can make of its service's status.
LEMMA RecordFeasible ==
  ASSUME HealthInv, HealthInv', EventsTell, NEW u \in Upstream, Record(u),
         status'[ServiceOf[u]] # status[ServiceOf[u]]
  PROVE  Feed!Feasible(u, status'[ServiceOf[u]])
<1> DEFINE s == ServiceOf[u]
           old == status[s]
           new == status'[s]
<1>1. /\ s \in Service /\ u \in UpstreamsOf(s) /\ TypeOK /\ [Next]_vars
      /\ old = Aggregate(ustatus, s) /\ new = Aggregate(ustatus', s)
      /\ ustatus \in [Upstream -> Status] /\ ustatus' \in [Upstream -> Status]
  BY HealthAssumption
     DEF HealthInv, StoreConsistent, StatusIsAggregate, TypeOK, UpstreamsOf, Next, CheckStep
<1>2. Feed!Siblings(u) = UpstreamsOf(s) \ {u}
  BY DEF Feed!Siblings, UpstreamsOf
<1>3. new = "Unknown" => old = "Degraded" /\ Feed!Siblings(u) # {}
  <2> SUFFICES ASSUME new = "Unknown" PROVE old = "Degraded" /\ Feed!Siblings(u) # {}
    OBVIOUS
  <2>1. old = "Degraded"
    BY <1>1, RecordWrites DEF Change
  <2>2. PICK w \in UpstreamsOf(s) : ustatus'[w] = "Unknown"
    BY <1>1, AggregateMeaning
  <2>3. SlotOf(u) \in UpstreamsOf(s) /\ ustatus'[SlotOf(u)] # "Unknown"
    BY <1>1, RecordEntries, SlotExists DEF UpstreamsOf
  <2> QED BY <1>2, <2>1, <2>2, <2>3
<1>4. Feed!Siblings(u) # {} /\ "Failed" \in {old, new} => "Degraded" \in {old, new}
  <2> SUFFICES ASSUME Feed!Siblings(u) # {}, "Failed" \in {old, new}
               PROVE  "Degraded" \in {old, new}
    OBVIOUS
  <2>1. PICK w \in UpstreamsOf(s) : w # SlotOf(u)
    BY <1>1, <1>2, SlotExists DEF UpstreamsOf
  <2>2. w \in Upstream /\ ustatus'[w] = ustatus[w]
    BY <1>1, <2>1, RecordEntries DEF UpstreamsOf
  <2>3. ustatus[w] = "Failed"
    BY <1>1, <2>1, <2>2, AggregateMeaning
  <2>4. old \in {"Degraded", "Failed"} /\ new \in {"Degraded", "Failed"}
    BY <1>1, <2>1, <2>2, <2>3, AggregateMeaning
  <2> QED BY <2>4
\* A service that is Failed or Healthy has no entry two tasks write.
<1>5. new \in {"Failed", "Healthy"} =>
        \A v \in UpstreamsOf(s) : ustatus'[v] = new /\ SlotOf(v) = v
  <2> SUFFICES ASSUME new \in {"Failed", "Healthy"}, NEW v \in UpstreamsOf(s)
               PROVE  ustatus'[v] = new /\ SlotOf(v) = v
    OBVIOUS
  <2>1. ustatus'[v] = new
    BY <1>1, AggregateMeaning
  <2>2. v \in Upstream
    BY DEF UpstreamsOf
  <2> QED BY <2>1, <2>2 DEF HealthInv, ShadowUnknown
<1>6. ASSUME NEW v \in Feed!Siblings(u), Unsents[v] # "none"
      PROVE  /\ new = "Failed" => Unsents[v] \in {"Degraded", "Failed"}
             /\ new = "Healthy" => Unsents[v] # "Failed"
  <2>1. /\ v \in Upstream /\ v \in UpstreamsOf(s) /\ v # u /\ ServiceOf[v] = s
        /\ task[v] = "sending" /\ Unsents[v] = event[v][2]
    BY <1>2, <1>6 DEF Unsents, UpstreamsOf
  <2>2. SUFFICES ASSUME new \in {"Failed", "Healthy"}
                 PROVE  /\ ustatus[v] = new
                        /\ Distinct(v)
    BY <2>1 DEF EventsTell
  <2>3. Distinct(v) /\ ustatus'[v] = new
    BY <1>5, <2>1, <2>2 DEF Distinct
  <2>4. ustatus'[v] = ustatus[v]
    <3>1. SlotOf(u) = u
      BY <1>1, <1>5, <2>2
    <3>2. TypeOK /\ Record(u) /\ v # SlotOf(u)
      BY <1>1, <2>1, <3>1
    <3> QED BY <2>1, <3>2, RecordEntries
  <2> QED BY <2>3, <2>4
<1> QED
  BY <1>3, <1>4, <1>6 DEF Feed!Feasible, Feed!NoChange, Feed!Failure, Unsents

LEMMA FeedStep ==
  ASSUME HealthInv, HealthInv', EventsTell, [Next]_vars
  PROVE  [Feed!FeedNext]_<<status, Unsents>>
<1>0. TypeOK /\ TypeOK'
  BY DEF HealthInv
<1>1. ASSUME NEW u \in Upstream, Record(u)
      PROVE  [Feed!FeedNext]_<<status, Unsents>>
  <2> DEFINE s == ServiceOf[u]
  <2>1. s \in Service /\ task[u] # "sending" /\ task[u] \in {"passed", "failed"}
    BY <1>1, HealthAssumption DEF Record
  <2>2. CASE status'[s] # status[s]
    <3>1. /\ Change(status[s], status'[s])
          /\ status' = [status EXCEPT ![s] = status'[s]]
      BY <1>1, <2>2, RecordWrites
    <3>2. Unsents' = [Unsents EXCEPT ![u] = status'[s]]
      <4>1. task'[u] = "sending" /\ event'[u][2] = status'[s]
        BY <1>0, <1>1, <2>2, RecordEvent DEF TypeOK
      <4>2. \A w \in Upstream : w # u => task'[w] = task[w] /\ event'[w] = event[w]
        BY <1>0, <1>1, RecordEvent
      <4> QED BY <4>1, <4>2 DEF Unsents
    <3>3. Unsents[u] = "none"
      BY <2>1 DEF Unsents
    <3>4. Feed!Feasible(u, status'[s])
      BY <1>1, <2>2, RecordFeasible
    <3>5. status'[s] \in Feed!Status \ {status[s]}
      BY <3>1 DEF Change, Status, Feed!Status
    <3>6. Feed!ChangeStatus(u)
      BY <3>1, <3>2, <3>3, <3>4, <3>5 DEF Feed!ChangeStatus, Feed!NoChange, Unsents
    <3> QED BY <3>6 DEF Feed!FeedNext
  <2>3. CASE status'[s] = status[s]
    <3>1. status' = status
      <4>1. \A x \in Service : status'[x] = status[x]
        BY <1>0, <1>1, <2>3, RecordStatus
      <4> QED BY <1>0, <4>1 DEF TypeOK
    <3>2. \A w \in Upstream : (task'[w] = "sending" <=> task[w] = "sending")
                              /\ event'[w] = event[w]
      <4>1. task'[u] # "sending" /\ event'[u] = event[u]
        BY <1>0, <1>1, <2>3, RecordEvent DEF TypeOK
      <4>2. \A w \in Upstream : w # u => task'[w] = task[w] /\ event'[w] = event[w]
        BY <1>0, <1>1, RecordEvent
      <4> QED BY <2>1, <4>1, <4>2
    <3> QED BY <3>1, <3>2 DEF Unsents
  <2> QED BY <2>2, <2>3
<1>2. ASSUME NEW u \in Upstream, Broadcast(u)
      PROVE  [Feed!FeedNext]_<<status, Unsents>>
  <2>1. task[u] = "sending" /\ event[u][2] \in Status /\ status' = status
    BY <1>0, <1>2 DEF Broadcast, TypeOK, store
  <2>2. Unsents[u] # "none"
    BY <2>1 DEF Unsents, Status
  <2>3. Unsents' = [Unsents EXCEPT ![u] = "none"]
    <3>1. task'[u] = "waiting"
      BY <1>0, <1>2 DEF Broadcast, TypeOK
    <3>2. \A w \in Upstream : w # u => task'[w] = task[w] /\ event'[w] = event[w]
      BY <1>0, <1>2 DEF Broadcast, TypeOK
    <3> QED BY <3>1, <3>2 DEF Unsents
  <2>4. Feed!TakeChange(u)
    BY <2>1, <2>2, <2>3 DEF Feed!TakeChange, Feed!NoChange, Unsents
  <2> QED BY <2>4 DEF Feed!FeedNext
<1>3. ASSUME NEW u \in Upstream, Tick(u) \/ Inspect(u) \/ Probe(u) \/ Stop(u)
      PROVE  UNCHANGED <<status, Unsents>>
  <2>1. UNCHANGED <<status, event>>
    BY <1>3 DEF Tick, Inspect, Probe, Stop, store
  <2>2. \A w \in Upstream : task'[w] = "sending" <=> task[w] = "sending"
    BY <1>0, <1>3 DEF Tick, Inspect, Probe, Stop, TypeOK
  <2> QED BY <2>1, <2>2 DEF Unsents
<1>4. CASE UNCHANGED <<status, task, event>>
  BY <1>4 DEF Unsents
<1>5. \/ \E u \in Upstream : Record(u)
      \/ \E u \in Upstream : Broadcast(u)
      \/ \E u \in Upstream : Tick(u) \/ Inspect(u) \/ Probe(u) \/ Stop(u)
      \/ UNCHANGED <<status, task, event>>
  BY DEF Next, CheckStep, WorldChange, Shutdown, vars, store
<1> QED BY <1>1, <1>2, <1>3, <1>4, <1>5

\* For every number of services and upstreams, and whatever addresses they repeat, the
\* health engine writes and sends as StatusFeed has it: every change of status is sent
\* once, by the task that made it, and a service turns Failed or Healthy only over such
\* unsent changes of its siblings as their last checks allow.
THEOREM HealthImplementsFeed == Spec => ImplementsFeed
<1>1. Init => EventsTell /\ Feed!FeedInit
  <2> SUFFICES ASSUME Init PROVE EventsTell /\ Feed!FeedInit
    OBVIOUS
  <2>1. \A u \in Upstream : task[u] # "sending"
    BY DEF Init
  <2> QED BY <2>1 DEF Init, EventsTell, Feed!FeedInit, Feed!NoChange
<1>2. HealthInv /\ EventsTell /\ [Next]_vars => EventsTell'
  BY EventsTellStep
<1>3. HealthInv /\ HealthInv' /\ EventsTell /\ [Next]_vars =>
        [Feed!FeedNext]_<<status, Unsents>>
  BY FeedStep
<1>4. Spec => []EventsTell
  BY <1>1, <1>2, HealthInvariant, PTL DEF Spec
<1> QED
  BY <1>1, <1>3, <1>4, HealthInvariant, PTL DEF Spec, ImplementsFeed, Feed!FeedSpec, Unsents
=============================================================================
