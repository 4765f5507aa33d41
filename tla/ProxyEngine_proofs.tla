------------------------- MODULE ProxyEngine_proofs -------------------------
(***************************************************************************)
(* What the proxy engine keeps to for every number of clients, of permits  *)
(* and of upstreams, and every size of the round-robin counter: permits    *)
(* are never lost nor returned twice, a connection goes to an upstream     *)
(* that was Healthy since it came in, and the turns are shared out evenly. *)
(***************************************************************************)
EXTENDS ProxyEngine, FiniteSetTheorems, TLAPS

\* What a handler task has read is not empty and was Healthy when it was read; until
\* it reads, what is Healthy now counts.
Offer(c) ==
  /\ conn[c] = "reading" => healthy \subseteq was_healthy[c]
  /\ conn[c] = "picking" =>
       /\ offered[c] # {}
       /\ offered[c] \subseteq was_healthy[c] \cap UpstreamsOf(to[c])

ProxyInv ==
  /\ TypeOK
  /\ PermitsAccounted
  /\ \A c \in Conn : Offer(c)

-----------------------------------------------------------------------------
(* The operators.                                                          *)

LEMMA SizesType ==
  /\ NumUpstreams \in Nat /\ MaxConnections \in Nat
  /\ CounterSize \in Nat /\ CounterSize > 0
  /\ IsFiniteSet(Conn)
BY ProxyAssumption

\* How many members of the set come before u.
Rank(S, u) == Cardinality({v \in S : v < u})

\* The ranks of a set's members are as many different numbers, from 0 on.
LEMMA Ranks ==
  ASSUME NEW S \in SUBSET Upstream
  PROVE  /\ Cardinality(S) \in Nat
         /\ \A u \in S : Rank(S, u) \in 0 .. Cardinality(S) - 1
         /\ \A u, w \in S : Rank(S, u) = Rank(S, w) => u = w
         /\ \A idx \in 0 .. Cardinality(S) - 1 : \E u \in S : Rank(S, u) = idx
<1> DEFINE Below(u) == {v \in S : v < u}
           n == Cardinality(S)
           rank == [u \in S |-> Cardinality(Below(u))]
<1>0. \A u \in S : u \in Int
  BY SizesType DEF Upstream
<1>1. IsFiniteSet(S) /\ n \in Nat
  <2>1. IsFiniteSet(Upstream)
    BY SizesType, FS_Interval DEF Upstream
  <2>2. IsFiniteSet(S)
    BY <2>1, FS_Subset
  <2> QED BY <2>2, FS_CardinalityType
<1>2. ASSUME NEW u \in S
      PROVE  IsFiniteSet(Below(u)) /\ Cardinality(Below(u)) \in 0 .. n - 1
  <2>1. Below(u) \in SUBSET (S \ {u})
    BY <1>0
  <2>2. IsFiniteSet(S \ {u})
    BY <1>1, FS_RemoveElement
  <2>3. Cardinality(S \ {u}) = n - 1
    BY <1>1, FS_RemoveElement
  <2>4. IsFiniteSet(Below(u)) /\ Cardinality(Below(u)) <= Cardinality(S \ {u})
    <3> HIDE DEF Below, n
    <3> QED BY <2>1, <2>2, FS_Subset
  <2>5. Cardinality(Below(u)) \in Nat
    <3> HIDE DEF Below, n
    <3> QED BY <2>4, FS_CardinalityType
  <2> HIDE DEF Below, n
  <2> QED BY <1>1, <2>3, <2>4, <2>5
<1>3. ASSUME NEW u \in S, NEW w \in S, u < w
      PROVE  Cardinality(Below(u)) # Cardinality(Below(w))
  <2>1. Below(u) \in SUBSET Below(w) /\ u \in Below(w) /\ u \notin Below(u)
    BY <1>0, <1>3
  <2>2. IsFiniteSet(Below(w))
    BY <1>2
  <2> HIDE DEF Below
  <2> QED BY <2>1, <2>2, FS_Subset
<1>4. rank \in Injection(S, 0 .. n - 1)
  <2> HIDE DEF Below, n
  <2>1. rank \in [S -> 0 .. n - 1]
    BY <1>2
  <2>2. ASSUME NEW u \in S, NEW w \in S, rank[u] = rank[w] PROVE u = w
    <3>1. u < w \/ w < u \/ u = w
      BY <1>0
    <3> QED BY <1>3, <2>2, <3>1
  <2>3. \A u \in S, w \in S : rank[u] = rank[w] => u = w
    BY <2>2
  <2> HIDE DEF rank
  <2> QED BY <2>1, <2>3 DEF Injection, IsInjective
<1>5. rank \in Surjection(S, 0 .. n - 1)
  <2>1. IsFiniteSet(0 .. n - 1) /\ Cardinality(0 .. n - 1) = n
    <3>1. n \in Nat /\ 0 \in Int /\ n - 1 \in Int
      BY <1>1
    <3> HIDE DEF n
    <3>2. /\ IsFiniteSet(0 .. n - 1)
          /\ Cardinality(0 .. n - 1) = IF 0 > n - 1 THEN 0 ELSE n - 1 - 0 + 1
      BY <3>1, FS_Interval
    <3> QED BY <3>1, <3>2
  <2>2. Cardinality(S) = n
    OBVIOUS
  <2> HIDE DEF rank, n
  <2>3. Cardinality(S) = Cardinality(0 .. n - 1) <=> rank \in Surjection(S, 0 .. n - 1)
    BY <1>4, <2>1, FS_Injection
  <2> QED BY <2>1, <2>2, <2>3
<1>6. ASSUME NEW idx \in 0 .. n - 1 PROVE \E u \in S : rank[u] = idx
  BY <1>5 DEF Surjection
<1>7. \A u \in S : Rank(S, u) = rank[u]
  BY DEF Rank
<1>8. \A u \in S, w \in S : rank[u] = rank[w] => u = w
  BY <1>4 DEF Injection, IsInjective
<1>9. \A u \in S : rank[u] \in 0 .. n - 1
  BY <1>4 DEF Injection
<1> HIDE DEF rank
<1> QED BY <1>1, <1>6, <1>7, <1>8, <1>9

\* Nth finds the member of that rank, and there is one for every index below the size
\* of the set.
LEMMA NthMember ==
  ASSUME NEW S \in SUBSET Upstream, NEW idx \in Nat, idx < Cardinality(S)
  PROVE  Nth(S, idx) \in S /\ Rank(S, Nth(S, idx)) = idx
<1>1. idx \in 0 .. Cardinality(S) - 1
  BY Ranks
<1>2. \E u \in S : Cardinality({v \in S : v < u}) = idx
  BY <1>1, Ranks DEF Rank
<1> QED BY <1>2 DEF Nth, Rank

LEMMA NthRank ==
  ASSUME NEW S \in SUBSET Upstream, NEW u \in S
  PROVE  Rank(S, u) \in 0 .. Cardinality(S) - 1 /\ Nth(S, Rank(S, u)) = u
<1>1. Rank(S, u) \in 0 .. Cardinality(S) - 1
  BY Ranks
<1>2. Rank(S, u) \in Nat /\ Rank(S, u) < Cardinality(S)
  BY <1>1, Ranks
<1> QED BY <1>1, <1>2, NthMember, Ranks

LEMMA LiveType ==
  ASSUME NEW s \in Service
  PROVE  IsFiniteSet(LiveConns(s)) /\ Cardinality(LiveConns(s)) \in Nat
BY SizesType, FS_Subset, FS_CardinalityType DEF LiveConns

LEMMA LiveTypePrime ==
  ASSUME NEW s \in Service
  PROVE  IsFiniteSet(LiveConns(s)') /\ Cardinality(LiveConns(s)') \in Nat
BY SizesType, FS_Subset, FS_CardinalityType DEF LiveConns

\* The turns stay a record of counts.
LEMMA TakenType ==
  ASSUME NEW t \in [over : SUBSET Upstream, had : [Upstream -> Nat]],
         NEW set \in SUBSET Upstream, NEW u \in Upstream
  PROVE  Taken(t, set, u) \in [over : SUBSET Upstream, had : [Upstream -> Nat]]
<1> DEFINE had == IF t.over = set THEN [t.had EXCEPT ![u] = @ + 1]
                  ELSE [NoTurns.had EXCEPT ![u] = 1]
           round == \A v \in set : had[v] > 0
           kept == [v \in Upstream |-> IF round /\ v \in set THEN had[v] - 1 ELSE had[v]]
<1>1. had \in [Upstream -> Nat]
  BY DEF NoTurns
<1> HIDE DEF had
<1>2. kept \in [Upstream -> Nat]
  BY <1>1
<1> HIDE DEF kept
<1>3. Taken(t, set, u) = [over |-> set, had |-> kept]
  BY DEF Taken, had, kept
<1> QED BY <1>2, <1>3

-----------------------------------------------------------------------------
(* Permits.                                                                *)

\* Accept moves a permit into a new task.
LEMMA AcceptPermits ==
  ASSUME ProxyInv, NEW c \in Conn, NEW s \in Service, Accept(c, s)
  PROVE  PermitsAccounted' /\ permits' \in [Service -> 0 .. MaxConnections]
<1>1. /\ conn[c] = "none" /\ permits[s] > 0
      /\ permits' = [permits EXCEPT ![s] = permits[s] - 1]
      /\ conn' = [conn EXCEPT ![c] = "reading"]
      /\ to' = [to EXCEPT ![c] = s]
  BY DEF Accept
<1>2. permits \in [Service -> 0 .. MaxConnections] /\ conn \in [Conn -> {"none", "reading",
        "picking", "connecting", "open"}] /\ to \in [Conn -> Service \cup {NoService}]
  BY DEF ProxyInv, TypeOK
<1>3. ASSUME NEW t \in Service
      PROVE  permits'[t] + Cardinality(LiveConns(t)') = MaxConnections
  <2>1. permits[t] + Cardinality(LiveConns(t)) = MaxConnections
    BY DEF ProxyInv, PermitsAccounted
  <2>2. CASE t = s
    <3>1. LiveConns(t)' = LiveConns(t) \cup {c} /\ c \notin LiveConns(t)
      BY <1>1, <1>2, <2>2 DEF LiveConns
    <3>2. Cardinality(LiveConns(t)') = Cardinality(LiveConns(t)) + 1
      BY <3>1, LiveType, FS_AddElement
    <3> QED BY <1>1, <1>2, <2>1, <2>2, <3>2, LiveType, SizesType
  <2>3. CASE t # s
    <3>1. LiveConns(t)' = LiveConns(t)
      BY <1>1, <1>2, <2>3 DEF LiveConns
    <3> QED BY <1>1, <1>2, <2>1, <2>3, <3>1
  <2> QED BY <2>2, <2>3
<1>4. permits' \in [Service -> 0 .. MaxConnections]
  BY <1>1, <1>2, SizesType
<1> QED BY <1>3, <1>4 DEF PermitsAccounted

\* The end of a task gives its permit back to its own listener.
LEMMA EndPermits ==
  ASSUME ProxyInv, NEW c \in Conn, conn[c] # "none", End(c)
  PROVE  PermitsAccounted' /\ permits' \in [Service -> 0 .. MaxConnections]
<1> DEFINE s == to[c]
<1>1. /\ permits' = [permits EXCEPT ![s] = permits[s] + 1]
      /\ conn' = [conn EXCEPT ![c] = "none"]
      /\ to' = [to EXCEPT ![c] = NoService]
  BY DEF End
<1>2. permits \in [Service -> 0 .. MaxConnections] /\ conn \in [Conn -> {"none", "reading",
        "picking", "connecting", "open"}] /\ to \in [Conn -> Service \cup {NoService}]
  BY DEF ProxyInv, TypeOK
<1>3. s \in Service
  BY DEF ProxyInv, TypeOK
<1>4. ASSUME NEW t \in Service
      PROVE  /\ permits'[t] + Cardinality(LiveConns(t)') = MaxConnections
             /\ permits'[t] \in 0 .. MaxConnections
  <2>1. permits[t] + Cardinality(LiveConns(t)) = MaxConnections
    BY DEF ProxyInv, PermitsAccounted
  <2>2. CASE t = s
    <3>1. LiveConns(t)' = LiveConns(t) \ {c} /\ c \in LiveConns(t)
      BY <1>1, <1>2, <2>2, ProxyAssumption DEF LiveConns
    <3>2. Cardinality(LiveConns(t)') = Cardinality(LiveConns(t)) - 1
      BY <3>1, LiveType, FS_RemoveElement
    <3> HIDE DEF s
    <3> QED BY <1>1, <1>2, <1>3, <2>1, <2>2, <3>2, LiveType, LiveTypePrime, SizesType
  <2>3. CASE t # s
    <3>1. LiveConns(t)' = LiveConns(t)
      BY <1>1, <1>2, <2>3, ProxyAssumption DEF LiveConns
    <3> QED BY <1>1, <1>2, <2>1, <2>3, <3>1
  <2> QED BY <2>2, <2>3
<1>5. permits' \in [Service -> 0 .. MaxConnections]
  BY <1>1, <1>2, <1>4
<1> QED BY <1>4, <1>5 DEF PermitsAccounted

\* A step that leaves permits and tasks alone, or moves a task on.
LEMMA SamePermits ==
  ASSUME ProxyInv, UNCHANGED <<permits, to>>,
         \A c \in Conn : conn'[c] = "none" <=> conn[c] = "none"
  PROVE  PermitsAccounted'
<1>1. \A s \in Service : LiveConns(s)' = LiveConns(s)
  BY DEF LiveConns
<1> QED BY <1>1 DEF ProxyInv, PermitsAccounted

-----------------------------------------------------------------------------
(* The invariant.                                                          *)

LEMMA ProxyInit == Init => ProxyInv
<1> SUFFICES ASSUME Init PROVE ProxyInv
  OBVIOUS
<1>1. TypeOK
  <2>1. permits \in [Service -> 0 .. MaxConnections] /\ rr_counter \in [Service -> 0 .. CounterSize - 1]
    BY SizesType DEF Init
  <2>2. turns \in [Service -> [over : SUBSET Upstream, had : [Upstream -> Nat]]]
    BY DEF Init, NoTurns
  <2> QED BY <2>1, <2>2 DEF Init, TypeOK
<1>2. PermitsAccounted
  <2>1. \A s \in Service : LiveConns(s) = {}
    BY DEF Init, LiveConns
  <2> QED BY <2>1, FS_EmptySet, SizesType DEF Init, PermitsAccounted
<1>3. \A c \in Conn : Offer(c)
  BY DEF Init, Offer
<1> QED BY <1>1, <1>2, <1>3 DEF ProxyInv

LEMMA AcceptStep ==
  ASSUME ProxyInv, NEW c \in Conn, NEW s \in Service, Accept(c, s)
  PROVE  ProxyInv'
<1>1. PermitsAccounted' /\ permits' \in [Service -> 0 .. MaxConnections]
  BY AcceptPermits
<1>2. TypeOK'
  BY <1>1, ProxyAssumption DEF Accept, ProxyInv, TypeOK
<1>3. ASSUME NEW d \in Conn PROVE Offer(d)'
  BY DEF Accept, ProxyInv, TypeOK, Offer
<1> QED BY <1>1, <1>2, <1>3 DEF ProxyInv

\* A task ends, on whatever path.
LEMMA EndStep ==
  ASSUME ProxyInv, NEW c \in Conn, conn[c] # "none", End(c),
         UNCHANGED <<healthy, listener, offered, rr_counter, cancelled, turns>>
  PROVE  ProxyInv'
<1>1. PermitsAccounted' /\ permits' \in [Service -> 0 .. MaxConnections]
  BY EndPermits
<1>2. TypeOK'
  BY <1>1 DEF End, ProxyInv, TypeOK
<1>3. ASSUME NEW d \in Conn PROVE Offer(d)'
  BY DEF End, ProxyInv, TypeOK, Offer
<1> QED BY <1>1, <1>2, <1>3 DEF ProxyInv

LEMMA ReadStep ==
  ASSUME ProxyInv, NEW c \in Conn, Read(c)
  PROVE  ProxyInv'
<1> DEFINE set == healthy \cap UpstreamsOf(to[c])
<1>1. CASE set = {}
  BY <1>1, EndStep DEF Read
<1>2. CASE set # {}
  <2>1. /\ conn[c] = "reading"
        /\ offered' = [offered EXCEPT ![c] = set]
        /\ conn' = [conn EXCEPT ![c] = "picking"]
        /\ UNCHANGED <<permits, to, upstream, was_healthy, healthy, listener, rr_counter,
                       cancelled, turns>>
    BY <1>2 DEF Read
  <2>2. set \subseteq Upstream
    BY DEF UpstreamsOf
  <2>3. TypeOK'
    BY <2>1, <2>2 DEF ProxyInv, TypeOK
  <2>4. PermitsAccounted'
    BY <2>1, SamePermits DEF ProxyInv, TypeOK
  <2>5. ASSUME NEW d \in Conn PROVE Offer(d)'
    <3>1. CASE d = c
      <4>1. offered'[c] = set /\ healthy \subseteq was_healthy[c] /\ conn'[c] = "picking"
        BY <2>1 DEF ProxyInv, TypeOK, Offer
      <4> QED BY <1>2, <2>1, <3>1, <4>1 DEF Offer, UpstreamsOf
    <3>2. CASE d # c
      BY <2>1, <3>2 DEF ProxyInv, TypeOK, Offer, UpstreamsOf
    <3> QED BY <3>1, <3>2
  <2> QED BY <2>3, <2>4, <2>5 DEF ProxyInv
<1> QED BY <1>1, <1>2

\* The turn a task takes: an upstream out of what it has read.
LEMMA PickChoice ==
  ASSUME ProxyInv, NEW c \in Conn, Pick(c)
  PROVE  /\ upstream' = [upstream EXCEPT ![c] = upstream'[c]]
         /\ upstream'[c] \in offered[c] /\ offered[c] \subseteq Upstream
         /\ upstream'[c] = Nth(offered[c], rr_counter[to[c]] % Cardinality(offered[c]))
         /\ to[c] \in Service
<1>1. /\ conn[c] = "picking" /\ to[c] \in Service /\ upstream \in [Conn -> Upstream \cup {NoUpstream}]
      /\ rr_counter[to[c]] \in Nat
      /\ offered[c] \in SUBSET Upstream /\ offered[c] # {}
  BY SizesType DEF Pick, ProxyInv, TypeOK, Offer
<1>2. IsFiniteSet(offered[c]) /\ Cardinality(offered[c]) \in Nat /\ Cardinality(offered[c]) > 0
  <2>1. IsFiniteSet(Upstream)
    BY SizesType, FS_Interval DEF Upstream
  <2> QED BY <1>1, <2>1, FS_Subset, FS_CardinalityType, FS_EmptySet
<1> DEFINE idx == rr_counter[to[c]] % Cardinality(offered[c])
<1>3. idx \in Nat /\ idx < Cardinality(offered[c])
  BY <1>1, <1>2
<1>4. upstream' = [upstream EXCEPT ![c] = Nth(offered[c], idx)]
  BY DEF Pick
<1> HIDE DEF idx
<1>5. Nth(offered[c], idx) \in offered[c]
  BY <1>1, <1>3, NthMember
<1> QED BY <1>1, <1>4, <1>5 DEF idx

LEMMA PickStep ==
  ASSUME ProxyInv, NEW c \in Conn, Pick(c)
  PROVE  ProxyInv'
<1> DEFINE s == to[c]
           next == (rr_counter[s] + 1) % CounterSize
<1>1. /\ conn[c] = "picking"
      /\ rr_counter' = [rr_counter EXCEPT ![s] = next]
      /\ turns' = [turns EXCEPT ![s] = IF next = 0 THEN NoTurns
                                       ELSE Taken(turns[s], offered[c], upstream'[c])]
      /\ conn' = [conn EXCEPT ![c] = "connecting"]
      /\ offered' = [offered EXCEPT ![c] = {}]
      /\ was_healthy' = [was_healthy EXCEPT ![c] = {}]
      /\ UNCHANGED <<healthy, listener, permits, to, cancelled>>
  BY PickChoice DEF Pick
<1>2. s \in Service /\ upstream'[c] \in Upstream /\ offered[c] \in SUBSET Upstream
  BY PickChoice
<1>3. rr_counter' \in [Service -> 0 .. CounterSize - 1]
  <2>1. rr_counter \in [Service -> 0 .. CounterSize - 1]
    BY DEF ProxyInv, TypeOK
  <2>2. next \in 0 .. CounterSize - 1
    BY <1>2, <2>1, SizesType
  <2> HIDE DEF next
  <2> QED BY <1>1, <2>1, <2>2
<1>4. turns' \in [Service -> [over : SUBSET Upstream, had : [Upstream -> Nat]]]
  <2>1. turns \in [Service -> [over : SUBSET Upstream, had : [Upstream -> Nat]]]
    BY DEF ProxyInv, TypeOK
  <2>2. NoTurns \in [over : SUBSET Upstream, had : [Upstream -> Nat]]
    BY DEF NoTurns
  <2>3. Taken(turns[s], offered[c], upstream'[c]) \in [over : SUBSET Upstream, had : [Upstream -> Nat]]
    BY <1>2, <2>1, TakenType
  <2> HIDE DEF next, s
  <2> QED BY <1>1, <2>1, <2>2, <2>3
<1>5. upstream' \in [Conn -> Upstream \cup {NoUpstream}]
  BY <1>2, PickChoice DEF ProxyInv, TypeOK
<1>6. TypeOK'
  BY <1>1, <1>3, <1>4, <1>5 DEF ProxyInv, TypeOK
<1>7. PermitsAccounted'
  BY <1>1, SamePermits DEF ProxyInv, TypeOK
<1>8. ASSUME NEW d \in Conn PROVE Offer(d)'
  <2>1. CASE d = c
    BY <1>1, <2>1 DEF ProxyInv, TypeOK, Offer
  <2>2. CASE d # c
    BY <1>1, <2>2 DEF ProxyInv, TypeOK, Offer, UpstreamsOf
  <2> QED BY <2>1, <2>2
<1> QED BY <1>6, <1>7, <1>8 DEF ProxyInv

LEMMA ConnectStep ==
  ASSUME ProxyInv, NEW c \in Conn, Connect(c)
  PROVE  ProxyInv'
<1>1. CASE End(c)
  BY <1>1, EndStep DEF Connect
<1>2. CASE /\ conn' = [conn EXCEPT ![c] = "open"]
           /\ UNCHANGED <<permits, to, upstream, was_healthy>>
  <2>1. conn[c] = "connecting" /\ UNCHANGED <<healthy, listener, offered, rr_counter, cancelled, turns>>
    BY DEF Connect
  <2>2. TypeOK'
    BY <1>2, <2>1 DEF ProxyInv, TypeOK
  <2>3. PermitsAccounted'
    BY <1>2, <2>1, SamePermits DEF ProxyInv, TypeOK
  <2>4. ASSUME NEW d \in Conn PROVE Offer(d)'
    BY <1>2, <2>1 DEF ProxyInv, TypeOK, Offer, UpstreamsOf
  <2> QED BY <2>2, <2>3, <2>4 DEF ProxyInv
<1> QED BY <1>1, <1>2 DEF Connect

LEMMA HealthStep ==
  ASSUME ProxyInv, NEW u \in Upstream, HealthChange(u)
  PROVE  ProxyInv'
<1>1. /\ UNCHANGED <<listener, permits, rr_counter, conn, to, offered, upstream, cancelled, turns>>
      /\ healthy' \subseteq Upstream
      /\ was_healthy' \in [Conn -> SUBSET Upstream]
  BY DEF HealthChange, task, ProxyInv, TypeOK
<1>2. \A c \in Conn : conn[c] \in {"reading", "picking"} =>
        /\ was_healthy[c] \subseteq was_healthy'[c]
        /\ healthy' \subseteq was_healthy'[c] \cup (healthy \ was_healthy[c])
  BY DEF HealthChange, ProxyInv, TypeOK
<1>3. TypeOK'
  BY <1>1 DEF ProxyInv, TypeOK
<1>4. PermitsAccounted'
  BY <1>1, SamePermits
<1>5. ASSUME NEW c \in Conn PROVE Offer(c)'
  <2>1. Offer(c)
    BY DEF ProxyInv
  <2>2. CASE conn[c] = "reading"
    BY <1>1, <1>2, <2>1, <2>2 DEF Offer
  <2>3. CASE conn[c] = "picking"
    BY <1>1, <1>2, <2>1, <2>3 DEF Offer, UpstreamsOf
  <2>4. CASE conn[c] \notin {"reading", "picking"}
    BY <1>1, <2>4 DEF Offer
  <2> QED BY <2>2, <2>3, <2>4
<1> QED BY <1>3, <1>4, <1>5 DEF ProxyInv

LEMMA ProxyNext ==
  ASSUME ProxyInv, [Next]_vars
  PROVE  ProxyInv'
<1>1. ASSUME NEW s \in Service, Stop(s) PROVE ProxyInv'
  <2>1. UNCHANGED <<healthy, permits, rr_counter, conn, to, offered, upstream, cancelled,
                    was_healthy, turns>>
    BY <1>1 DEF Stop, task
  <2>2. TypeOK'
    BY <1>1, <2>1 DEF Stop, ProxyInv, TypeOK
  <2>3. PermitsAccounted' /\ \A c \in Conn : Offer(c)'
    BY <2>1, SamePermits DEF ProxyInv, Offer, UpstreamsOf
  <2> QED BY <2>2, <2>3 DEF ProxyInv
<1>2. CASE Shutdown \/ UNCHANGED vars
  <2>1. UNCHANGED <<healthy, listener, permits, rr_counter, conn, to, offered, upstream,
                    was_healthy, turns>> /\ cancelled' \in BOOLEAN
    BY <1>2 DEF Shutdown, vars, shared, task, ProxyInv, TypeOK
  <2>2. TypeOK'
    BY <2>1 DEF ProxyInv, TypeOK
  <2>3. PermitsAccounted' /\ \A c \in Conn : Offer(c)'
    BY <2>1, SamePermits DEF ProxyInv, Offer, UpstreamsOf
  <2> QED BY <2>2, <2>3 DEF ProxyInv
<1>3. ASSUME NEW c \in Conn, Close(c) PROVE ProxyInv'
  BY <1>3, EndStep DEF Close
<1> QED BY <1>1, <1>2, <1>3, AcceptStep, ReadStep, PickStep, ConnectStep, HealthStep
        DEF Next, Handle

THEOREM ProxyInvariance == Spec => []ProxyInv
<1> QED BY ProxyInit, ProxyNext, PTL DEF Spec

-----------------------------------------------------------------------------
(* The theorems.                                                           *)

\* Every state of the proxy engine is well typed; no listener has a negative number of
\* permits or more than MAX_CONCURRENT_CONNECTIONS.
THEOREM ProxyTypeOK == Spec => []TypeOK
<1>1. ProxyInv => TypeOK
  BY DEF ProxyInv
<1> QED BY <1>1, ProxyInvariance, PTL

\* No path through handle_connection loses a permit or returns it twice.
THEOREM ProxyPermitsAccounted == Spec => []PermitsAccounted
<1>1. ProxyInv => PermitsAccounted
  BY DEF ProxyInv
<1> QED BY <1>1, ProxyInvariance, PTL

\* The counter, taken modulo the size of the set a task has read, never leads out of
\* that set, and the set was Healthy since the connection was accepted.
THEOREM ProxyRoutedToHealthy == Spec => RoutedToHealthy
<1>1. ProxyInv /\ [Next]_vars =>
        [\A c \in Conn : conn[c] # "connecting" /\ conn'[c] = "connecting" =>
           upstream'[c] \in was_healthy[c] \cap UpstreamsOf(to[c])]_vars
  <2> SUFFICES ASSUME ProxyInv, Next, NEW c \in Conn,
                      conn[c] # "connecting", conn'[c] = "connecting"
               PROVE  upstream'[c] \in was_healthy[c] \cap UpstreamsOf(to[c])
    OBVIOUS
  <2>1. conn \in [Conn -> {"none", "reading", "picking", "connecting", "open"}]
    BY DEF ProxyInv, TypeOK
  <2>2. Pick(c)
    BY <2>1 DEF Next, Handle, Accept, Read, Pick, Connect, Close, End, Stop, HealthChange,
                Shutdown, task
  <2>3. conn[c] = "picking"
    BY <2>2 DEF Pick
  <2> QED BY <2>2, <2>3, PickChoice DEF ProxyInv, Offer
<1> QED BY <1>1, ProxyInvariance, PTL DEF Spec, RoutedToHealthy

-----------------------------------------------------------------------------
(* The turns are balanced: the upstreams that have had one turn more than  *)
(* the others are those the counter led to in a window that ends before    *)
(* its value and is shorter than a round.                                  *)

Window(set, had, first, next) ==
  /\ first <= next
  /\ next - first < Cardinality(set)
  /\ \A v \in Upstream : had[v] <= 1
  /\ \A v \in Upstream :
       had[v] = 1 <=> \E i \in first .. next - 1 : v = Nth(set, i % Cardinality(set))

\* The turns t of a listener whose counter is at next.
Rounds(t, next) ==
  IF t.over = {} THEN t.had = NoTurns.had
  ELSE \E first \in Nat : Window(t.over, t.had, first, next)

TurnsInv == \A s \in Service : Rounds(turns[s], rr_counter[s])

\* Two numbers less than n apart have different remainders, and n numbers in a row have
\* every remainder.
LEMMA RemainderIs ==
  ASSUME NEW n \in Nat, n > 0, NEW q \in Int, NEW r \in 0 .. n - 1
  PROVE  (n * q + r) % n = r
<1> DEFINE x == n * q + r
           d == x \div n
           m == x % n
<1>1. x \in Int
  OBVIOUS
<1>2. x = n * d + m /\ d \in Int /\ m \in 0 .. n - 1
  <2> HIDE DEF x
  <2> QED BY <1>1
<1>3. n * q + r = n * d + m
  BY <1>2
<1> HIDE DEF d, m
<1>4. n * (q - d) = m - r
  BY <1>2, <1>3
<1>5. q - d \in Int /\ m - r < n /\ m - r > -n
  BY <1>2
<1>6. ASSUME q - d <= -1 PROVE FALSE
  BY <1>2, <1>4, <1>5, <1>6
<1>7. ASSUME q - d >= 1 PROVE FALSE
  BY <1>2, <1>4, <1>5, <1>7
<1>8. q - d = 0
  BY <1>5, <1>6, <1>7
<1>9. m = r
  BY <1>2, <1>4, <1>8
<1> QED BY <1>9 DEF m

LEMMA RemaindersDiffer ==
  ASSUME NEW n \in Nat, n > 0, NEW i \in Nat, NEW j \in Nat, i < j, j - i < n
  PROVE  i % n # j % n
<1>1. i = n * (i \div n) + (i % n) /\ j = n * (j \div n) + (j % n)
  OBVIOUS
<1>2. i \div n \in Int /\ j \div n \in Int
  OBVIOUS
<1> DEFINE a == i \div n
           b == j \div n
<1> SUFFICES ASSUME i % n = j % n PROVE FALSE
  OBVIOUS
<1>3. j - i = n * b - n * a
  BY <1>1
<1> HIDE DEF a, b
<1>4. a \in Int /\ b \in Int
  BY <1>2 DEF a, b
<1>5. j - i = n * (b - a)
  BY <1>3, <1>4
<1>6. CASE b - a <= 0
  BY <1>4, <1>5, <1>6
<1>7. CASE b - a >= 1
  BY <1>4, <1>5, <1>7
<1> QED BY <1>4, <1>6, <1>7

LEMMA EveryRemainder ==
  ASSUME NEW n \in Nat, n > 0, NEW first \in Nat, NEW r \in 0 .. n - 1
  PROVE  \E i \in first .. first + n - 1 : i % n = r
<1> DEFINE q == first \div n
           m == first % n
<1>1. first = n * q + m /\ q \in Int /\ m \in 0 .. n - 1
  OBVIOUS
<1> HIDE DEF q, m
<1>2. CASE r >= m
  <2>1. n * q + r \in first .. first + n - 1
    BY <1>1, <1>2
  <2> QED BY <1>1, <2>1, RemainderIs
<1>3. CASE r < m
  <2>1. n * (q + 1) + r = n * q + n + r
    BY <1>1
  <2>2. n * q + n + r \in first .. first + n - 1
    BY <1>1, <1>3
  <2>3. (n * (q + 1) + r) % n = r
    BY <1>1, RemainderIs
  <2> QED BY <2>1, <2>2, <2>3
<1> QED BY <1>1, <1>2, <1>3

\* A turn out of a window shorter than a round: the upstream whose turn it is has had
\* none in it, and the round is over only when the window is as long as one.
LEMMA TurnInWindow ==
  ASSUME NEW set \in SUBSET Upstream, set # {}, NEW had \in [Upstream -> Nat],
         NEW first \in Nat, NEW next \in Nat, Window(set, had, first, next)
  PROVE  LET n == Cardinality(set)
             u == Nth(set, next % n)
             more == [had EXCEPT ![u] = @ + 1]
             round == \A v \in set : more[v] > 0
             left == [v \in Upstream |-> IF round /\ v \in set THEN more[v] - 1 ELSE more[v]]
         IN  \E f \in Nat : Window(set, left, f, next + 1)
<1> DEFINE n == Cardinality(set)
           u == Nth(set, next % n)
           more == [had EXCEPT ![u] = had[u] + 1]
           round == \A v \in set : more[v] > 0
           left == [v \in Upstream |-> IF round /\ v \in set THEN more[v] - 1 ELSE more[v]]
<1>1. n \in Nat /\ n > 0
  BY Ranks, NthRank
<1> HIDE DEF n
<1>2. \A i \in Nat : i % n \in Nat /\ i % n < n
  BY <1>1
<1>3. \A i \in Nat : Nth(set, i % n) \in set /\ Rank(set, Nth(set, i % n)) = i % n
  BY <1>2, NthMember DEF n
<1>4. u \in set /\ u \in Upstream /\ Rank(set, u) = next % n
  BY <1>3
<1>5. /\ first <= next /\ next - first < n
      /\ \A v \in Upstream : had[v] \in Nat /\ had[v] <= 1
      /\ \A v \in Upstream : had[v] = 1 <=> \E i \in first .. next - 1 : v = Nth(set, i % n)
  BY DEF Window, n
<1>6. had[u] = 0
  <2> SUFFICES ASSUME NEW i \in first .. next - 1, u = Nth(set, i % n) PROVE FALSE
    BY <1>4, <1>5
  <2>1. i \in Nat /\ i < next /\ next - i < n
    BY <1>1, <1>5
  <2>2. i % n # next % n
    BY <1>1, <2>1, RemaindersDiffer
  <2>3. Rank(set, u) = i % n
    BY <1>3, <2>1
  <2> QED BY <1>4, <2>2, <2>3
<1> HIDE DEF u
<1>7. \A v \in Upstream : more[v] = IF v = u THEN 1 ELSE had[v]
  BY <1>4, <1>6
<1>8. \A v \in Upstream : more[v] = 1 <=> \E i \in first .. next : v = Nth(set, i % n)
  <2> SUFFICES ASSUME NEW v \in Upstream
               PROVE  more[v] = 1 <=> \E i \in first .. next : v = Nth(set, i % n)
    OBVIOUS
  <2>1. CASE v = u
    <3>1. next \in first .. next /\ u = Nth(set, next % n)
      BY <1>5 DEF u
    <3> QED BY <1>4, <1>7, <2>1, <3>1
  <2>2. CASE v # u
    <3>1. \A i \in first .. next : i \in first .. next - 1 \/ i = next
      OBVIOUS
    <3>2. \A i \in first .. next - 1 : i \in first .. next
      OBVIOUS
    <3>3. v # Nth(set, next % n)
      BY <2>2 DEF u
    <3>4. (\E i \in first .. next - 1 : v = Nth(set, i % n))
            <=> \E i \in first .. next : v = Nth(set, i % n)
      BY <3>1, <3>2, <3>3
    <3> QED BY <1>5, <1>7, <2>2, <3>4
  <2> QED BY <2>1, <2>2
<1>9. \A v \in Upstream : more[v] \in Nat /\ more[v] <= 1
  BY <1>5, <1>7
<1>10. \A v \in Upstream : left[v] = IF round /\ v \in set THEN more[v] - 1 ELSE more[v]
  OBVIOUS
<1> HIDE DEF more, left
<1>11. CASE round
  <2>1. \A v \in Upstream : more[v] = 1 => v \in set
    <3> SUFFICES ASSUME NEW v \in Upstream, NEW i \in first .. next, v = Nth(set, i % n)
                 PROVE  v \in set
      BY <1>8
    <3>1. i \in Nat
      OBVIOUS
    <3> QED BY <1>3, <3>1
  <2>2. \A v \in Upstream : left[v] = 0
    BY <1>9, <1>10, <1>11, <2>1
  <2>3. Window(set, left, next + 1, next + 1)
    BY <1>1, <2>2 DEF Window, n
  <2> QED BY <2>3 DEF left, round, more, u, n
<1>12. CASE ~round
  <2>1. PICK w \in set : ~(more[w] > 0)
    BY <1>12
  <2>2. next - first # n - 1
    <3> SUFFICES ASSUME next - first = n - 1 PROVE FALSE
      OBVIOUS
    <3>1. Rank(set, w) \in 0 .. n - 1 /\ Nth(set, Rank(set, w)) = w
      BY NthRank DEF n
    <3>2. PICK i \in first .. first + n - 1 : i % n = Rank(set, w)
      BY <1>1, <3>1, EveryRemainder
    <3>3. i \in first .. next
      BY <1>1, <3>2
    <3>4. more[w] = 1
      BY <1>8, <3>1, <3>2, <3>3
    <3> QED BY <2>1, <3>4
  <2>3. \A v \in Upstream : left[v] = more[v]
    BY <1>10, <1>12
  <2>4. first <= next + 1 /\ next + 1 - first < n
    BY <1>1, <1>5, <2>2
  <2>5. next + 1 - 1 = next
    OBVIOUS
  <2>6. Window(set, left, first, next + 1)
    BY <1>8, <1>9, <2>3, <2>4, <2>5 DEF Window, n
  <2> QED BY <2>6 DEF left, round, more, u, n
<1> QED BY <1>11, <1>12

\* The same of Taken, which starts a new window for a new set.
LEMMA TakenRounds ==
  ASSUME NEW t \in [over : SUBSET Upstream, had : [Upstream -> Nat]],
         NEW set \in SUBSET Upstream, set # {}, NEW next \in Nat, Rounds(t, next)
  PROVE  Rounds(Taken(t, set, Nth(set, next % Cardinality(set))), next + 1)
<1> DEFINE u == Nth(set, next % Cardinality(set))
           had == IF t.over = set THEN t.had ELSE NoTurns.had
           more == [had EXCEPT ![u] = @ + 1]
           round == \A v \in set : more[v] > 0
           left == [v \in Upstream |-> IF round /\ v \in set THEN more[v] - 1 ELSE more[v]]
<1>1. had \in [Upstream -> Nat]
  BY DEF NoTurns
<1>2. \E first \in Nat : Window(set, had, first, next)
  <2>1. CASE t.over = set
    BY <2>1 DEF Rounds
  <2>2. CASE t.over # set
    <3>1. Cardinality(set) \in Nat /\ Cardinality(set) > 0
      BY Ranks, NthRank
    <3>2. Window(set, NoTurns.had, next, next)
      BY <3>1 DEF Window, NoTurns
    <3> QED BY <2>2, <3>2
  <2> QED BY <2>1, <2>2
<1>3. u \in Upstream
  <2>1. Cardinality(set) \in Nat /\ Cardinality(set) > 0
    BY Ranks, NthRank
  <2>2. next % Cardinality(set) \in Nat /\ next % Cardinality(set) < Cardinality(set)
    BY <2>1
  <2> QED BY <2>2, NthMember
<1>4. Taken(t, set, u) = [over |-> set, had |-> left]
  <2> DEFINE given == IF t.over = set THEN [t.had EXCEPT ![u] = @ + 1]
                      ELSE [NoTurns.had EXCEPT ![u] = 1]
             all == \A v \in set : given[v] > 0
             kept == [v \in Upstream |-> IF all /\ v \in set THEN given[v] - 1 ELSE given[v]]
  <2>1. Taken(t, set, u) = [over |-> set, had |-> kept]
    BY DEF Taken
  <2>2. given = more
    <3> HIDE DEF u
    <3> QED BY <1>3 DEF NoTurns
  <2> HIDE DEF given, more
  <2>3. kept = left
    BY <2>2
  <2> QED BY <2>1, <2>3
<1>5. \E f \in Nat : Window(set, left, f, next + 1)
  <2> HIDE DEF had
  <2>1. PICK first \in Nat : Window(set, had, first, next)
    BY <1>2
  <2> QED BY <1>1, <2>1, TurnInWindow
<1> HIDE DEF left, u
<1> QED BY <1>4, <1>5 DEF Rounds, u

LEMMA TurnsInit == Init => TurnsInv
BY DEF Init, TurnsInv, Rounds, NoTurns

LEMMA TurnsNext ==
  ASSUME ProxyInv, TurnsInv, [Next]_vars
  PROVE  TurnsInv'
<1>1. ASSUME NEW c \in Conn, Pick(c) PROVE TurnsInv'
  <2> DEFINE s == to[c]
             set == offered[c]
             u == Nth(set, rr_counter[s] % Cardinality(set))
             next == (rr_counter[s] + 1) % CounterSize
  <2>1. /\ s \in Service /\ set \in SUBSET Upstream /\ set # {}
        /\ rr_counter[s] \in 0 .. CounterSize - 1
        /\ turns[s] \in [over : SUBSET Upstream, had : [Upstream -> Nat]]
    BY <1>1, PickChoice DEF ProxyInv, TypeOK
  <2>2. /\ rr_counter' = [rr_counter EXCEPT ![s] = next]
        /\ turns' = [turns EXCEPT ![s] = IF next = 0 THEN NoTurns ELSE Taken(turns[s], set, u)]
    BY <1>1 DEF Pick
  <2>3. next = 0 \/ next = rr_counter[s] + 1
    BY <2>1, SizesType
  <2> HIDE DEF next
  <2>4. Rounds(NoTurns, next)
    BY DEF Rounds, NoTurns
  <2>5. next = rr_counter[s] + 1 => Rounds(Taken(turns[s], set, u), next)
    <3>1. rr_counter[s] \in Nat /\ Rounds(turns[s], rr_counter[s])
      BY <2>1, SizesType DEF TurnsInv
    <3> HIDE DEF s, set
    <3> QED BY <2>1, <3>1, TakenRounds
  <2> SUFFICES ASSUME NEW t \in Service PROVE Rounds(turns'[t], rr_counter'[t])
    BY DEF TurnsInv
  <2>6. CASE t = s
    <3>1. rr_counter'[s] = next /\ turns'[s] = IF next = 0 THEN NoTurns ELSE Taken(turns[s], set, u)
      BY <2>1, <2>2 DEF ProxyInv, TypeOK
    <3> HIDE DEF s, set, u
    <3> QED BY <2>3, <2>4, <2>5, <2>6, <3>1
  <2>7. CASE t # s
    <3>1. rr_counter'[t] = rr_counter[t] /\ turns'[t] = turns[t]
      BY <2>1, <2>2, <2>7 DEF ProxyInv, TypeOK
    <3> QED BY <3>1 DEF TurnsInv
  <2> QED BY <2>6, <2>7
<1>2. CASE UNCHANGED <<rr_counter, turns>>
  BY <1>2 DEF TurnsInv
<1>3. (\E c \in Conn : Pick(c)) \/ UNCHANGED <<rr_counter, turns>>
  BY DEF Next, vars, shared, task, Handle, Accept, Stop, Read, Connect, Close, HealthChange, Shutdown
<1> QED BY <1>1, <1>2, <1>3

\* While the connections of a listener find the same set, no upstream of it has two
\* turns more than another, for every size of the set and of the counter: the next
\* turn depends on the counter alone, whichever task takes it.
THEOREM ProxyTurnsBalanced == Spec => []TurnsBalanced
<1>1. TurnsInv => TurnsBalanced
  <2> SUFFICES ASSUME TurnsInv, NEW s \in Service, NEW u \in Upstream
               PROVE  turns[s].had[u] <= 1
    BY DEF TurnsBalanced
  <2>1. Rounds(turns[s], rr_counter[s])
    BY DEF TurnsInv
  <2>2. CASE turns[s].over = {}
    BY <2>1, <2>2 DEF Rounds, NoTurns
  <2>3. CASE turns[s].over # {}
    BY <2>1, <2>3 DEF Rounds, Window
  <2> QED BY <2>2, <2>3
<1>2. Spec => []TurnsInv
  BY TurnsInit, TurnsNext, ProxyInvariance, PTL DEF Spec
<1> QED BY <1>1, <1>2, PTL
=============================================================================
