------------------------ MODULE DockerEngine_proofs ------------------------
(***************************************************************************)
(* What a restart by the docker engine keeps to for any settings and any   *)
(* number of published versions, wherever it fails or is killed.           *)
(***************************************************************************)
EXTENDS DockerEngine, TLAPS

\* What the running attempt has captured is what the operator gave the container,
\* unless the operator has touched it.
CaptureTrue == ~touched /\ captured # NoSettings => captured = owned

\* The image asked for is there once it has been pulled, and so is a container of it
\* once that has been made.
PulledEnough ==
  /\ asked <= registry
  /\ pc \in {"stop", "remove", "create", "start"} => local >= asked
  /\ pc = "start" /\ Present => container.version >= asked
  /\ pc \in Call /\ repull => pc # "restart"

DockerInv == TypeOK /\ SettingsKept /\ CaptureTrue /\ PulledEnough

\* The container is the same but for its running.
Same ==
  \/ container' = container
  \/ Present /\ \E r \in BOOLEAN : container' = [container EXCEPT !.running = r]

\* A container that starts or stops keeps its version and settings.
LEMMA SameContainer ==
  ASSUME TypeOK, Same
  PROVE  /\ container' \in Container \cup {Absent}
         /\ (container' = Absent) = (container = Absent)
         /\ container # Absent => /\ container'.settings = container.settings
                                 /\ container'.version = container.version
<1>1. CASE container' = container
  BY <1>1 DEF TypeOK
<1>2. CASE Present /\ \E r \in BOOLEAN : container' = [container EXCEPT !.running = r]
  <2>1. container \in Container
    BY <1>2 DEF TypeOK, Present
  <2>2. container' \in Container
    BY <1>2, <2>1 DEF Container
  <2>3. container' # Absent /\ container # Absent
    BY <1>2, <2>2, DockerAssumption DEF Container, Version, Present
  <2>4. container'.settings = container.settings /\ container'.version = container.version
    BY <1>2, <2>1 DEF Container
  <2> QED BY <2>2, <2>3, <2>4
<1> QED BY <1>1, <1>2 DEF Same

LEMMA DockerInit == Init => DockerInv
<1> SUFFICES ASSUME Init PROVE DockerInv
  OBVIOUS
<1>1. MaxVersion \in Nat \ {0} /\ 1 \in Version
  BY DockerAssumption DEF Version
<1>2. container \in Container
  BY <1>1 DEF Init, Container
<1>3. TypeOK
  BY <1>1, <1>2 DEF Init, TypeOK, Container, Call
<1>4. SettingsKept
  BY DEF Init, SettingsKept
<1>5. CaptureTrue
  BY DEF Init, CaptureTrue
<1>6. PulledEnough
  BY DEF Init, PulledEnough, Call
<1> QED BY <1>3, <1>4, <1>5, <1>6 DEF DockerInv

\* An attempt returns, whatever it reports and whichever version was pulled, with the
\* container the same.
LEMMA ReturnKeeps ==
  ASSUME DockerInv, Same, NEW result \in {"none", "Succeeded", "Failed"}, Return(result),
         local' \in Version, UNCHANGED <<repull, registry, steady, operator>>
  PROVE  DockerInv'
<1> USE DEF DockerInv, Return, operator
<1>1. TypeOK'
  BY SameContainer DEF TypeOK
<1>2. SettingsKept'
  BY SameContainer DEF SettingsKept, Present
<1>3. CaptureTrue'
  BY DEF CaptureTrue
<1>4. PulledEnough'
  BY DEF PulledEnough, Call
<1> QED BY <1>1, <1>2, <1>3, <1>4

LEMMA BeginKeeps == DockerInv /\ Begin => DockerInv'
<1> SUFFICES ASSUME DockerInv, Begin PROVE DockerInv'
  OBVIOUS
<1> USE DEF DockerInv, Begin, daemon, operator
<1>1. TypeOK'
  BY DEF TypeOK, Call
<1>2. SettingsKept'
  BY DEF SettingsKept, Present
<1>3. CaptureTrue'
  BY DEF CaptureTrue
<1>4. PulledEnough'
  BY DEF PulledEnough, Call, TypeOK, Version
<1> QED BY <1>1, <1>2, <1>3, <1>4

LEMMA RestartKeeps == DockerInv /\ Restart => DockerInv'
<1> SUFFICES ASSUME DockerInv, Restart PROVE DockerInv'
  OBVIOUS
<1>1. Same /\ (Return("Succeeded") \/ Return("Failed"))
  BY DEF Restart, Same
<1>2. local' \in Version
  BY DEF Restart, DockerInv, TypeOK
<1> QED BY <1>1, <1>2, ReturnKeeps DEF Restart

LEMMA InspectKeeps == DockerInv /\ Inspect => DockerInv'
<1> SUFFICES ASSUME DockerInv, Inspect PROVE DockerInv'
  OBVIOUS
<1>1. CASE Present /\ pc' = "pull" /\ captured' = container.settings /\ UNCHANGED <<outcome, asked>>
  <2> USE DEF DockerInv, daemon, operator
  <2>1. captured' \in Settings /\ captured' # NoSettings
    BY <1>1, DockerAssumption DEF TypeOK, Present, Container
  <2>2. TypeOK'
    BY <1>1, <2>1 DEF Inspect, TypeOK, Call
  <2>3. SettingsKept'
    BY DEF Inspect, SettingsKept, Present
  <2>4. CaptureTrue'
    BY <1>1, <2>1 DEF Inspect, CaptureTrue, SettingsKept
  <2>5. PulledEnough'
    BY <1>1 DEF Inspect, PulledEnough, Call
  <2> QED BY <2>2, <2>3, <2>4, <2>5
<1>2. CASE Return("Failed")
  <2>1. Same /\ local' \in Version
    BY DEF Inspect, daemon, Same, DockerInv, TypeOK
  <2> QED BY <1>2, <2>1, ReturnKeeps DEF Inspect, daemon
<1> QED BY <1>1, <1>2 DEF Inspect

LEMMA PullKeeps == DockerInv /\ Pull => DockerInv'
<1> SUFFICES ASSUME DockerInv, Pull PROVE DockerInv'
  OBVIOUS
<1>1. local' \in Version
  BY DEF Pull, DockerInv, TypeOK
<1>2. CASE local' = registry /\ Proceed("stop")
  <2> USE DEF DockerInv, Pull, Proceed, operator
  <2>1. TypeOK'
    BY <1>1, <1>2 DEF TypeOK, Call
  <2>2. SettingsKept'
    BY DEF SettingsKept, Present
  <2>3. CaptureTrue'
    BY <1>2 DEF CaptureTrue
  <2>4. PulledEnough'
    BY <1>2 DEF PulledEnough, Call
  <2> QED BY <2>1, <2>2, <2>3, <2>4
<1>3. CASE Return("Failed")
  <2>1. Same
    BY DEF Pull, Same
  <2> QED BY <1>1, <1>3, <2>1, ReturnKeeps DEF Pull
<1> QED BY <1>2, <1>3 DEF Pull

LEMMA StopKeeps == DockerInv /\ Stop => DockerInv'
<1> SUFFICES ASSUME DockerInv, Stop PROVE DockerInv'
  OBVIOUS
<1>1. Same
  BY DEF Stop, Same, Running
<1> USE <1>1, SameContainer DEF DockerInv, Stop, Proceed, operator
<1>2. TypeOK'
  BY DEF TypeOK, Call
<1>3. SettingsKept'
  BY DEF SettingsKept, Present
<1>4. CaptureTrue'
  BY DEF CaptureTrue
<1>5. PulledEnough'
  BY DEF PulledEnough, Call
<1> QED BY <1>2, <1>3, <1>4, <1>5

LEMMA RemoveKeeps == DockerInv /\ Remove => DockerInv'
<1> SUFFICES ASSUME DockerInv, Remove PROVE DockerInv'
  OBVIOUS
<1>1. local' \in Version
  BY DEF Remove, DockerInv, TypeOK
<1>2. CASE container' = container
  <2>1. Return("Failed") \/ container' = Absent
    BY <1>2 DEF Remove
  <2>2. CASE Return("Failed")
    BY <1>1, <1>2, <2>2, ReturnKeeps DEF Remove, Same
  <2>3. CASE container' = Absent /\ ~Return("Failed")
    BY <1>2, <2>3 DEF Remove, Removable, Present
  <2> QED BY <2>1, <2>2, <2>3
<1>3. CASE container' = Absent /\ (Proceed("create") \/ Return("Failed"))
  <2> USE <1>3 DEF DockerInv, Remove, Proceed, Return, operator
  <2>1. TypeOK'
    BY DEF TypeOK, Call
  <2>2. SettingsKept'
    BY DEF SettingsKept, Present
  <2>3. CaptureTrue'
    BY DEF CaptureTrue
  <2>4. PulledEnough'
    BY DEF PulledEnough, Call
  <2> QED BY <2>1, <2>2, <2>3, <2>4
<1> QED BY <1>2, <1>3 DEF Remove

LEMMA CreateKeeps == DockerInv /\ Create => DockerInv'
<1> SUFFICES ASSUME DockerInv, Create PROVE DockerInv'
  OBVIOUS
<1>1. CASE container' = container /\ Return("Failed")
  <2>1. Same /\ local' \in Version
    BY <1>1 DEF Create, Same, DockerInv, TypeOK
  <2> QED BY <1>1, <2>1, ReturnKeeps DEF Create
<1>2. CASE container' = Recreated /\ (Proceed("start") \/ Return("Failed"))
  <2>1. captured \in Settings /\ captured # NoSettings
    BY DockerAssumption DEF DockerInv, TypeOK, Create
  <2>2. container' \in Container
    BY <1>2, <2>1 DEF Recreated, Container, DockerInv, TypeOK
  <2>3. container'.settings = captured /\ container'.version = local
    BY <1>2 DEF Recreated
  <2> USE <1>2 DEF DockerInv, Create, Proceed, Return, operator
  <2>4. TypeOK'
    BY <2>2 DEF TypeOK, Call
  <2>5. SettingsKept'
    BY <2>1, <2>3 DEF SettingsKept, CaptureTrue
  <2>6. CaptureTrue'
    BY DEF CaptureTrue
  <2>7. PulledEnough'
    BY <2>3 DEF PulledEnough, Call
  <2> QED BY <2>4, <2>5, <2>6, <2>7
<1> QED BY <1>1, <1>2 DEF Create, Present

LEMMA StartKeeps == DockerInv /\ Start => DockerInv'
<1> SUFFICES ASSUME DockerInv, Start PROVE DockerInv'
  OBVIOUS
<1>1. Present => container.running \in BOOLEAN
  BY DEF DockerInv, TypeOK, Container, Present
<1>2. Same /\ (Return("Succeeded") \/ Return("Failed"))
  BY <1>1 DEF Start, Same
<1>3. local' \in Version
  BY DEF Start, DockerInv, TypeOK
<1> QED BY <1>2, <1>3, ReturnKeeps DEF Start

LEMMA KillKeeps == DockerInv /\ Kill => DockerInv'
<1> SUFFICES ASSUME DockerInv, Kill PROVE DockerInv'
  OBVIOUS
<1>1. Same /\ local' \in Version
  BY DEF Kill, Same, daemon, DockerInv, TypeOK
<1> QED BY <1>1, ReturnKeeps DEF Kill, daemon

LEMMA FlipKeeps == DockerInv /\ Flip => DockerInv'
<1> SUFFICES ASSUME DockerInv, Flip PROVE DockerInv'
  OBVIOUS
<1>1. Present /\ container \in Container
  BY DEF Flip, DockerInv, TypeOK, Present
<1>2. Same
  BY <1>1 DEF Flip, Same, Container
<1> USE <1>2, SameContainer DEF DockerInv, Flip, attempt, operator
<1>3. TypeOK'
  BY DEF TypeOK
<1>4. SettingsKept'
  BY DEF SettingsKept, Present
<1>5. CaptureTrue'
  BY DEF CaptureTrue
<1>6. PulledEnough'
  BY DEF PulledEnough, Present
<1> QED BY <1>3, <1>4, <1>5, <1>6

LEMMA WithdrawKeeps == DockerInv /\ Withdraw => DockerInv'
<1> SUFFICES ASSUME DockerInv, Withdraw PROVE DockerInv'
  OBVIOUS
<1> USE DEF DockerInv, Withdraw, attempt
<1>1. TypeOK'
  BY DEF TypeOK
<1>2. SettingsKept'
  BY DEF SettingsKept, Present
<1>3. CaptureTrue'
  BY DEF CaptureTrue
<1>4. PulledEnough'
  BY DEF PulledEnough, Present
<1> QED BY <1>1, <1>2, <1>3, <1>4

LEMMA ProvideKeeps ==
  ASSUME NEW s \in Settings, DockerInv, Provide(s)
  PROVE  DockerInv'
<1>1. container' \in Container
  BY DEF Provide, DockerInv, TypeOK, Container
<1>2. container'.settings = s /\ container'.version = local
  BY DEF Provide
<1> USE DEF DockerInv, Provide, attempt
<1>3. TypeOK'
  BY <1>1 DEF TypeOK
<1>4. SettingsKept'
  BY <1>2 DEF SettingsKept
<1>5. CaptureTrue'
  BY DEF CaptureTrue, TypeOK
<1>6. PulledEnough'
  BY <1>2 DEF PulledEnough, Call
<1> QED BY <1>3, <1>4, <1>5, <1>6

\* Publish, Turn and stuttering leave container and attempt alone.
LEMMA PublishKeeps == DockerInv /\ Publish => DockerInv'
<1> SUFFICES ASSUME DockerInv, Publish PROVE DockerInv'
  OBVIOUS
<1> USE DEF DockerInv, Publish, attempt, operator
<1>1. registry \in Nat /\ registry' = registry + 1 /\ registry' \in Version
  BY DockerAssumption DEF TypeOK, Version
<1>2. TypeOK'
  BY <1>1 DEF TypeOK
<1>3. SettingsKept' /\ CaptureTrue'
  BY DEF SettingsKept, CaptureTrue, Present
<1>4. PulledEnough'
  BY <1>1 DEF PulledEnough, Present, TypeOK, Version
<1> QED BY <1>2, <1>3, <1>4

LEMMA QuietKeeps == DockerInv /\ (Turn \/ UNCHANGED vars) => DockerInv'
<1> SUFFICES ASSUME DockerInv, Turn \/ UNCHANGED vars PROVE DockerInv'
  OBVIOUS
<1>1. UNCHANGED <<repull, daemon, attempt, operator>>
  BY DEF Turn, vars
<1>2. steady' \in BOOLEAN
  BY Zenon DEF Turn, vars, DockerInv, TypeOK
<1> USE <1>1 DEF DockerInv, daemon, attempt, operator
<1>3. TypeOK'
  BY <1>2 DEF TypeOK
<1>4. SettingsKept' /\ CaptureTrue' /\ PulledEnough'
  BY DEF SettingsKept, CaptureTrue, PulledEnough, Present
<1> QED BY <1>3, <1>4

LEMMA DockerStep == DockerInv /\ [Next]_vars => DockerInv'
BY BeginKeeps, RestartKeeps, InspectKeeps, PullKeeps, StopKeeps, RemoveKeeps, CreateKeeps,
   StartKeeps, KillKeeps, FlipKeeps, WithdrawKeeps, ProvideKeeps, PublishKeeps, QuietKeeps
   DEF Next, AttemptStep

LEMMA DockerInvariant == Spec => []DockerInv
BY DockerInit, DockerStep, PTL DEF Spec

\* Every state of the docker engine is well typed; settings are captured exactly while
\* a repull is between its inspection and its end.
THEOREM DockerTypeOK == Spec => []TypeOK
<1>1. DockerInv => TypeOK
  BY DEF DockerInv
<1> QED BY <1>1, DockerInvariant, PTL

\* A container has the settings the operator gave it, after any number of attempts that
\* failed, lost an answer or were killed at any step (repull_and_restart).
THEOREM DockerSettingsKept == Spec => []SettingsKept
<1>1. DockerInv => SettingsKept
  BY DEF DockerInv
<1> QED BY <1>1, DockerInvariant, PTL

\* A repull reports success only with a container of an image at least as new as the
\* registry's when it began: the last step is reached only through a whole pull.
LEMMA SuccessIsFresh ==
  ASSUME DockerInv, [Next]_vars, repull, outcome' = "Succeeded", outcome # "Succeeded"
  PROVE  container'.version >= asked
<1>1. Restart \/ Start
  BY DEF Next, AttemptStep, vars, attempt, Begin, Inspect, Pull, Stop, Remove, Create, Kill,
         Flip, Withdraw, Provide, Publish, Turn, Return, Proceed
<1>2. ~Restart
  BY DEF Restart, DockerInv, PulledEnough, Call
<1>3. Start /\ Present /\ Same
  BY <1>1, <1>2 DEF Start, Return, Same
<1>4. container.version >= asked
  BY <1>3 DEF Start, DockerInv, PulledEnough
<1> QED BY <1>3, <1>4, SameContainer DEF DockerInv, Present

THEOREM DockerFreshImage == Spec => FreshImage
<1>1. DockerInv /\ [Next]_vars =>
        [repull /\ outcome' = "Succeeded" /\ outcome # "Succeeded"
           => container'.version >= asked]_vars
  BY SuccessIsFresh
<1> QED BY <1>1, DockerInvariant, PTL DEF Spec, FreshImage
=============================================================================
