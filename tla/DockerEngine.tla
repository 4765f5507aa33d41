---------------------------- MODULE DockerEngine ----------------------------
(***************************************************************************)
(* The docker engine (docker_engine.rs): a restart of one container, in    *)
(* place or by pulling an image and recreating the container, as a series  *)
(* of calls to a daemon that others use too.  A call may fail without      *)
(* effect, or have its effect and its answer be lost.  Between two calls   *)
(* the container may exit or be started, an operator may remove or replace *)
(* it, and Vela may be killed.                                             *)
(*                                                                         *)
(* The recovery engine awaits one restart before it begins the next, and   *)
(* every call names the container of the service: one container is enough. *)
(***************************************************************************)
EXTENDS Integers

CONSTANTS
  Settings,    \* what a container is created with: ports, environment, host config
  MaxVersion,  \* bound: the image is published this many times
  Absent,      \* there is no container of that name
  NoSettings   \* nothing has been captured

ASSUME DockerAssumption ==
  /\ MaxVersion \in Nat \ {0}
  /\ NoSettings \notin Settings
  /\ Absent \notin [running : BOOLEAN, version : 1 .. MaxVersion, settings : Settings]

VARIABLES
  repull,     \* DockerConfig.image is Some
  container,  \* the container of that name
  registry,   \* the version of the image the registry has
  local,      \* the version of the image the daemon has
  pc,         \* the call the restart makes next
  captured,   \* original_config and original_host_config
  outcome,    \* the RestartOutcome of the last attempt
  steady,     \* the daemon answers truthfully, and starts what it is told to start
  asked,      \* history: registry when the attempt began
  owned,      \* history: the settings the operator gave the container
  touched     \* history: the operator made or removed a container during an attempt,
              \* and has not made one since

daemon == <<container, registry, local>>
attempt == <<pc, captured, outcome, asked>>
operator == <<owned, touched>>

vars == <<repull, daemon, attempt, steady, operator>>

Version == 1 .. MaxVersion
Container == [running : BOOLEAN, version : Version, settings : Settings]
Call == {"restart", "inspect", "pull", "stop", "remove", "create", "start"}

Present == container # Absent
Running == Present /\ container.running

Init ==
  /\ repull \in BOOLEAN
  /\ container \in [running : BOOLEAN, version : {1}, settings : Settings]
  /\ registry = 1
  /\ local = 1
  /\ pc = "idle"
  /\ captured = NoSettings
  /\ outcome = "none"
  /\ steady \in BOOLEAN
  /\ asked = 1
  /\ owned = container.settings
  /\ touched = FALSE

-----------------------------------------------------------------------------
(* A restart.                                                              *)

\* A wrong return: what was captured is kept.
Return_Keep(result) ==
  /\ pc' = "idle"
  /\ outcome' = result
  /\ UNCHANGED <<captured, asked>>

\* The attempt ends and what it captured goes with it.
Return(result) ==
  /\ pc' = "idle"
  /\ captured' = NoSettings
  /\ outcome' = result
  /\ UNCHANGED asked

\* The attempt goes on to its next call.
Proceed(call) ==
  /\ pc' = call
  /\ UNCHANGED <<captured, outcome, asked>>

\* The recovery engine begins a restart of this service.
Begin ==
  /\ pc = "idle"
  /\ pc' = IF repull THEN "inspect" ELSE "restart"
  /\ outcome' = "none"
  /\ asked' = registry
  /\ UNCHANGED <<repull, daemon, captured, steady, operator>>

\* restart_container: without a container, or without an answer, it has failed.
Restart ==
  /\ pc = "restart"
  /\ \/ /\ Present
        /\ container' = [container EXCEPT !.running = TRUE]
        /\ Return("Succeeded")
     \/ /\ Present
        /\ ~steady
        /\ \E r \in BOOLEAN : container' = [container EXCEPT !.running = r]
        /\ Return("Failed")
     \/ /\ ~Present
        /\ UNCHANGED container
        /\ Return("Failed")
  /\ UNCHANGED <<repull, registry, local, steady, operator>>

\* Step 1: the settings of the container as it is now.
Inspect ==
  /\ pc = "inspect"
  /\ \/ /\ Present
        /\ pc' = "pull"
        /\ captured' = container.settings
        /\ UNCHANGED <<outcome, asked>>
     \/ ~(Present /\ steady) /\ Return("Failed")
  /\ UNCHANGED <<repull, daemon, steady, operator>>

\* A wrong step: a pull that fails is logged, as a stop that fails is.
Pull_Continue ==
  /\ pc = "pull"
  /\ \/ local' = registry
     \/ ~steady /\ UNCHANGED local
  /\ Proceed("stop")
  /\ UNCHANGED <<repull, container, registry, steady, operator>>

\* Step 2: the stream of the pull is drained, its first error ends the attempt.
Pull ==
  /\ pc = "pull"
  /\ \/ local' = registry /\ Proceed("stop")
     \/ ~steady /\ local' \in {local, registry} /\ Return("Failed")
  /\ UNCHANGED <<repull, container, registry, steady, operator>>

\* A wrong step: a stop that fails ends the attempt.
Stop_Fatal ==
  /\ pc = "stop"
  /\ \/ Running /\ container' = [container EXCEPT !.running = FALSE] /\ Proceed("remove")
     \/ ~(Running /\ steady) /\ UNCHANGED container /\ Return("Failed")
  /\ UNCHANGED <<repull, registry, local, steady, operator>>

\* Step 3: a stop that fails is logged, be there nothing to stop or no answer.
Stop ==
  /\ pc = "stop"
  /\ \/ Running /\ container' = [container EXCEPT !.running = FALSE]
     \/ ~(Running /\ steady) /\ UNCHANGED container
  /\ Proceed("remove")
  /\ UNCHANGED <<repull, registry, local, steady, operator>>

Removable == Present /\ ~container.running

\* Step 4: without force, a container that runs again is not removed.
Remove ==
  /\ pc = "remove"
  /\ \/ Removable /\ container' = Absent /\ Proceed("create")
     \/ Removable /\ ~steady /\ container' \in {container, Absent} /\ Return("Failed")
     \/ ~Removable /\ UNCHANGED container /\ Return("Failed")
  /\ UNCHANGED <<repull, registry, local, steady, operator>>

\* A wrong recreation: with the default settings.
Recreated_Default ==
  [running |-> FALSE, version |-> local, settings |-> CHOOSE s \in Settings : TRUE]

\* What create_container makes.
Recreated == [running |-> FALSE, version |-> local, settings |-> captured]

\* Step 5: the name is taken when somebody else has made the container meanwhile.
Create ==
  /\ pc = "create"
  /\ \/ ~Present /\ container' = Recreated /\ Proceed("start")
     \/ ~Present /\ ~steady /\ container' \in {Absent, Recreated} /\ Return("Failed")
     \/ Present /\ UNCHANGED container /\ Return("Failed")
  /\ UNCHANGED <<repull, registry, local, steady, operator>>

\* Step 6.
Start ==
  /\ pc = "start"
  /\ \/ /\ Present
        /\ container' = [container EXCEPT !.running = TRUE]
        /\ Return("Succeeded")
     \/ /\ Present
        /\ ~steady
        /\ \E r \in {TRUE, container.running} :
             container' = [container EXCEPT !.running = r]
        /\ Return("Failed")
     \/ ~Present /\ UNCHANGED container /\ Return("Failed")
  /\ UNCHANGED <<repull, registry, local, steady, operator>>

\* Vela is killed, and started again, in the middle of a restart: nothing of the
\* attempt is remembered.
Kill ==
  /\ pc # "idle"
  /\ Return("none")
  /\ UNCHANGED <<repull, daemon, steady, operator>>

-----------------------------------------------------------------------------
(* The surroundings.                                                       *)

\* The container exits, or is started by its restart policy or by hand.
Flip ==
  /\ Present
  /\ container' = [container EXCEPT !.running = ~@]
  /\ UNCHANGED <<repull, registry, local, attempt, steady, operator>>

\* The operator removes the container.
Withdraw ==
  /\ Present
  /\ container' = Absent
  /\ touched' = (touched \/ pc # "idle")
  /\ UNCHANGED <<repull, registry, local, attempt, steady, owned>>

\* The operator makes it again, with settings of a choice.
Provide(s) ==
  /\ ~Present
  /\ container' = [running |-> TRUE, version |-> local, settings |-> s]
  /\ owned' = s
  /\ touched' = (pc # "idle")
  /\ UNCHANGED <<repull, registry, local, attempt, steady>>

\* A new image is published under the same name.
Publish ==
  /\ registry < MaxVersion
  /\ registry' = registry + 1
  /\ UNCHANGED <<repull, container, local, attempt, steady, operator>>

\* The daemon becomes unreliable, or reliable.
Turn ==
  /\ steady' = ~steady
  /\ UNCHANGED <<repull, daemon, attempt, operator>>

AttemptStep == Restart \/ Inspect \/ Pull \/ Stop \/ Remove \/ Create \/ Start

Next ==
  \/ Begin
  \/ AttemptStep
  \/ Kill
  \/ Flip
  \/ Withdraw
  \/ \E s \in Settings : Provide(s)
  \/ Publish
  \/ Turn

\* The daemon answers every call, or the client's timeout does.
Spec == Init /\ [][Next]_vars /\ WF_vars(AttemptStep)

-----------------------------------------------------------------------------
(* Properties.                                                             *)

TypeOK ==
  /\ repull \in BOOLEAN
  /\ container \in Container \cup {Absent}
  /\ registry \in Version
  /\ local \in Version
  /\ pc \in Call \cup {"idle"}
  /\ captured \in Settings \cup {NoSettings}
  /\ pc \in {"pull", "stop", "remove", "create", "start"} <=> captured # NoSettings
  /\ outcome \in {"none", "Succeeded", "Failed"}
  /\ steady \in BOOLEAN
  /\ asked \in Version
  /\ owned \in Settings
  /\ touched \in BOOLEAN

\* Whatever attempts fail on the way, lose their answers or are killed, a container of
\* that name has the settings the operator gave it: the next attempt may capture what
\* a broken one has left.  Only an operator who replaces the container under a running
\* repull may find the old settings back.
SettingsKept == Present /\ ~touched => container.settings = owned

\* A repull that reports success leaves a container of an image not older than the one
\* the registry had when it began.
FreshImage ==
  [][repull /\ outcome' = "Succeeded" /\ outcome # "Succeeded"
       => container'.version >= asked]_vars

\* With a daemon that has become reliable, restarts that go on until they are not needed
\* either get the container to run again and again, or find none: a container
\* that was lost between its removal and its recreation is the one thing a further
\* restart does not repair.
RunsOrLost ==
  /\ <>[]steady
  /\ []<>(pc # "idle")
  /\ <>[][~Kill /\ ~Withdraw]_vars
  => []<>Running \/ <>[]~Present
=============================================================================
