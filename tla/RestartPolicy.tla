---------------------------- MODULE RestartPolicy ----------------------------
(***************************************************************************)
(* What the recovery engine promises, without its poll, its snapshot, its  *)
(* counters and its backoff: one restart at a time; in one outage of a     *)
(* service no more restarts than its limit; one give-up at most, and no    *)
(* restart of the outage after it.  A service may be restarted although it *)
(* has just recovered: the decision was made earlier.                      *)
(***************************************************************************)
EXTENDS Naturals

CONSTANTS
  Service,  \* the ids of the [[services]] blocks
  Limit,    \* Limit[s]: how often s may be restarted in one outage
  Nobody    \* no service is being restarted

VARIABLES
  outage,   \* the services that are down
  spent,    \* restarts of a service in its present outage
  given_up, \* the services given up in their present outage
  busy      \* the service being restarted

policy == <<outage, spent, given_up, busy>>

Init ==
  /\ outage = {}
  /\ spent = [s \in Service |-> 0]
  /\ given_up = {}
  /\ busy = Nobody

OutageBegins(s) ==
  /\ s \notin outage
  /\ outage' = outage \cup {s}
  /\ UNCHANGED <<spent, given_up, busy>>

\* With the outage end its restarts and its give-up.
OutageEnds(s) ==
  /\ s \in outage
  /\ outage' = outage \ {s}
  /\ spent' = [spent EXCEPT ![s] = 0]
  /\ given_up' = given_up \ {s}
  /\ UNCHANGED busy

Restart(s) ==
  /\ busy = Nobody
  /\ s \in outage => spent[s] < Limit[s] /\ s \notin given_up
  /\ busy' = s
  /\ spent' = IF s \in outage THEN [spent EXCEPT ![s] = @ + 1] ELSE spent
  /\ UNCHANGED <<outage, given_up>>

RestartEnds ==
  /\ busy # Nobody
  /\ busy' = Nobody
  /\ UNCHANGED <<outage, spent, given_up>>

\* While a restart is under way nobody is given up: one coordinator does both.
GiveUp(s) ==
  /\ busy = Nobody
  /\ s \in outage \ given_up
  /\ given_up' = given_up \cup {s}
  /\ UNCHANGED <<outage, spent, busy>>

Next ==
  \/ \E s \in Service : OutageBegins(s) \/ OutageEnds(s) \/ Restart(s) \/ GiveUp(s)
  \/ RestartEnds

Spec == Init /\ [][Next]_policy
=============================================================================
