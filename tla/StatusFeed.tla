----------------------------- MODULE StatusFeed -----------------------------
(***************************************************************************)
(* What the rest of Vela sees of the health engine: the statuses in the    *)
(* store, and the changes that are written but not yet broadcast.  The     *)
(* task that has written a change sends its event after the lock is        *)
(* released, so the events of sibling upstreams may overtake each other.   *)
(* There are no checks here, only what checks can make of a status.        *)
(* HealthEngine implements this module; AlertEngine builds on it.          *)
(***************************************************************************)
EXTENDS Naturals

CONSTANTS
  Service,    \* the ids of the [[services]] blocks
  Upstream,   \* their upstreams, each with a task that checks it
  ServiceOf   \* ServiceOf[u]: the service upstream u belongs to

ASSUME FeedAssumption == ServiceOf \in [Upstream -> Service]

VARIABLES
  status,     \* ServiceState.status
  unsent      \* unsent[u]: the new status that the task of u has still to broadcast

Status == {"Unknown", "Healthy", "Degraded", "Failed"}
Failure == {"Degraded", "Failed"}

\* No change waits to be sent.
NoChange == "none"

Siblings(u) == {v \in Upstream : ServiceOf[v] = ServiceOf[u]} \ {u}

\* What a check of u can make of its service's status.  A service with several
\* upstreams passes Degraded on its way to and from Failed, and falls back to Unknown
\* when its failed upstreams have recovered before the others are checked at all.  It
\* is Failed (Healthy) only after the last check of every sibling has failed (passed),
\* and a sibling with a change to send has made no check since.
Feasible(u, new) ==
  LET old == status[ServiceOf[u]]
  IN  /\ new = "Unknown" => old = "Degraded" /\ Siblings(u) # {}
      /\ Siblings(u) # {} /\ "Failed" \in {old, new} => "Degraded" \in {old, new}
      /\ \A v \in Siblings(u) : unsent[v] # NoChange =>
           /\ new = "Failed" => unsent[v] \in Failure
           /\ new = "Healthy" => unsent[v] # "Failed"

FeedInit ==
  /\ status = [s \in Service |-> "Unknown"]
  /\ unsent = [u \in Upstream |-> NoChange]

\* The critical section of a check that changes the status.
ChangeStatus(u) ==
  LET s == ServiceOf[u]
  IN  /\ unsent[u] = NoChange
      /\ \E new \in Status \ {status[s]} :
           /\ Feasible(u, new)
           /\ status' = [status EXCEPT ![s] = new]
           /\ unsent' = [unsent EXCEPT ![u] = new]

\* The send behind it.
TakeChange(u) ==
  /\ unsent[u] # NoChange
  /\ unsent' = [unsent EXCEPT ![u] = NoChange]
  /\ UNCHANGED status

FeedNext == \E u \in Upstream : ChangeStatus(u) \/ TakeChange(u)

FeedSpec == FeedInit /\ [][FeedNext]_<<status, unsent>>
=============================================================================
