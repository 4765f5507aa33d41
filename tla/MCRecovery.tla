----------------------------- MODULE MCRecovery -----------------------------
(* Episode: one service with two restarts.  Shared: several services share *)
(* the coordinator, one restarted by command, one by Docker, one never.    *)
EXTENDS RecoveryEngine

EpisodeMode == [s \in Service |-> "manual"]
EpisodeMaxRestarts == [s \in Service |-> 2]

SharedMode == [s \in Service |-> CASE s = "web" -> "manual"
                                  [] s = "db" -> "docker"
                                  [] OTHER -> "none"]
SharedMaxRestarts == [s \in Service |-> 1]
=============================================================================
