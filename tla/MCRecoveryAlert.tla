--------------------------- MODULE MCRecoveryAlert ---------------------------
(* One service with one restart and a log.                                 *)
EXTENDS RecoveryAlert

MCMode == [s \in Service |-> "manual"]
MCMaxRestarts == [s \in Service |-> 1]
MCServiceOf == [u \in Upstream |-> CHOOSE s \in Service : TRUE]
MCTargets == [s \in Service |-> <<"log">>]
=============================================================================
