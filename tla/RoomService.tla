---------------------------- MODULE RoomService -----------------------------
(***************************************************************************)
(* What RoomWorker promises its users: commands are accepted into one      *)
(* order until the service is closed, applied one at a time in that order, *)
(* and stop() returns when every accepted command has been applied.        *)
(***************************************************************************)
EXTENDS Naturals, Sequences

CONSTANT Commands

VARIABLES accepted, applied, open, returned

serviceVars == <<accepted, applied, open, returned>>

Init == accepted = <<>> /\ applied = 0 /\ open = TRUE /\ returned = FALSE

AcceptCommand ==
    /\ open
    /\ \E command \in Commands : accepted' = Append(accepted, command)
    /\ UNCHANGED <<applied, open, returned>>

ApplyNext ==
    /\ applied < Len(accepted)
    /\ applied' = applied + 1
    /\ UNCHANGED <<accepted, open, returned>>

CloseService == open' = FALSE /\ UNCHANGED <<accepted, applied, returned>>

StopReturns ==
    /\ ~open
    /\ applied = Len(accepted)
    /\ returned' = TRUE
    /\ UNCHANGED <<accepted, applied, open>>

Next == AcceptCommand \/ ApplyNext \/ CloseService \/ StopReturns

\* What the service may do, and what it has to do.
SafeSpec == Init /\ [][Next]_serviceVars
Spec == SafeSpec /\ WF_serviceVars(ApplyNext) /\ WF_serviceVars(StopReturns)
=============================================================================
