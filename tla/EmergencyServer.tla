--------------------------- MODULE EmergencyServer ---------------------------
(***************************************************************************)
(* The emergency action of SAM, Lolo and Evolo: its execution publishes    *)
(* the commands that stop the vehicle until abort_active is cleared, a     *)
(* flag that all goals of the server share.  The servers of Lolo and Evolo *)
(* look at the cancel request of the goal as well; that of SAM does not.   *)
(***************************************************************************)
EXTENDS VehicleServer, Naturals

VARIABLES
    abort_active,
    sees_cancel,        \* the loop looks at is_cancel_requested
    published_after,    \* goal -> commands published while it is canceling, to 2 (auxiliary)
    overruled           \* goals whose cancel callback ran before the flag was raised (auxiliary)

emergencyVars == <<abort_active, sees_cancel, published_after, overruled>>

EmergencyInit ==
    /\ abort_active = FALSE
    /\ sees_cancel \in BOOLEAN
    /\ published_after = [g \in Goals |-> 0]
    /\ overruled = {}

\* Only level 1 is accepted; a level that is neither 0 nor 1 raises, and is refused.
OnEmergencyGoal(g) ==
    /\ \E accepted \in BOOLEAN : TakeGoal(g, accepted)
    /\ UNCHANGED emergencyVars

\* Mutant: the cancel is left to the goal handle.
OnEmergencyCancelOnly(g) == TakeCancel(g) /\ UNCHANGED emergencyVars

OnEmergencyCancel(g) ==
    /\ TakeCancel(g)
    /\ abort_active' = FALSE
    /\ UNCHANGED <<sees_cancel, published_after, overruled>>

RaiseAbort(g) ==
    /\ Advance(g, "start", "test")
    /\ abort_active' = TRUE
    /\ overruled' = overruled \cup cancel_due \cup {h \in Goals : handle[h] = "CANCELING"}
    /\ UNCHANGED <<sees_cancel, published_after>>

LookAtFlag(g) ==
    /\ \/ abort_active /\ Advance(g, "test", "inner")
       \/ ~abort_active /\ execution[g] = "test" /\ EndExecution(g, {}, "ABORTED")
    /\ UNCHANGED emergencyVars

SeeCancel(g) ==
    /\ sees_cancel /\ handle[g] = "CANCELING"
    /\ execution[g] = "inner" /\ EndExecution(g, {"CANCELING"}, "CANCELED")
    /\ UNCHANGED emergencyVars

PublishEmergency(g) ==
    /\ ~(sees_cancel /\ handle[g] = "CANCELING")
    /\ Advance(g, "inner", "test")
    /\ published_after' = [published_after EXCEPT ![g] =
                            IF handle[g] = "CANCELING" /\ @ < 2 THEN @ + 1 ELSE @]
    /\ UNCHANGED <<abort_active, sees_cancel, overruled>>

EmergencyNext == \E g \in Goals :
    \/ OnEmergencyGoal(g) \/ OnEmergencyCancel(g)
    \/ RaiseAbort(g) \/ LookAtFlag(g) \/ SeeCancel(g) \/ PublishEmergency(g)
    \/ (RejectGoal(g) \/ HandOver(g) \/ AcceptCancel(g)) /\ UNCHANGED emergencyVars

EmergencySpec == ServerInit /\ EmergencyInit /\ [][EmergencyNext]_<<handleVars, emergencyVars>>

----------------------------------------------------------------------------
(* Properties *)

\* The members of the action hold values of their kinds.
EmergencyTypeOK ==
    /\ abort_active \in BOOLEAN /\ sees_cancel \in BOOLEAN
    /\ published_after \in [Goals -> 0 .. 2]
    /\ overruled \subseteq Goals

\* A cancelled abort publishes at most one more command that stops the vehicle, however the
\* cancel crosses the start of the execution or the next goal: on Lolo and Evolo always, on
\* SAM unless the flag that the cancel callback has cleared is raised after it.
CancelledAbortsStop ==
    \A g \in Goals : published_after[g] > 1 => ~sees_cancel /\ g \in overruled
=============================================================================
