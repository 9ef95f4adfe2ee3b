------------------------------- MODULE AlarsBT -------------------------------
(***************************************************************************)
(* The tree that finds an AUV from the air and lifts it: recover it with   *)
(* or without its buoy, circle over it to see the buoy, search around its  *)
(* last position, search everywhere.                                       *)
(***************************************************************************)
EXTENDS ActionTree

CONSTANTS
    NumRetries,         \* num_retries of the goals
    VultureRanges       \* len(VULTURE_RANGES)

ASSUME AlarsBTAssumption == NumRetries \in Nat /\ VultureRanges \in Nat

VARIABLES
    search_fail_count, recover_fail_count, vulture_timeout_count, recovery_success,
    seen_auv,           \* an estimate of the AUV has come, now or earlier
    bad_value,          \* the value of the goal that cannot be used, "none" if they all can
    failed_searches,    \* searches that failed, or that could not be asked for, since the
                        \* loop was prepared (auxiliary)
    lifted              \* the load cell was heavy after a recovery of this goal (auxiliary)

alarsVars == <<search_fail_count, recover_fail_count, vulture_timeout_count, recovery_success,
               seen_auv, bad_value, failed_searches, lifted>>

AlarsBranches == <<"recover_buoy", "recover_no_buoy", "vulture", "search_local", "search_global">>

Recoveries == {"recover_buoy", "recover_no_buoy"}
Searches   == {"search_local", "search_global"}

\* Nothing but the presence of its fields is checked of a goal.  As the first node that finds
\* a value it cannot use ends the goal, one such value is enough: num_retries no number,
\* search_position without altitude, or without the rest of a position.
GoalValues == {"none", "num_retries", "altitude", "position"}

AlarsInit ==
    /\ search_fail_count = 0 /\ recover_fail_count = 0 /\ vulture_timeout_count = 0
    /\ recovery_success = FALSE
    /\ seen_auv = FALSE /\ bad_value = "none"
    /\ failed_searches = 0 /\ lifted = FALSE

\* Mutant: the count of failed searches is not reset.
ResetStatesButSearches ==
    /\ recover_fail_count' = 0 /\ vulture_timeout_count' = 0
    /\ recovery_success' = FALSE
    /\ UNCHANGED <<search_fail_count, seen_auv>>

ResetStates ==
    /\ search_fail_count' = 0 /\ recover_fail_count' = 0 /\ vulture_timeout_count' = 0
    /\ recovery_success' = FALSE
    /\ UNCHANGED seen_auv

KeepGoal == UNCHANGED <<bad_value, failed_searches, lifted>>

\* The estimates have an age, so each look at them finds any of these; an AUV whose position
\* is live has been seen.
Live   == IF seen_auv THEN BOOLEAN ELSE {FALSE}
SeeAuv == /\ ~seen_auv /\ seen_auv'  = TRUE
          /\ UNCHANGED <<treeVars, search_fail_count, recover_fail_count, vulture_timeout_count,
                         recovery_success, bad_value, failed_searches, lifted>>

PostCondition(b, auv_live, buoy_live) ==
    CASE b \in Recoveries -> recovery_success
      [] b = "vulture"    -> auv_live /\ buoy_live
      [] b \in Searches   -> auv_live

PreCondition(b, auv_live, buoy_live) ==
    CASE b = "recover_buoy"    -> recover_fail_count < NumRetries /\ buoy_live /\ auv_live
      [] b = "recover_no_buoy" -> recover_fail_count < NumRetries /\ auv_live
                                  /\ vulture_timeout_count >= VultureRanges
      [] b = "vulture"         -> auv_live /\ vulture_timeout_count < VultureRanges
      [] b = "search_local"    -> seen_auv /\ search_fail_count < NumRetries
      [] b = "search_global"   -> search_fail_count < NumRetries

\* float(num_retries) is the first that these pre-conditions evaluate, and the second that the
\* one of the local search does.
PreRaises(b) ==
    bad_value = "num_retries" /\ b # "vulture" /\ (b = "search_local" => seen_auv)

LookAtConditions(b) ==
    /\ \E auv_live \in Live, buoy_live \in BOOLEAN :
        \/ PostCondition(b, auv_live, buoy_live) /\ PostHolds(b)
        \/ ~PostCondition(b, auv_live, buoy_live) /\ PostFails(b)
        \/ ~PreRaises(b) /\ PreCondition(b, auv_live, buoy_live) /\ PreHolds(b)
        \/ ~PreRaises(b) /\ ~PreCondition(b, auv_live, buoy_live) /\ PreFails(b)
        \/ PreRaises(b) /\ At(b, "pre") /\ NodeRaises
    /\ UNCHANGED alarsVars

\* The goal of an action is put together before _set_goal catches anything.  That of the local
\* search is not, when the position of the AUV cannot be converted: then the search has failed.
SetRaises(b) ==
    \/ bad_value = "altitude" /\ b \notin Recoveries
    \/ bad_value = "position" /\ b = "search_global"

SetGoal(b) ==
    /\ At(b, "set")
    /\ \/ SetRaises(b) /\ NodeRaises
       \/ /\ \/ ~SetRaises(b) /\ Go(b, "act")
             \/ b = "search_local" /\ Go(b, "failed")
          /\ UNCHANGED <<order, root, leaf_status, client, owed, goal, outcome, user_failure>>
    /\ UNCHANGED alarsVars

\* The weight after a recovery; a stale one counts as well.
CheckRecovery(b, hanging) ==
    /\ b \in Recoveries /\ At(b, "succeeded")
    /\ recovery_success' = hanging
    /\ lifted' = (lifted \/ hanging)
    /\ IF hanging THEN BranchHolds(b)
       ELSE Go(b, "failed")
            /\ UNCHANGED <<order, root, leaf_status, client, owed, goal, outcome, user_failure>>
    /\ UNCHANGED <<search_fail_count, recover_fail_count, vulture_timeout_count,
                   seen_auv, bad_value, failed_searches>>

CountRecoverFail(b) ==
    /\ b \in Recoveries /\ At(b, "failed")
    /\ recover_fail_count' = recover_fail_count + 1
    /\ BranchHolds(b)
    /\ UNCHANGED <<search_fail_count, vulture_timeout_count, recovery_success, seen_auv,
                   bad_value, failed_searches, lifted>>

CountSearchFail(b) ==
    /\ b \in Searches /\ At(b, "failed")
    /\ search_fail_count' = search_fail_count + 1
    /\ failed_searches' = IF failed_searches < NumRetries THEN failed_searches + 1
                        ELSE failed_searches
    /\ BranchHolds(b)
    /\ UNCHANGED <<recover_fail_count, vulture_timeout_count, recovery_success, seen_auv, bad_value,
                   lifted>>

\* A search that ends well holds without a look at what it has found.
SearchEnds(b) ==
    /\ b \in Searches /\ At(b, "succeeded")
    /\ BranchHolds(b)
    /\ UNCHANGED alarsVars

CountVultureTimeout ==
    /\ At("vulture", "succeeded")
    /\ vulture_timeout_count' = vulture_timeout_count + 1
    /\ BranchHolds("vulture")
    /\ UNCHANGED <<search_fail_count, recover_fail_count, recovery_success, seen_auv,
                   bad_value, failed_searches, lifted>>

VultureFails == At("vulture", "failed") /\ BranchFails("vulture") /\ UNCHANGED alarsVars

LoopInner ==
    IF recovery_success THEN LoopReturns("success") /\ ResetStates /\ KeepGoal
    ELSE IF root = "FAILURE" THEN LoopReturns("failure") /\ ResetStates /\ KeepGoal
    ELSE LoopReturns("running") /\ UNCHANGED alarsVars

OnGoalReceived ==
    /\ \E accepted \in BOOLEAN :
        /\ GoalReceived(accepted)
        /\ bad_value' \in IF accepted THEN GoalValues ELSE {bad_value}
    /\ ResetStates
    /\ UNCHANGED <<failed_searches, lifted>>

OnCancelReceived == CancelReceived /\ ResetStates /\ KeepGoal

PrepareLoop ==
    /\ Prepare /\ ResetStates
    /\ failed_searches' = 0 /\ lifted' = FALSE
    /\ UNCHANGED bad_value

AlarsNext ==
    \/ TreeSteps /\ UNCHANGED alarsVars
    \/ SeeAuv \/ OnGoalReceived \/ OnCancelReceived \/ PrepareLoop \/ LoopInner
    \/ LoopRaised /\ UNCHANGED alarsVars
    \/ CountVultureTimeout \/ VultureFails
    \/ \E b \in Branches :
        \/ LookAtConditions(b) \/ SetGoal(b) \/ CountRecoverFail(b) \/ CountSearchFail(b)
        \/ SearchEnds(b)
        \/ \E hanging \in BOOLEAN : CheckRecovery(b, hanging)

AlarsSpec == TreeInit(AlarsBranches) /\ AlarsInit /\ [][AlarsNext]_<<treeVars, alarsVars>>

----------------------------------------------------------------------------
(* Properties *)

AlarsTypeOK ==
    /\ search_fail_count \in 0 .. NumRetries
    /\ recover_fail_count \in 0 .. NumRetries
    /\ vulture_timeout_count \in 0 .. VultureRanges
    /\ recovery_success \in BOOLEAN /\ seen_auv \in BOOLEAN
    /\ bad_value \in GoalValues

\* A goal of the tree succeeds only with an AUV that its own recoveries have lifted, and one
\* with usable values fails only after as many of its own searches as it allows have failed or
\* could not be asked for: what earlier goals and their cancels have left in the states never
\* decides.
OutcomesAreEarned ==
    order = AlarsBranches =>
        /\ outcome = "success" => lifted
        /\ outcome = "failure" /\ bad_value = "none" => failed_searches >= NumRetries
=============================================================================
