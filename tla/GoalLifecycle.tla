---------------------------- MODULE GoalLifecycle ----------------------------
(***************************************************************************)
(* What an action server promises about each goal, whatever its threads    *)
(* do: the goal is sent, rejected or accepted, may be asked to stop, ends  *)
(* once, and its result, set once, tells how it ended.                     *)
(***************************************************************************)
CONSTANTS Goals, None

VARIABLES
    phase,      \* goal -> where it is in its life
    result      \* goal -> what its result reports, None before

vars == <<phase, result>>

Phases == {"unsent", "sent", "rejected", "accepted", "canceling", "succeeded", "aborted", "canceled"}

Init ==
    /\ phase = [g \in Goals |-> "unsent"]
    /\ result = [g \in Goals |-> None]

Become(g, from, to) ==
    /\ phase[g] \in from
    /\ phase' = [phase EXCEPT ![g] = to]

Send(g)   == Become(g, {"unsent"}, "sent") /\ UNCHANGED result
Reject(g) == Become(g, {"sent"}, "rejected") /\ UNCHANGED result
Accept(g) == Become(g, {"sent"}, "accepted") /\ UNCHANGED result
Cancel(g) == Become(g, {"accepted"}, "canceling") /\ UNCHANGED result

\* Only a goal that was asked to stop may be called canceled; it may also run to its end.
End(g) ==
    /\ \/ Become(g, {"accepted", "canceling"}, "succeeded")
       \/ Become(g, {"accepted", "canceling"}, "aborted")
       \/ Become(g, {"canceling"}, "canceled")
    /\ result[g] = None
    /\ result' = [result EXCEPT ![g] = IF phase'[g] = "succeeded" THEN "success" ELSE "failure"]

\* A goal asked to stop before its execution began is aborted and has no result.
AbortUnstarted(g) == Become(g, {"canceling"}, "aborted") /\ UNCHANGED result

Next == \E g \in Goals :
    Send(g) \/ Reject(g) \/ Accept(g) \/ Cancel(g) \/ End(g) \/ AbortUnstarted(g)

Spec == Init /\ [][Next]_vars

=============================================================================
