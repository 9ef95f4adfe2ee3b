-------------------------- MODULE MCGentlerServerCpp --------------------------
(* The C++ server with a user that does anything, and with the wait action as its user. *)
EXTENDS WaitActionCpp

VARIABLE user

MCTimeouts == {-1, 0, 1}

vars == <<user, cppVars, waitVars>>

Init == user \in {"any", "wait"} /\ CppInit /\ WaitInit

ByAny(A)  == user = "any" /\ A /\ UNCHANGED <<user, waitVars>>
ByWait(A) == user = "wait" /\ A /\ UNCHANGED user

OnMain    == ByAny(MainThread \/ UserOnMain) \/ ByWait(WaitOnMain)
OnLoop(g) == ByAny(LoopThread(g) \/ UserOnLoop(g)) \/ ByWait(WaitOnLoop(g))

\* As in CppSpec: both threads are scheduled and the callbacks of the user return.
Spec ==
    /\ Init /\ [][ByAny(CppNext) \/ ByWait(WaitNext)]_vars
    /\ WF_vars(OnMain)
    /\ \A g \in Goals : WF_vars(OnLoop(g))

\* Every variable of the server and of the wait action holds a value of its kind.
ServerTypeOK == CppTypeOK /\ WaitTypeOK
=============================================================================
