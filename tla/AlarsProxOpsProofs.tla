--------------------------- MODULE AlarsProxOpsProofs ---------------------------
(***************************************************************************)
(* Proofs about the trees of ALARS and of the proximity operations, for    *)
(* any number of retries, any time-outs and any number of goals that wait  *)
(* for their answers.                                                      *)
(***************************************************************************)
EXTENDS AlarsBT, ProxOpsBT, FiniteSetTheorems, SequenceTheorems, TLAPS

\* The root has branches, each once.
OrderOK ==
    /\ order \in Seq(Branches) /\ Len(order) >= 1
    /\ \A i, j \in 1 .. Len(order) : order[i] = order[j] => i = j
    /\ NoBranch \notin Branches

\* No two leaves run, nor does that of a branch the tick has gone past; a branch that looks
\* at its pre-condition or has seen its action end has a leaf that does not run.
LeavesOK == \A b \in Branches : leaf_status[b] = "RUNNING" =>
    /\ \A c \in Branches : Index(b) < Index(c) => leaf_status[c] # "RUNNING"
    /\ at[1] \in Branches => Index(at[1]) <= Index(b)
    /\ at[1] = b => at[2] \in {"post", "act"}

\* A goal has no outcome before it is over.
OutcomeOK == at # Off => outcome = "none"

TreeInv == OrderOK /\ TreeTypeOK /\ LeavesOK /\ OutcomeOK

----------------------------------------------------------------------------
(* The order of the branches *)

\* Every branch has its place; those after it have later ones.
LEMMA Places ==
    ASSUME OrderOK
    PROVE  /\ \A b \in Branches : Index(b) \in 1 .. Len(order) /\ order[Index(b)] = b
           /\ \A i \in 1 .. Len(order) : order[i] \in Branches /\ Index(order[i]) = i
           /\ \A b \in Branches : After(b) = {c \in Branches : Index(b) < Index(c)}
           /\ \A b \in Branches : After(b) # {} => Index(b) + 1 \in 1 .. Len(order)
           /\ Len(order) \in Nat /\ 1 \in 1 .. Len(order) /\ IsFiniteSet(Branches)
<1>0. Len(order) \in Nat /\ 1 \in 1 .. Len(order)
  BY LenProperties DEF OrderOK
<1>1. \A b \in Branches : Index(b) \in 1 .. Len(order) /\ order[Index(b)] = b
  BY DEF Branches, Index
<1>2. \A i \in 1 .. Len(order) : order[i] \in Branches
  BY DEF Branches
<1>3. \A i \in 1 .. Len(order) : Index(order[i]) = i
  BY <1>1, <1>2 DEF OrderOK
<1>4. ASSUME NEW b \in Branches PROVE After(b) = {c \in Branches : Index(b) < Index(c)}
  <2>1. ASSUME NEW c \in After(b) PROVE c \in Branches /\ Index(b) < Index(c)
    BY <1>0, <1>1, <1>2, <1>3 DEF After
  <2>2. ASSUME NEW c \in Branches, Index(b) < Index(c) PROVE c \in After(b)
    BY <1>0, <1>1, <2>2 DEF After
  <2> QED
    BY <2>1, <2>2
<1>5. ASSUME NEW b \in Branches, After(b) # {} PROVE Index(b) + 1 \in 1 .. Len(order)
  BY <1>0, <1>1, <1>5 DEF After
<1>6. IsFiniteSet(Branches)
  <2>1. IsFiniteSet(1 .. Len(order))
    BY <1>0, FS_Interval
  <2>2. order \in [1 .. Len(order) -> Branches]
    BY <1>2, LenProperties DEF OrderOK
  <2>3. order \in Surjection(1 .. Len(order), Branches)
    BY <1>1, <2>2 DEF Surjection
  <2> QED
    BY <2>1, <2>3, FS_Surjection
<1> QED
  BY <1>0, <1>1, <1>2, <1>3, <1>4, <1>5, <1>6

\* The order is given once and for all.
LEMMA SameOrder ==
    ASSUME UNCHANGED order
    PROVE  /\ Branches' = Branches
           /\ \A b : Index(b)' = Index(b) /\ After(b)' = After(b)
           /\ OrderOK => OrderOK'
BY DEF Branches, Index, After, OrderOK

----------------------------------------------------------------------------
(* Ticks *)

\* A step from one node of the tree to another with no leaf started.
LEMMA GoKeeps ==
    ASSUME TreeInv, NEW b \in Branches, NEW c \in Branches,
           NEW n \in {"post", "pre", "set", "act", "failed", "succeeded"}, at[1] = b,
           at' = <<c, n>>, UNCHANGED <<order, root, owed, goal, outcome, user_failure>>,
           client' \in [Branches -> ClientStates],
           leaf_status' \in [Branches -> {"INVALID", "RUNNING", "OVER"}],
           \A d \in Branches : leaf_status'[d] = "RUNNING" => leaf_status[d] = "RUNNING",
           leaf_status'[c] = "RUNNING" => n \in {"post", "act"},
           \/ c = b
           \/ leaf_status[b] # "RUNNING" /\ Index(c) = Index(b) + 1
    PROVE  TreeInv'
<1> USE SameOrder, Places DEF TreeInv
<1>1. at # Off /\ at' # Off /\ b # NoBranch /\ c # NoBranch
  BY DEF Off, OrderOK
<1>2. TreeTypeOK'
  BY <1>1 DEF TreeTypeOK
<1>3. LeavesOK'
  BY DEF LeavesOK
<1>4. OutcomeOK'
  BY <1>1 DEF OutcomeOK
<1> QED
  BY <1>2, <1>3, <1>4

\* The end of a tick, which may have started the leaf of the branch it ends with.
LEMMA EndTickKeeps ==
    ASSUME TreeInv, NEW b \in Branches, NEW result \in {"SUCCESS", "RUNNING", "FAILURE"},
           at[1] = b, EndTick(result), UNCHANGED <<order, goal, outcome, user_failure>>,
           owed' \subseteq Branches, Cardinality(owed') <= MaxOwed,
           client' \in [Branches -> ClientStates],
           leaf_status' \in [Branches -> {"INVALID", "RUNNING", "OVER"}],
           \A d \in Branches \ {b} : leaf_status'[d] = "RUNNING" => leaf_status[d] = "RUNNING",
           leaf_status'[b] = "RUNNING" => \A d \in After(b) : leaf_status'[d] # "RUNNING"
    PROVE  TreeInv'
<1> USE SameOrder, Places DEF TreeInv, EndTick
<1>1. at # Off /\ at' # Off /\ b # NoBranch /\ NoBranch \notin Branches
  BY DEF Off, OrderOK
<1>2. TreeTypeOK'
  BY <1>1 DEF TreeTypeOK
<1>3. LeavesOK'
  BY <1>1 DEF LeavesOK
<1>4. OutcomeOK'
  BY <1>1 DEF OutcomeOK
<1> QED
  BY <1>2, <1>3, <1>4

\* A step of the loop, or of a callback, that leaves the leaves in the tree alone.
LEMMA LoopKeeps ==
    ASSUME TreeInv, UNCHANGED <<order, root, leaf_status, owed>>,
           client' \in [Branches -> ClientStates],
           \/ UNCHANGED at
           \/ at' \in {<<NoBranch, n>> : n \in {"off", "prepare", "top", "ticked", "raised"}}
           \/ at' = <<order[1], "post">>,
           goal' \in {"none", "executing", "asked", "canceling"},
           goal' = "none" <=> at' = Off,
           outcome' \in {"none", "success", "failure", "canceled"},
           at' # Off => outcome' = "none",
           user_failure' \in BOOLEAN
    PROVE  TreeInv'
<1> USE SameOrder, Places DEF TreeInv
<1>1. NoBranch \notin Branches /\ order[1] \in Branches /\ Index(order[1]) = 1
  BY DEF OrderOK
<1>2. TreeTypeOK'
  BY <1>1 DEF TreeTypeOK
<1>3. LeavesOK'
  BY <1>1 DEF LeavesOK
<1>4. OutcomeOK'
  BY DEF OutcomeOK
<1> QED
  BY <1>2, <1>3, <1>4

\* Whichever leaves are stopped, what is left are clients and leaves of the same kinds.
LEMMA StopKeeps ==
    ASSUME TreeInv, NEW bs \in SUBSET Branches, StopLeaves(bs)
    PROVE  /\ client' \in [Branches -> ClientStates]
           /\ leaf_status' \in [Branches -> {"INVALID", "RUNNING", "OVER"}]
           /\ \A d \in Branches : leaf_status'[d] =
                    IF d \in bs THEN "INVALID" ELSE leaf_status[d]
BY DEF StopLeaves, TreeInv, TreeTypeOK, ClientStates

\* The conditions of a branch, and what they lead to.
LEMMA ConditionsKeep ==
    ASSUME TreeInv, NEW b \in Branches, PostHolds(b) \/ PostFails(b) \/ PreHolds(b) \/ PreFails(b)
    PROVE  TreeInv'
<1> USE Places
<1>0. TreeTypeOK /\ OrderOK /\ After(b) \subseteq Branches
  BY DEF TreeInv
<1>1. CASE PostHolds(b)
  <2>1. StopLeaves({b} \cup After(b)) /\ {b} \cup After(b) \in SUBSET Branches
    BY <1>0, <1>1 DEF PostHolds
  <2> QED
    BY <1>0, <1>1, <2>1, StopKeeps, EndTickKeeps DEF PostHolds, At, TreeTypeOK
<1>2. CASE PostFails(b)
  <2>1. CASE leaf_status[b] = "RUNNING"
    BY <1>0, <1>2, <2>1, GoKeeps DEF PostFails, At, Go, TreeTypeOK
  <2>2. CASE leaf_status[b] # "RUNNING"
    BY <1>0, <1>2, <2>2, GoKeeps, StopKeeps DEF PostFails, At, Go, TreeTypeOK
  <2> QED
    BY <2>1, <2>2
<1>3. CASE PreHolds(b)
  BY <1>0, <1>3, GoKeeps DEF PreHolds, At, Go, TreeTypeOK, TreeInv, LeavesOK
<1>4. CASE PreFails(b)
  <2>1. leaf_status[b] # "RUNNING"
    BY <1>4 DEF PreFails, At, TreeInv, LeavesOK
  <2>2. CASE After(b) = {}
    BY <1>0, <1>4, <2>1, <2>2, EndTickKeeps DEF PreFails, BranchFails, At, TreeTypeOK
  <2>3. CASE After(b) # {}
    BY <1>0, <1>4, <2>1, <2>3, GoKeeps DEF PreFails, BranchFails, At, Go, TreeTypeOK
  <2> QED
    BY <2>2, <2>3
<1> QED
  BY <1>1, <1>2, <1>3, <1>4

\* The end of a branch, one way or the other.
LEMMA BranchEndKeeps ==
    ASSUME TreeInv, NEW b \in Branches, At(b, "failed") \/ At(b, "succeeded"),
           BranchHolds(b) \/ BranchFails(b)
    PROVE  TreeInv'
<1> USE Places
<1>0. TreeTypeOK /\ OrderOK /\ After(b) \subseteq Branches /\ leaf_status[b] # "RUNNING"
  BY DEF TreeInv, LeavesOK, At
<1>1. CASE BranchHolds(b)
  BY <1>0, <1>1, StopKeeps, EndTickKeeps DEF BranchHolds, At, TreeTypeOK
<1>2. CASE BranchFails(b) /\ After(b) = {}
  BY <1>0, <1>2, EndTickKeeps DEF BranchFails, At, TreeTypeOK
<1>3. CASE BranchFails(b) /\ After(b) # {}
  BY <1>0, <1>3, GoKeeps DEF BranchFails, At, Go, TreeTypeOK
<1> QED
  BY <1>1, <1>2, <1>3

\* The leaves and the answers of their servers.
LEMMA LeavesKeep ==
    ASSUME TreeInv, NEW b \in Branches, Answer(b) \/ ActRuns(b) \/ ActEnds(b)
    PROVE  TreeInv'
<1> USE Places
<1>0. TreeTypeOK /\ OrderOK /\ After(b) \subseteq Branches /\ IsFiniteSet(owed)
  BY FS_Subset DEF TreeInv, TreeTypeOK
<1>1. CASE Answer(b)
  <2>1. owed' \subseteq owed /\ Cardinality(owed') <= MaxOwed
    <3>1. Cardinality(owed) \in Nat /\ Cardinality(owed) <= MaxOwed
      BY <1>0, FS_CardinalityType DEF TreeTypeOK
    <3>2. Cardinality(owed \ {b}) = IF b \in owed THEN Cardinality(owed) - 1 ELSE Cardinality(owed)
      BY <1>0, FS_RemoveElement
    <3>3. owed' = owed \/ owed' = owed \ {b}
      BY <1>1 DEF Answer
    <3>4. Cardinality(owed \ {b}) <= MaxOwed
      BY <3>1, <3>2, ActionTreeAssumption
    <3> QED
      BY <3>1, <3>3, <3>4, Zenon
  <2>2. client' \in [Branches -> ClientStates]
    BY <1>0, <1>1 DEF Answer, TreeTypeOK
  <2>3. TreeTypeOK' /\ LeavesOK' /\ OutcomeOK' /\ OrderOK'
    BY <1>0, <1>1, <2>1, <2>2, SameOrder DEF Answer, TreeInv, TreeTypeOK, LeavesOK, OutcomeOK, Off
  <2> QED
    BY <2>3 DEF TreeInv
<1>2. CASE ActRuns(b)
  <2>1. owed' \subseteq Branches /\ Cardinality(owed') <= MaxOwed
    <3>1. Cardinality({b}) = 1 /\ IsFiniteSet(owed \cup {b}) /\ Cardinality(owed \cup {b}) \in Nat
      BY <1>0, FS_Singleton, FS_AddElement, FS_CardinalityType
    <3>2. owed' = owed \/ (owed' = owed \cup {b} /\ ~(Cardinality(owed \cup {b}) > MaxOwed))
          \/ owed' = {b}
      BY <1>2 DEF ActRuns, Send
    <3>3. Cardinality({b}) <= MaxOwed /\ Cardinality(owed) <= MaxOwed
          /\ (~(Cardinality(owed \cup {b}) > MaxOwed) => Cardinality(owed \cup {b}) <= MaxOwed)
      BY <1>0, <3>1, ActionTreeAssumption DEF TreeTypeOK
    <3> QED
      BY <1>0, <3>2, <3>3, Zenon DEF TreeTypeOK
  <2>2. client' \in [Branches -> ClientStates]
    BY <1>0, <1>2 DEF ActRuns, TreeTypeOK, ClientStates
  <2>3. leaf_status' \in [Branches -> {"INVALID", "RUNNING", "OVER"}]
    BY <1>0, <1>2 DEF ActRuns, TreeTypeOK
  <2> QED
    BY <1>0, <1>2, <2>1, <2>2, <2>3, EndTickKeeps DEF ActRuns, At
<1>3. CASE ActEnds(b)
  BY <1>0, <1>3, GoKeeps DEF ActEnds, At, Go, TreeTypeOK, ClientStates
<1> QED
  BY <1>1, <1>2, <1>3

\* The loop of the server and its callbacks.
LEMMA ServerKeeps ==
    ASSUME TreeInv,
           \/ \E accepted \in BOOLEAN : GoalReceived(accepted)
           \/ GoalUnreadable \/ Prepare \/ Top \/ CancelReceived \/ CancelAccepted
           \/ \E verdict \in {"running", "success", "failure"} : LoopReturns(verdict)
    PROVE  TreeInv'
<1>0. TreeTypeOK /\ OutcomeOK
  BY DEF TreeInv
<1>1. ResetLeaves => client' \in [Branches -> ClientStates]
  BY DEF ResetLeaves, ClientStates
<1> USE <1>0, <1>1, LoopKeeps DEF TreeTypeOK, OutcomeOK, Off, LoopAt
<1>2. CASE \E accepted \in BOOLEAN : GoalReceived(accepted)
  BY <1>2 DEF GoalReceived
<1>3. CASE GoalUnreadable
  BY <1>3 DEF GoalUnreadable
<1>4. CASE Prepare
  BY <1>4 DEF Prepare
<1>5. CASE Top
  BY <1>5 DEF Top, EndGoal, Go
<1>6. CASE CancelReceived \/ CancelAccepted
  BY <1>6 DEF CancelReceived, CancelAccepted
<1>7. ASSUME NEW verdict \in {"running", "success", "failure"}, LoopReturns(verdict)
      PROVE  TreeInv'
  BY <1>7 DEF LoopReturns, EndGoal
<1> QED
  BY <1>2, <1>3, <1>4, <1>5, <1>6, <1>7

\* An exception in a tick, and its handler.
LEMMA RaisesKeep == ASSUME TreeInv, (NodeRaises /\ at # Off) \/ LoopRaised PROVE TreeInv'
<1>1. CASE NodeRaises /\ at # Off
  BY <1>1, LoopKeeps DEF NodeRaises, TreeInv, TreeTypeOK, OutcomeOK, Off
<1>2. CASE LoopRaised
  BY <1>2, LoopKeeps DEF LoopRaised, EndGoal, TreeInv, TreeTypeOK, Off, LoopAt
<1> QED
  BY <1>1, <1>2

\* A step that has nothing to do with the tree.
LEMMA TreeUntouched == ASSUME TreeInv, UNCHANGED treeVars PROVE TreeInv'
<1>1. LeavesOK' /\ OrderOK'
  BY SameOrder DEF TreeInv, treeVars, LeavesOK
<1>2. TreeTypeOK' /\ OutcomeOK'
  BY SameOrder DEF TreeInv, treeVars, TreeTypeOK, OutcomeOK, Off
<1> QED
  BY <1>1, <1>2 DEF TreeInv

\* At first no leaf runs and there is no goal.
LEMMA InitTree ==
    ASSUME NEW branches, TreeInit(branches), OrderOK
    PROVE  TreeInv
<1>1. Cardinality(owed) <= MaxOwed
  BY FS_EmptySet, ActionTreeAssumption DEF TreeInit
<1>2. TreeTypeOK
  BY <1>1 DEF TreeInit, TreeTypeOK, ClientStates, Off
<1> QED
  BY <1>2 DEF TreeInit, TreeInv, LeavesOK, OutcomeOK

----------------------------------------------------------------------------
(* ALARS *)

\* The branches of ALARS are five, and the last is the search everywhere.
LEMMA AlarsOrder ==
    ASSUME order = AlarsBranches
    PROVE  /\ OrderOK
           /\ Branches = Recoveries \cup Searches \cup {"vulture"}
           /\ \A b \in Branches : After(b) = {} => b = "search_global"
<1>1. Len(order) = 5
  BY DEF AlarsBranches
<1>2. /\ order[1] = "recover_buoy" /\ order[2] = "recover_no_buoy" /\ order[3] = "vulture"
      /\ order[4] = "search_local" /\ order[5] = "search_global"
  BY DEF AlarsBranches
<1>3. Branches = Recoveries \cup Searches \cup {"vulture"} /\ order \in Seq(Branches)
  <2>1. Branches = Recoveries \cup Searches \cup {"vulture"}
    BY <1>1, <1>2 DEF Branches, Recoveries, Searches
  <2>2. order \in Seq(Recoveries \cup Searches \cup {"vulture"})
    BY DEF AlarsBranches, Recoveries, Searches
  <2> QED
    BY <2>1, <2>2
<1>4. OrderOK
  BY <1>1, <1>2, <1>3 DEF OrderOK, NoBranch, Recoveries, Searches
<1>5. ASSUME NEW b \in Branches, After(b) = {} PROVE b = "search_global"
  <2>1. Index(b) \in 1 .. 5 /\ order[Index(b)] = b
    BY <1>1, <1>4, Places
  <2>2. Index(b) + 1 \in Index(b) + 1 .. Len(order) => order[Index(b) + 1] \in After(b)
    BY DEF After
  <2> QED
    BY <1>1, <1>2, <1>5, <2>1, <2>2
<1> QED
  BY <1>3, <1>4, <1>5

\* The branch has met its pre-condition and is not over.
UnderWay(b) ==
    leaf_status[b] = "RUNNING" \/ (at[1] = b /\ at[2] \in {"set", "act", "failed", "succeeded"})

\* The count that the pre-condition of the branch looks at is still below its limit.
MayTry(b) ==
    /\ b \in Recoveries => recover_fail_count < NumRetries
    /\ b \in Searches   => search_fail_count < NumRetries
    /\ b = "vulture"    => vulture_timeout_count < VultureRanges

CountsOK == \A b \in Branches : UnderWay(b) => MayTry(b)

\* What the goal has earned so far: the states of the tree never claim more.
EarnedOK ==
    /\ failed_searches \in Nat /\ lifted \in BOOLEAN
    /\ recovery_success => lifted
    /\ failed_searches >= search_fail_count \/ failed_searches >= NumRetries
    /\ LoopAt("ticked") /\ root = "FAILURE" => failed_searches >= NumRetries
    /\ outcome = "success" => lifted
    /\ LoopAt("raised") => bad_value # "none"
    /\ outcome = "failure" /\ bad_value = "none" => failed_searches >= NumRetries

AlarsInv == order = AlarsBranches /\ TreeInv /\ AlarsTypeOK /\ CountsOK /\ EarnedOK

\* At first nothing has been tried.
LEMMA InitAlarsInv == TreeInit(AlarsBranches) /\ AlarsInit => AlarsInv
<1> SUFFICES ASSUME TreeInit(AlarsBranches), AlarsInit PROVE AlarsInv
  OBVIOUS
<1>1. order = AlarsBranches /\ TreeInv
  BY AlarsOrder, InitTree DEF TreeInit
<1>2. 0 \in 0 .. NumRetries /\ 0 \in 0 .. VultureRanges
  BY AlarsBTAssumption
<1>3. AlarsTypeOK
  BY <1>2 DEF AlarsInit, AlarsTypeOK, GoalValues
<1>4. CountsOK
  BY <1>1, AlarsOrder DEF TreeInit, CountsOK, UnderWay, Off, OrderOK
<1>5. EarnedOK
  <2>1. lifted \in BOOLEAN /\ (recovery_success => lifted)
    BY Zenon DEF AlarsInit
  <2>2. failed_searches \in Nat /\ failed_searches >= search_fail_count
    BY DEF AlarsInit
  <2>3. root # "FAILURE" /\ outcome \notin {"success", "failure"} /\ ~LoopAt("raised")
    BY DEF TreeInit, Off, LoopAt
  <2> QED
    BY <2>1, <2>2, <2>3 DEF EarnedOK
<1> QED
  BY <1>1, <1>3, <1>4, <1>5 DEF AlarsInv

\* Every step of the node is one of its tree.
LEMMA AlarsTree == ASSUME AlarsInv, AlarsNext PROVE order' = AlarsBranches /\ TreeInv'
<1> USE DEF AlarsInv
<1>1. UNCHANGED order
  BY DEF AlarsNext, TreeSteps, Answer, ActRuns, ActEnds, GoalUnreadable, Top, CancelAccepted, SeeAuv,
         OnGoalReceived, GoalReceived, OnCancelReceived, CancelReceived, PrepareLoop, Prepare,
         LoopInner, LoopReturns, CountVultureTimeout, VultureFails, BranchHolds, BranchFails,
         LookAtConditions, PostHolds, PostFails, PreHolds, PreFails, SetGoal, CountRecoverFail,
         CountSearchFail, SearchEnds, CheckRecovery, NodeRaises, LoopRaised, treeVars
<1>2. CASE TreeSteps \/ OnGoalReceived \/ OnCancelReceived \/ PrepareLoop \/ LoopInner
  BY <1>1, <1>2, LeavesKeep, ServerKeeps
  DEF TreeSteps, OnGoalReceived, OnCancelReceived, PrepareLoop, LoopInner
<1>3. CASE SeeAuv
  BY <1>1, <1>3, TreeUntouched DEF SeeAuv
<1>4. CASE CountVultureTimeout \/ VultureFails
  BY <1>1, <1>4, BranchEndKeeps, AlarsOrder DEF CountVultureTimeout, VultureFails
<1>0. \A b \in Branches : \A where : At(b, where) => at # Off
  BY DEF TreeInv, OrderOK, At, Off
<1>5. ASSUME NEW b \in Branches, LookAtConditions(b) PROVE TreeInv'
  BY <1>0, <1>5, ConditionsKeep, RaisesKeep DEF LookAtConditions
<1>6. ASSUME NEW b \in Branches, CountRecoverFail(b) \/ CountSearchFail(b) \/ SearchEnds(b)
      PROVE  TreeInv'
  BY <1>6, BranchEndKeeps DEF CountRecoverFail, CountSearchFail, SearchEnds
<1>7. ASSUME NEW b \in Branches, NEW hanging \in BOOLEAN, CheckRecovery(b, hanging)
      PROVE  TreeInv'
  <2>1. CASE hanging
    BY <1>7, <2>1, BranchEndKeeps DEF CheckRecovery
  <2>2. CASE ~hanging
    BY <1>7, <2>2, GoKeeps DEF CheckRecovery, TreeInv, TreeTypeOK, LeavesOK, At, Go
  <2> QED
    BY <2>1, <2>2
<1>8. ASSUME NEW b \in Branches, SetGoal(b) PROVE TreeInv'
  <2>1. CASE NodeRaises
    BY <1>0, <1>8, <2>1, RaisesKeep DEF SetGoal
  <2>2. CASE ~NodeRaises
    BY <1>8, <2>2, GoKeeps DEF SetGoal, TreeInv, TreeTypeOK, LeavesOK, At, Go
  <2> QED
    BY <2>1, <2>2
<1>9. CASE LoopRaised
  BY <1>1, <1>9, RaisesKeep
<1> QED
  BY <1>1, <1>2, <1>3, <1>4, <1>5, <1>6, <1>7, <1>8, <1>9 DEF AlarsNext

\* The counts that are reset are below their limits as long as these let anything be tried.
LEMMA ResetKeeps ==
    ASSUME AlarsInv, ResetStates, UNCHANGED <<order, leaf_status>>,
           bad_value' \in GoalValues, UNCHANGED at \/ at'[1] = NoBranch
    PROVE  AlarsTypeOK' /\ CountsOK'
<1>0. AlarsTypeOK /\ CountsOK /\ Branches' = Branches /\ NoBranch \notin Branches
  BY SameOrder DEF AlarsInv, TreeInv, OrderOK
<1>1. 0 \in 0 .. NumRetries /\ 0 \in 0 .. VultureRanges
  BY AlarsBTAssumption
<1>2. AlarsTypeOK'
  BY <1>0, <1>1 DEF ResetStates, AlarsTypeOK
<1>3. \A b \in Branches : MayTry(b) => MayTry(b)'
  BY <1>0, AlarsBTAssumption DEF ResetStates, MayTry, AlarsTypeOK
<1>4. \A b \in Branches : UnderWay(b)' => UnderWay(b)
  BY <1>0 DEF UnderWay
<1> QED
  BY <1>0, <1>2, <1>3, <1>4 DEF CountsOK

\* When a branch whose action is over holds, no branch is under way any more.
LEMMA NoneUnderWay ==
    ASSUME AlarsInv, NEW b \in Branches, At(b, "failed") \/ At(b, "succeeded"), BranchHolds(b)
    PROVE  /\ (\A c \in Branches : ~UnderWay(c)') /\ CountsOK'
           /\ LoopAt("ticked")' /\ ~LoopAt("raised")' /\ root' = "SUCCESS"
<1>0. OrderOK /\ NoBranch \notin Branches /\ TreeTypeOK /\ LeavesOK
  BY DEF AlarsInv, TreeInv, OrderOK
<1>1. \A c \in Branches : leaf_status[c] = "RUNNING" => c \in After(b)
  BY <1>0, Places DEF LeavesOK, At
<1>2. at' = <<NoBranch, "ticked">> /\ root' = "SUCCESS"
  BY DEF BranchHolds, EndTick
<1>3. \A c \in Branches : leaf_status'[c] # "RUNNING"
  BY <1>1 DEF BranchHolds, StopLeaves
<1>4. \A c \in Branches : ~UnderWay(c)'
  BY <1>0, <1>2, <1>3 DEF UnderWay
<1>5. Branches' = Branches
  BY SameOrder DEF BranchHolds
<1> QED
  BY <1>2, <1>4, <1>5 DEF LoopAt, CountsOK

\* Every step of the node keeps the counts below their limits and the claims earned.
LEMMA AlarsCounts == ASSUME AlarsInv, AlarsNext PROVE AlarsTypeOK' /\ CountsOK' /\ EarnedOK'
<1> DEFINE Kept == AlarsTypeOK' /\ CountsOK' /\ EarnedOK'
<1> SUFFICES Kept
  OBVIOUS
<1>0. TreeTypeOK /\ LeavesOK /\ OutcomeOK /\ Branches' = Branches /\ NoBranch \notin Branches
      /\ AlarsTypeOK /\ CountsOK /\ EarnedOK
  BY AlarsTree, SameOrder DEF AlarsInv, TreeInv, OrderOK
<1>1. ASSUME UNCHANGED alarsVars,
             \A b \in Branches : UnderWay(b)' => UnderWay(b),
             LoopAt("ticked")' /\ root' = "FAILURE" => failed_searches >= NumRetries,
             LoopAt("raised")' => bad_value # "none",
             outcome' \in {outcome, "none", "canceled"}
      PROVE  Kept
  <2>1. AlarsTypeOK'
    BY <1>0, <1>1 DEF alarsVars, AlarsTypeOK
  <2>2. CountsOK'
    BY <1>0, <1>1 DEF alarsVars, CountsOK, MayTry
  <2>3. EarnedOK'
    BY <1>0, <1>1 DEF alarsVars, EarnedOK
  <2> QED
    BY <2>1, <2>2, <2>3
<1>2. CASE TreeSteps /\ UNCHANGED alarsVars
  <2>1. ASSUME NEW b \in Branches, Answer(b) PROVE Kept
    BY <1>0, <1>1, <1>2, <2>1 DEF Answer, UnderWay, EarnedOK, LoopAt
  <2>2. ASSUME NEW b \in Branches, ActRuns(b) PROVE Kept
    BY <1>0, <1>1, <1>2, <2>2 DEF ActRuns, EndTick, UnderWay, At, LoopAt
  <2>3. ASSUME NEW b \in Branches, ActEnds(b) PROVE Kept
    BY <1>0, <1>1, <1>2, <2>3 DEF ActEnds, UnderWay, At, Go, LoopAt, TreeTypeOK
  <2>4. CASE GoalUnreadable \/ Top \/ CancelAccepted
    BY <1>0, <1>1, <1>2, <2>4 DEF GoalUnreadable, Top, CancelAccepted, EndGoal, Off, UnderWay, Go,
                                  LoopAt, EarnedOK
  <2> QED
    BY <1>2, <2>1, <2>2, <2>3, <2>4 DEF TreeSteps
<1>3. CASE SeeAuv
  BY <1>0, <1>3 DEF SeeAuv, treeVars, AlarsTypeOK, CountsOK, UnderWay, MayTry, EarnedOK, LoopAt
<1>4. CASE OnGoalReceived
  <2>1. AlarsTypeOK' /\ CountsOK'
    BY <1>0, <1>4, ResetKeeps DEF OnGoalReceived, GoalReceived, AlarsTypeOK
  <2>2. EarnedOK'
    BY <1>0, <1>4, AlarsBTAssumption
    DEF OnGoalReceived, GoalReceived, ResetStates, KeepGoal, Off, EarnedOK, LoopAt
  <2> QED
    BY <2>1, <2>2
<1>5. CASE OnCancelReceived
  <2>1. AlarsTypeOK' /\ CountsOK'
    BY <1>0, <1>5, ResetKeeps DEF OnCancelReceived, CancelReceived, KeepGoal, AlarsTypeOK
  <2>2. EarnedOK'
    BY <1>0, <1>5, AlarsBTAssumption
    DEF OnCancelReceived, CancelReceived, ResetStates, KeepGoal, EarnedOK, LoopAt
  <2> QED
    BY <2>1, <2>2
<1>6. CASE PrepareLoop
  <2>1. AlarsTypeOK' /\ CountsOK'
    BY <1>0, <1>6, ResetKeeps DEF PrepareLoop, Prepare, AlarsTypeOK
  <2>2. outcome' = "none" /\ at' = <<NoBranch, "top">>
    BY <1>0, <1>6 DEF PrepareLoop, Prepare, LoopAt, OutcomeOK, Off
  <2>3. EarnedOK'
    <3>1. lifted' \in BOOLEAN /\ (recovery_success' => lifted')
      BY <1>6, Zenon DEF PrepareLoop, ResetStates
    <3>2. failed_searches' \in Nat /\ failed_searches' >= search_fail_count'
      BY <1>6 DEF PrepareLoop, ResetStates
    <3> QED
      BY <2>2, <3>1, <3>2 DEF EarnedOK, LoopAt
  <2> QED
    BY <2>1, <2>3
<1>7. CASE LoopInner
  <2>1. CASE LoopReturns("running") /\ UNCHANGED alarsVars
    BY <1>0, <1>1, <2>1 DEF LoopReturns, UnderWay, LoopAt
  <2>2. CASE recovery_success /\ LoopReturns("success") /\ ResetStates /\ KeepGoal
    <3>1. AlarsTypeOK' /\ CountsOK'
      BY <1>0, <2>2, ResetKeeps DEF LoopReturns, EndGoal, Off, KeepGoal, AlarsTypeOK
    <3>2. outcome' = "success" /\ at' = <<NoBranch, "off">> /\ lifted
      BY <1>0, <2>2 DEF LoopReturns, EndGoal, Off, EarnedOK
    <3>3. EarnedOK'
      BY <1>0, <2>2, <3>2, AlarsBTAssumption DEF ResetStates, KeepGoal, EarnedOK, LoopAt
    <3> QED
      BY <3>1, <3>3
  <2>3. CASE root = "FAILURE" /\ LoopReturns("failure") /\ ResetStates /\ KeepGoal
    <3>1. AlarsTypeOK' /\ CountsOK'
      BY <1>0, <2>3, ResetKeeps DEF LoopReturns, EndGoal, Off, KeepGoal, AlarsTypeOK
    <3>2. outcome' = "failure" /\ at' = <<NoBranch, "off">> /\ failed_searches >= NumRetries
      BY <1>0, <2>3 DEF LoopReturns, EndGoal, Off, EarnedOK
    <3>3. EarnedOK'
      BY <1>0, <2>3, <3>2, AlarsBTAssumption DEF ResetStates, KeepGoal, EarnedOK, LoopAt
    <3> QED
      BY <3>1, <3>3
  <2> QED
    BY <1>7, <2>1, <2>2, <2>3 DEF LoopInner
<1>8. CASE CountVultureTimeout
  <2>1. CountsOK' /\ root' = "SUCCESS" /\ ~LoopAt("raised")'
    BY <1>0, <1>8, NoneUnderWay, AlarsOrder DEF CountVultureTimeout, AlarsInv
  <2>2. vulture_timeout_count < VultureRanges
    BY <1>0, <1>8, AlarsOrder DEF CountVultureTimeout, CountsOK, UnderWay, MayTry, At, AlarsInv
  <2>3. AlarsTypeOK'
    BY <1>0, <1>8, <2>2, AlarsBTAssumption DEF CountVultureTimeout, AlarsTypeOK
  <2>4. EarnedOK'
    BY <1>0, <1>8, <2>1 DEF CountVultureTimeout, BranchHolds, EarnedOK
  <2> QED
    BY <2>1, <2>3, <2>4
<1>9. CASE VultureFails
  <2>1. "vulture" \in Branches /\ After("vulture") # {}
    BY AlarsOrder DEF AlarsInv
  <2>2. \A c \in Branches : UnderWay(c)' => UnderWay(c)
    BY <1>0, <1>9, <2>1 DEF VultureFails, BranchFails, Go, UnderWay
  <2>3. ~LoopAt("ticked")'
    BY <1>9, <2>1 DEF VultureFails, BranchFails, Go, LoopAt
  <2> QED
    BY <1>1, <1>9, <2>1, <2>2, <2>3 DEF VultureFails, BranchFails, Go, LoopAt
<1>10. ASSUME NEW b \in Branches, LookAtConditions(b) PROVE Kept
  <2>0. UNCHANGED <<alarsVars, outcome>> /\ b # NoBranch
    BY <1>0, <1>10 DEF LookAtConditions, PostHolds, PostFails, PreHolds, PreFails, BranchFails,
                       NodeRaises
  <2>5. CASE PreRaises(b) /\ NodeRaises
    BY <1>0, <1>1, <2>0, <2>5 DEF PreRaises, NodeRaises, UnderWay, LoopAt
  <2>1. CASE PostHolds(b)
    BY <1>0, <1>1, <2>0, <2>1 DEF PostHolds, EndTick, StopLeaves, UnderWay, LoopAt
  <2>2. CASE PostFails(b)
    BY <1>0, <1>1, <2>0, <2>2 DEF PostFails, Go, StopLeaves, UnderWay, LoopAt
  <2>3. ASSUME NEW auv_live \in Live, NEW buoy_live \in BOOLEAN,
               PreCondition(b, auv_live, buoy_live), PreHolds(b)
        PROVE  Kept
    <3>1. MayTry(b)
      BY <2>3, AlarsOrder DEF AlarsInv, PreCondition, MayTry, Recoveries, Searches
    <3>2. at' = <<b, "set">> /\ UNCHANGED <<leaf_status, root>>
      BY <2>3 DEF PreHolds, Go
    <3>3. CountsOK'
      BY <1>0, <2>0, <3>1, <3>2 DEF CountsOK, UnderWay, MayTry, alarsVars
    <3>4. AlarsTypeOK' /\ EarnedOK'
      BY <1>0, <2>0, <3>2 DEF AlarsTypeOK, EarnedOK, LoopAt, alarsVars
    <3> QED
      BY <3>3, <3>4
  <2>4. ASSUME NEW auv_live \in Live, NEW buoy_live \in BOOLEAN,
               ~PreCondition(b, auv_live, buoy_live), PreFails(b)
        PROVE  Kept
    <3>1. CASE After(b) # {}
      BY <1>0, <1>1, <2>0, <2>4, <3>1 DEF PreFails, BranchFails, Go, UnderWay, LoopAt
    <3>2. CASE After(b) = {}
      <4>1. b = "search_global" /\ ~(search_fail_count < NumRetries)
        BY <2>4, <3>2, AlarsOrder DEF AlarsInv, PreCondition, Recoveries, Searches
      <4>2. failed_searches >= NumRetries
        BY <1>0, <4>1, AlarsBTAssumption DEF EarnedOK, AlarsTypeOK
      <4> QED
        BY <1>0, <1>1, <2>0, <2>4, <3>2, <4>2 DEF PreFails, BranchFails, EndTick, UnderWay, LoopAt
    <3> QED
      BY <3>1, <3>2
  <2> QED
    BY <1>10, <2>1, <2>2, <2>3, <2>4, <2>5 DEF LookAtConditions
<1>11. ASSUME NEW b \in Branches, SetGoal(b) PROVE Kept
  <2>1. CASE SetRaises(b) /\ NodeRaises
    BY <1>0, <1>1, <1>11, <2>1 DEF SetGoal, SetRaises, NodeRaises, UnderWay, LoopAt
  <2>2. CASE ~(SetRaises(b) /\ NodeRaises)
    BY <1>0, <1>1, <1>11, <2>2 DEF SetGoal, At, Go, UnderWay, LoopAt
  <2> QED
    BY <2>1, <2>2
<1>12. ASSUME NEW b \in Branches, CountRecoverFail(b) PROVE Kept
  <2>1. CountsOK' /\ root' = "SUCCESS" /\ ~LoopAt("raised")'
    BY <1>12, NoneUnderWay DEF CountRecoverFail
  <2>2. recover_fail_count < NumRetries
    BY <1>0, <1>12 DEF CountRecoverFail, CountsOK, UnderWay, MayTry, At
  <2>3. AlarsTypeOK'
    BY <1>0, <1>12, <2>2, AlarsBTAssumption DEF CountRecoverFail, AlarsTypeOK
  <2>4. EarnedOK'
    BY <1>0, <1>12, <2>1 DEF CountRecoverFail, BranchHolds, EarnedOK
  <2> QED
    BY <2>1, <2>3, <2>4
<1>13. ASSUME NEW b \in Branches, CountSearchFail(b) \/ SearchEnds(b) PROVE Kept
  <2>1. CountsOK' /\ root' = "SUCCESS" /\ ~LoopAt("raised")' /\ UNCHANGED outcome
    BY <1>13, NoneUnderWay DEF CountSearchFail, SearchEnds, BranchHolds
  <2>2. CASE CountSearchFail(b)
    <3>1. search_fail_count < NumRetries
      BY <1>0, <2>2 DEF CountSearchFail, CountsOK, UnderWay, MayTry, At
    <3>2. AlarsTypeOK'
      BY <1>0, <2>2, <3>1, AlarsBTAssumption DEF CountSearchFail, AlarsTypeOK
    <3>3. EarnedOK'
      BY <1>0, <2>1, <2>2, <3>1, AlarsBTAssumption DEF CountSearchFail, EarnedOK, AlarsTypeOK
    <3> QED
      BY <2>1, <3>2, <3>3
  <2>3. CASE SearchEnds(b)
    BY <1>0, <2>1, <2>3 DEF SearchEnds, alarsVars, AlarsTypeOK, EarnedOK
  <2> QED
    BY <1>13, <2>2, <2>3
<1>14. ASSUME NEW b \in Branches, NEW hanging \in BOOLEAN, CheckRecovery(b, hanging) PROVE Kept
  <2>1. AlarsTypeOK'
    BY <1>0, <1>14 DEF CheckRecovery, AlarsTypeOK
  <2>2. CASE hanging
    <3>1. CountsOK' /\ root' = "SUCCESS" /\ ~LoopAt("raised")' /\ UNCHANGED outcome
      BY <1>14, <2>2, NoneUnderWay DEF CheckRecovery, BranchHolds
    <3>2. EarnedOK'
      BY <1>0, <1>14, <2>2, <3>1 DEF CheckRecovery, EarnedOK
    <3> QED
      BY <2>1, <3>1, <3>2
  <2>3. CASE ~hanging
    <3>1. CountsOK'
      BY <1>0, <1>14, <2>3 DEF CheckRecovery, Go, At, CountsOK, UnderWay, MayTry
    <3>2. EarnedOK'
      BY <1>0, <1>14, <2>3 DEF CheckRecovery, Go, EarnedOK, LoopAt
    <3> QED
      BY <2>1, <3>1, <3>2
  <2> QED
    BY <2>2, <2>3
<1>15. CASE LoopRaised /\ UNCHANGED alarsVars
  <2>1. /\ at' = <<NoBranch, "off">> /\ outcome' \in {"canceled", "failure"}
        /\ UNCHANGED <<order, root, leaf_status, alarsVars>> /\ bad_value # "none"
    BY <1>0, <1>15 DEF LoopRaised, EndGoal, Off, EarnedOK
  <2>2. AlarsTypeOK' /\ CountsOK'
    BY <1>0, <2>1 DEF alarsVars, AlarsTypeOK, CountsOK, UnderWay, MayTry
  <2>3. EarnedOK'
    BY <1>0, <2>1 DEF alarsVars, EarnedOK, LoopAt
  <2> QED
    BY <2>2, <2>3
<1> QED
  BY <1>2, <1>3, <1>4, <1>5, <1>6, <1>7, <1>8, <1>9, <1>10, <1>11, <1>12, <1>13, <1>14, <1>15
  DEF AlarsNext

\* In every reachable state the invariant of ALARS holds.
THEOREM AlarsInvHolds == AlarsSpec => []AlarsInv
<1>1. AlarsInv /\ [AlarsNext]_<<treeVars, alarsVars>> => AlarsInv'
  <2> SUFFICES ASSUME AlarsInv, [AlarsNext]_<<treeVars, alarsVars>> PROVE AlarsInv'
    OBVIOUS
  <2>1. CASE AlarsNext
    BY <2>1, AlarsTree, AlarsCounts DEF AlarsInv
  <2>2. CASE UNCHANGED <<treeVars, alarsVars>>
    <3>1. order' = AlarsBranches /\ TreeInv'
      BY <2>2, TreeUntouched DEF AlarsInv, treeVars
    <3>2. AlarsTypeOK' /\ CountsOK' /\ EarnedOK'
      BY <2>2, SameOrder DEF AlarsInv, treeVars, alarsVars, AlarsTypeOK, CountsOK, UnderWay, MayTry,
                             EarnedOK, LoopAt
    <3> QED
      BY <3>1, <3>2 DEF AlarsInv
  <2> QED
    BY <2>1, <2>2
<1> QED
  BY <1>1, InitAlarsInv, PTL DEF AlarsSpec

\* The tree of ALARS and its counts hold values of their kinds: no count ever passes the limit
\* that its pre-condition looks at, although the cancel callback resets it at any time.
THEOREM AlarsTypeCorrect == AlarsSpec => [](TreeTypeOK /\ AlarsTypeOK)
<1>1. AlarsInv => TreeTypeOK /\ AlarsTypeOK
  BY DEF AlarsInv, TreeInv
<1> QED
  BY <1>1, AlarsInvHolds, PTL

\* A goal of ALARS succeeds only with an AUV that its own recoveries have lifted, and one with
\* usable values fails only after as many of its own searches as it allows have failed or could
\* not be asked for.
THEOREM AlarsOutcomesAreEarned == AlarsSpec => []OutcomesAreEarned
<1>1. AlarsInv => OutcomesAreEarned
  BY DEF AlarsInv, EarnedOK, OutcomesAreEarned
<1> QED
  BY <1>1, AlarsInvHolds, PTL

----------------------------------------------------------------------------
(* The proximity operations *)

\* The branches of the proximity operations are three.
LEMMA ProxOpsOrder ==
    ASSUME order = ProxOpsBranches
    PROVE  OrderOK /\ Branches = {"inspect", "intercept", "loiter_patrol"}
<1>1. Len(order) = 3
  BY DEF ProxOpsBranches
<1>2. order[1] = "inspect" /\ order[2] = "intercept" /\ order[3] = "loiter_patrol"
  BY DEF ProxOpsBranches
<1>3. Branches = {"inspect", "intercept", "loiter_patrol"}
  BY <1>1, <1>2 DEF Branches
<1>4. order \in Seq(Branches)
  BY <1>3 DEF ProxOpsBranches
<1> QED
  BY <1>1, <1>2, <1>3, <1>4 DEF OrderOK, NoBranch

\* A stop that is marked as sent has been sent since the last start, and a goal that a timeout
\* has ended has sent it.
BackendOK ==
    /\ inspection_stop_sent \/ patrol_stop_sent => backend = "STOP"
    /\ patrol_timed_out => backend = "STOP" /\ at \in {Off, <<NoBranch, "prepare">>}
    /\ outcome = "success" => backend = "STOP" /\ at = Off

FlagsOK == patrol_timed_out \in BOOLEAN /\ left \in BOOLEAN

ProxOpsInv ==
    /\ order = ProxOpsBranches
    /\ TreeInv /\ ProxOpsTypeOK /\ FlagsOK /\ BackendOK

\* At first the backend is stopped.
LEMMA InitProxOpsInv == TreeInit(ProxOpsBranches) /\ ProxOpsInit => ProxOpsInv
<1> SUFFICES ASSUME TreeInit(ProxOpsBranches), ProxOpsInit PROVE ProxOpsInv
  OBVIOUS
<1>1. order = ProxOpsBranches /\ TreeInv
  BY ProxOpsOrder, InitTree DEF TreeInit
<1>2. ProxOpsTypeOK /\ FlagsOK
  BY DEF ProxOpsInit, ProxOpsTypeOK, FlagsOK
<1>3. BackendOK
  BY DEF TreeInit, ProxOpsInit, BackendOK
<1> QED
  BY <1>1, <1>2, <1>3 DEF ProxOpsInv

\* Every step of the node is one of its tree.
LEMMA ProxOpsTree == ASSUME ProxOpsInv, ProxOpsNext PROVE order' = ProxOpsBranches /\ TreeInv'
<1> USE DEF ProxOpsInv
<1>1. UNCHANGED order
  BY DEF ProxOpsNext, TreeSteps, Answer, ActRuns, ActEnds, GoalUnreadable, Top, CancelAccepted,
         Clock, Inspect, Intercept, Patrol, PostHolds, PostFails, PreHolds, PreFails,
         SetProxOpsGoal, ProxOpsActEnds, BranchHolds, BranchFails, OnProxOpsGoal, GoalReceived,
         OnProxOpsCancel, CancelReceived, CancelBetweenReads, PrepareProxOps, Prepare,
         ProxOpsLoopInner, LoopReturns, Raised, LoopRaised, treeVars
<1>2. CASE TreeSteps \/ OnProxOpsGoal \/ OnProxOpsCancel \/ PrepareProxOps \/ ProxOpsLoopInner
  BY <1>1, <1>2, LeavesKeep, ServerKeeps
  DEF TreeSteps, OnProxOpsGoal, OnProxOpsCancel, PrepareProxOps, ProxOpsLoopInner
<1>3. CASE Clock
  BY <1>1, <1>3, TreeUntouched DEF Clock
<1>4. CASE Inspect \/ Intercept \/ Patrol
  BY <1>1, <1>4, ConditionsKeep, ProxOpsOrder DEF Inspect, Intercept, Patrol
<1>5. ASSUME NEW b \in Branches, SetProxOpsGoal(b) PROVE TreeInv'
  <2>1. client' \in [Branches -> ClientStates] /\ leaf_status[b] # "RUNNING"
    BY <1>5 DEF SetProxOpsGoal, TreeInv, TreeTypeOK, LeavesOK, At, ClientStates
  <2> QED
    BY <1>5, <2>1, GoKeeps DEF SetProxOpsGoal, TreeInv, TreeTypeOK, At, Go
<1>6. ASSUME NEW b \in Branches, ProxOpsActEnds(b) PROVE TreeInv'
  BY <1>6, BranchEndKeeps DEF ProxOpsActEnds
<1>7. CASE CancelBetweenReads
  <2>1. client' \in [Branches -> ClientStates]
    BY <1>7 DEF CancelBetweenReads, ResetLeaves, ClientStates
  <2> QED
    BY <1>1, <1>7, <2>1, LoopKeeps
    DEF CancelBetweenReads, TreeInv, TreeTypeOK, OutcomeOK, Off, At, LoopAt
<1>8. CASE Raised
  BY <1>1, <1>8, RaisesKeep DEF Raised
<1> QED
  BY <1>1, <1>2, <1>3, <1>4, <1>5, <1>6, <1>7, <1>8 DEF ProxOpsNext

\* Every step of the node keeps its timers within their bounds.
LEMMA ProxOpsTimers == ASSUME ProxOpsInv, ProxOpsNext PROVE ProxOpsTypeOK' /\ FlagsOK'
<1> USE ProxOpsBTAssumption
    DEF ProxOpsInv, ProxOpsTypeOK, FlagsOK, proxOpsVars, ResetProxOps, KeepTimers
<1>1. CASE TreeSteps /\ UNCHANGED proxOpsVars
  BY <1>1
<1>2. CASE Clock
  BY <1>2 DEF Clock
<1>3. CASE Inspect
  <2>1. inspection_age' \in {inspection_age, 0} /\ patrol_age' = patrol_age
    BY <1>3 DEF Inspect, StopForInspection
  <2>2. /\ inspection_stop_sent' \in {inspection_stop_sent, TRUE}
        /\ patrol_stop_sent' = patrol_stop_sent /\ patrol_timed_out' = patrol_timed_out
        /\ left' \in {left, FALSE} /\ backend' \in {backend, "STOP"}
    BY <1>3 DEF Inspect, StopForInspection
  <2>3. /\ inspection_age' \in (0 .. InspectTimeout) \cup {NotStarted}
        /\ patrol_age' \in (0 .. PatrolTimeout + 1) \cup {NotStarted}
    BY <2>1
  <2>4. /\ inspection_stop_sent' \in BOOLEAN /\ patrol_stop_sent' \in BOOLEAN
        /\ patrol_timed_out' \in BOOLEAN /\ left' \in BOOLEAN /\ backend' \in {"START", "STOP"}
    BY <2>2
  <2> QED
    BY <2>3, <2>4
<1>4. CASE Intercept
  BY <1>4 DEF Intercept
<1>5. CASE Patrol
  <2>1. patrol_age' \in {patrol_age, 0} /\ inspection_age' = inspection_age
    BY <1>5 DEF Patrol, StopForPatrol
  <2>2. /\ patrol_stop_sent' \in {patrol_stop_sent, TRUE}
        /\ inspection_stop_sent' = inspection_stop_sent /\ patrol_timed_out' = patrol_timed_out
        /\ left' = left /\ backend' \in {backend, "STOP"}
    BY <1>5 DEF Patrol, StopForPatrol
  <2>3. /\ inspection_age' \in (0 .. InspectTimeout) \cup {NotStarted}
        /\ patrol_age' \in (0 .. PatrolTimeout + 1) \cup {NotStarted}
    BY <2>1
  <2>4. /\ inspection_stop_sent' \in BOOLEAN /\ patrol_stop_sent' \in BOOLEAN
        /\ patrol_timed_out' \in BOOLEAN /\ left' \in BOOLEAN /\ backend' \in {"START", "STOP"}
    BY <2>2
  <2> QED
    BY <2>3, <2>4
<1>6. ASSUME NEW b \in Branches, SetProxOpsGoal(b) PROVE ProxOpsTypeOK' /\ FlagsOK'
  BY <1>6 DEF SetProxOpsGoal
<1>7. ASSUME NEW b \in Branches, ProxOpsActEnds(b) PROVE ProxOpsTypeOK' /\ FlagsOK'
  BY <1>7 DEF ProxOpsActEnds
<1>8. CASE OnProxOpsGoal \/ OnProxOpsCancel \/ PrepareProxOps
  BY <1>8 DEF OnProxOpsGoal, OnProxOpsCancel, PrepareProxOps
<1>9. CASE CancelBetweenReads \/ Raised
  BY <1>9 DEF CancelBetweenReads, Raised
<1>10. CASE ProxOpsLoopInner
  BY <1>10 DEF ProxOpsLoopInner, PatrolTimedOut
<1> QED
  BY <1>1, <1>2, <1>3, <1>4, <1>5, <1>6, <1>7, <1>8, <1>9, <1>10 DEF ProxOpsNext

\* Every step of the node keeps what the backend was told in step with the flags.
LEMMA ProxOpsBackend == ASSUME ProxOpsInv, ProxOpsNext PROVE BackendOK'
<1> USE DEF ProxOpsInv, BackendOK, proxOpsVars, KeepTimers, At, Go, LoopAt, Off
<1>0. NoBranch \notin Branches /\ OutcomeOK
  BY ProxOpsOrder DEF TreeInv, OrderOK
<1>1. CASE TreeSteps /\ UNCHANGED proxOpsVars
  BY <1>0, <1>1 DEF TreeSteps, Answer, ActRuns, ActEnds, EndTick, GoalUnreadable, Top, EndGoal,
                    CancelAccepted
<1>2. CASE Clock
  BY <1>2 DEF Clock, treeVars
<1>3. CASE Inspect
  BY <1>0, <1>3 DEF Inspect, StopForInspection, PostHolds, PostFails, PreHolds, PreFails, BranchFails,
                    EndTick
<1>4. CASE Intercept
  BY <1>0, <1>4 DEF Intercept, PostHolds, PostFails, PreHolds, PreFails, BranchFails, EndTick
<1>5. CASE Patrol
  BY <1>0, <1>5 DEF Patrol, StopForPatrol, PostHolds, PostFails, PreHolds, PreFails, BranchFails,
                    EndTick
<1>6. ASSUME NEW b \in Branches, SetProxOpsGoal(b) PROVE BackendOK'
  BY <1>0, <1>6 DEF SetProxOpsGoal
<1>7. ASSUME NEW b \in Branches, ProxOpsActEnds(b) PROVE BackendOK'
  BY <1>0, <1>7 DEF ProxOpsActEnds, BranchHolds, BranchFails, EndTick
<1>8. CASE OnProxOpsGoal \/ OnProxOpsCancel
  BY <1>0, <1>8 DEF OnProxOpsGoal, OnProxOpsCancel, GoalReceived, CancelReceived, ResetProxOps
<1>9. CASE PrepareProxOps
  BY <1>0, <1>9 DEF PrepareProxOps, Prepare, ResetProxOps, OutcomeOK
<1>10. CASE CancelBetweenReads
  BY <1>0, <1>10, ProxOpsOrder DEF CancelBetweenReads, ResetProxOps, OutcomeOK, TreeInv, TreeTypeOK
<1>11. CASE Raised
  BY <1>0, <1>11 DEF Raised, LoopRaised, EndGoal
<1>12. CASE ProxOpsLoopInner
  BY <1>0, <1>12 DEF ProxOpsLoopInner, LoopReturns, EndGoal, ResetProxOps, OutcomeOK
<1> QED
  BY <1>1, <1>2, <1>3, <1>4, <1>5, <1>6, <1>7, <1>8, <1>9, <1>10, <1>11, <1>12 DEF ProxOpsNext

\* In every reachable state the invariant of the proximity operations holds.
THEOREM ProxOpsInvHolds == ProxOpsSpec => []ProxOpsInv
<1>1. ProxOpsInv /\ [ProxOpsNext]_<<treeVars, proxOpsVars>> => ProxOpsInv'
  <2> SUFFICES ASSUME ProxOpsInv, [ProxOpsNext]_<<treeVars, proxOpsVars>> PROVE ProxOpsInv'
    OBVIOUS
  <2>1. CASE ProxOpsNext
    BY <2>1, ProxOpsTree, ProxOpsTimers, ProxOpsBackend DEF ProxOpsInv
  <2>2. CASE UNCHANGED <<treeVars, proxOpsVars>>
    <3>1. order' = ProxOpsBranches /\ TreeInv'
      BY <2>2, TreeUntouched DEF ProxOpsInv, treeVars
    <3>2. ProxOpsTypeOK' /\ FlagsOK' /\ BackendOK'
      BY <2>2 DEF ProxOpsInv, treeVars, proxOpsVars, ProxOpsTypeOK, FlagsOK, BackendOK, Off
    <3> QED
      BY <3>1, <3>2 DEF ProxOpsInv
  <2> QED
    BY <2>1, <2>2
<1> QED
  BY <1>1, InitProxOpsInv, PTL DEF ProxOpsSpec

\* The tree of the proximity operations and its timers hold values of their kinds.
THEOREM ProxOpsTypeCorrect == ProxOpsSpec => [](TreeTypeOK /\ ProxOpsTypeOK)
<1>1. ProxOpsInv => TreeTypeOK /\ ProxOpsTypeOK
  BY DEF ProxOpsInv, TreeInv
<1> QED
  BY <1>1, ProxOpsInvHolds, PTL

\* A goal that a timeout has ended leaves the backend stopped, whenever a cancel resets the
\* timers and the flags of what was sent.
THEOREM ProxOpsTimeoutsStop == ProxOpsSpec => []TimeoutsStopTheBackend
<1>1. ProxOpsInv => TimeoutsStopTheBackend
  BY DEF ProxOpsInv, BackendOK, TimeoutsStopTheBackend
<1> QED
  BY <1>1, ProxOpsInvHolds, PTL
=============================================================================
