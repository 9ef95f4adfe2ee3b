------------------------------ MODULE MCWaspBT ------------------------------
(* Bounds of the TLC runs on WaspBT. *)
EXTENDS WaspBT

\* A mission is over its time at once.
MCDefaultTimeout == -1
MCMissionTimeouts == {-1}

\* Two states are one if they differ only in what no step reads again: past_tasks, when
\* a mission that is over its time began, the time of the setup once the vehicle's
\* health was heard of, how S_Root ended if it is not RUNNING, and whether a client
\* without a leaf was READY.
MCView ==
    <<node_up, now, tasks_available, tasks_executing, flags, health,
      mission_start_time = None, mission_timeout, mission,
      tip, cur, root = "RUNNING", IF health_last_time = None THEN start_time ELSE None,
      tree, last_available, leaf, timed, ready \cap tree, contacted>>

\* Bound: the clock runs only where no client, server or task of get_ready has been.
GetReadyOrTime ==
    now > 0 =>
        /\ GetReady \notin DOMAIN tasks_available \cup tree \cup ready \cup contacted
        /\ \A i \in DOMAIN tasks_executing : tasks_executing[i].name # GetReady
=============================================================================
