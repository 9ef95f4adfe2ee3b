---------------------------- MODULE ActionChannels ----------------------------
(***************************************************************************)
(* What is in flight between the clients of one ROS 2 action and its       *)
(* server (rclpy and the middleware, external to the repository).  Nothing *)
(* is lost, but each set is unordered: goal responses, results, cancel     *)
(* responses and feedback travel separately and overtake one another.      *)
(***************************************************************************)
EXTENDS Naturals

CONSTANTS
    Goals,          \* goals the clients may send, each with its own goal id
    MaxCancels,     \* bound: cancel requests sent in a behaviour
    None            \* Python's None: no goal handle, no result

ASSUME ActionChannelsAssumption ==
    /\ MaxCancels \in Nat
    /\ None \notin Goals
    /\ None \notin {"success", "failure"}

VARIABLES
    goal_requests,      \* goals sent, not taken by the server
    goal_responses,     \* [goal, accepted]
    cancel_requests,    \* [goal, call]
    cancel_responses,   \* [goal, call, canceling]
    feedbacks,          \* goals with feedback in flight
    calls               \* number of cancel requests sent

channels == <<goal_requests, goal_responses, cancel_requests, cancel_responses, feedbacks, calls>>

ChannelsInit ==
    /\ goal_requests = {}
    /\ goal_responses = {}
    /\ cancel_requests = {}
    /\ cancel_responses = {}
    /\ feedbacks = {}
    /\ calls = 0

ChannelsOK ==
    /\ goal_requests \subseteq Goals
    /\ goal_responses \subseteq [goal : Goals, accepted : BOOLEAN]
    /\ cancel_requests \subseteq [goal : Goals, call : 1 .. MaxCancels]
    /\ cancel_responses \subseteq [goal : Goals, call : 1 .. MaxCancels, canceling : BOOLEAN]
    /\ feedbacks \subseteq Goals
    /\ calls \in 0 .. MaxCancels

\* cancel_goal_async: each call is a request of its own.
SendCancel(g) ==
    /\ calls < MaxCancels
    /\ calls' = calls + 1
    /\ cancel_requests' = cancel_requests \cup {[goal |-> g, call |-> calls']}

=============================================================================
