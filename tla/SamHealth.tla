------------------------------- MODULE SamHealth -------------------------------
(***************************************************************************)
(* The health checker of SAM: rates of topics and the last values of leak, *)
(* battery, depth and altitude, judged once in a period and summed up in   *)
(* one health, which the task handler and its tree act on.                 *)
(*                                                                         *)
(* Time is in periods of the timers.  One thread spins the node, so every  *)
(* callback is atomic; the three timers run once in a period, in any       *)
(* order.                                                                  *)
(***************************************************************************)
EXTENDS Integers, Sequences

CONSTANTS
    Essential,          \* the topic of essential_topics
    Optional,           \* the topic of optional_topics
    Interval,           \* for each topic, the longest mean interval of its rate, in periods
    Window,             \* window_size
    SamTimeout,         \* timeout_time_sec
    InitialTimeout,     \* initial_timeout_time_sec
    MaxSuspects         \* bound: sources that may be late, silent or bad in one behaviour

Topics == {Essential, Optional}
Checks == {"leak", "battery", "depth", "altitude"}

ASSUME SamHealthAssumption ==
    /\ Essential # Optional /\ Topics \cap (Checks \cup {"output"}) = {}
    /\ Interval \in [Topics -> Nat]
    /\ Window \in Nat \ {0, 1}
    /\ SamTimeout \in Nat /\ InitialTimeout \in Nat /\ MaxSuspects \in Nat

VARIABLES
    suspects,           \* the sources of which anything may come; the others are good
    stamps,             \* for each topic the ages of its last messages, the oldest first
    monitor_ready,      \* topics whose monitor is ready
    monitor_fault,      \* topics whose monitor is at fault
    last,               \* for each check its last message: [value, age], or NoMessage
    check_ready,        \* checks whose status is ready
    check_fault,        \* checks whose status is fault
    uptime,             \* since start_time
    sam_health,         \* the last health published, "none" before
    sam_due,            \* timers that have not run in this period
    trouble             \* auxiliary: periods for which some source has been in trouble

samVars == <<suspects, stamps, monitor_ready, monitor_fault, last, check_ready, check_fault,
             uptime, sam_health, sam_due, trouble>>

NoMessage == [value |-> "none", age |-> 0]
Timers    == Topics \cup {"output"}
TooLong   == 3          \* periods after which trouble must have been reported

SamInit ==
    /\ suspects \in {s \in SUBSET (Topics \cup Checks) :
                        \E f \in [1 .. MaxSuspects -> Topics \cup Checks] :
                            s = {f[i] : i \in 1 .. MaxSuspects}}
    /\ stamps = [t \in Topics |-> <<>>]
    /\ monitor_ready = {} /\ monitor_fault = {}
    /\ last = [c \in Checks |-> NoMessage]
    /\ check_ready = {"leak"} /\ check_fault = {}
    /\ uptime = 0
    /\ sam_health = "none"
    /\ sam_due = Timers
    /\ trouble = 0

----------------------------------------------------------------------------
(* Trouble *)

InitiallyTimedOut == uptime > InitialTimeout

\* A topic is in trouble when it has fallen silent, a check when its value is bad, too old
\* or, for the sources that must have started by then, missing.
Newest(topic) == stamps[topic][Len(stamps[topic])]

SilentTopic(topic) == stamps[topic] # <<>> /\ Newest(topic) > SamTimeout
SilentCheck(check) ==
    check \in {"depth", "altitude"} /\ last[check] # NoMessage /\ last[check].age > SamTimeout
BadCheck(check) ==
    \/ last[check].value = "bad"
    \/ SilentCheck(check)
    \/ check = "depth" /\ last[check] = NoMessage /\ InitiallyTimedOut
LateTopic == stamps[Essential] = <<>> /\ InitiallyTimedOut

InTrouble == LateTopic \/ (\E t \in Topics : SilentTopic(t)) \/ (\E c \in Checks : BadCheck(c))

\* Silence that the node does not look at: of a topic that was heard once, and after an
\* altitude of no bottom.
PassedOver ==
    \/ \E t \in Topics : SilentTopic(t) /\ Len(stamps[t]) = 1
    \/ \E c \in Checks : SilentCheck(c) /\ last[c].value = "no bottom"

\* A message goes on with the trouble there was, or begins it anew.
SameTrouble == InTrouble' /\ (PassedOver => PassedOver')

----------------------------------------------------------------------------
(* What the node hears *)

\* A good source is heard once in a period.
HeardNow(source) == IF source \in Topics THEN stamps[source] # <<>> /\ Newest(source) = 0
                    ELSE last[source] # NoMessage /\ last[source].age = 0

\* The subscriber of a topic, with a deque of maxlen Window
SubscriberCallback(topic) ==
    /\ topic \notin suspects => ~HeardNow(topic)
    /\ LET all == Append(stamps[topic], 0)
       IN  stamps' = [stamps EXCEPT ![topic] = IF Len(all) > Window THEN Tail(all) ELSE all]
    /\ UNCHANGED <<suspects, monitor_ready, monitor_fault, last, check_ready, check_fault, uptime,
                   sam_health, sam_due>>
    /\ trouble' = IF SameTrouble THEN trouble ELSE 0

\* An altitude of -1 is that of no bottom found.
Values(check) == IF check \notin suspects THEN {"good"}
                 ELSE IF check = "altitude" THEN {"good", "bad", "no bottom"} ELSE {"good", "bad"}

\* leak_callback, battery_callback, depth_callback and altitude_callback
ValueCallback(check, value) ==
    /\ check \notin suspects => ~HeardNow(check)
    /\ last' = [last EXCEPT ![check] = [value |-> value, age |-> 0]]
    /\ UNCHANGED <<suspects, stamps, monitor_ready, monitor_fault, check_ready, check_fault, uptime,
                   sam_health, sam_due>>
    /\ trouble' = IF SameTrouble THEN trouble ELSE 0

----------------------------------------------------------------------------
(* The timers *)

\* report_callback of the monitor of a topic: ready with the first message; at fault, for
\* good, when the oldest of at least two is too old or their mean interval too long.
ReportCallback(topic) ==
    /\ topic \in sam_due
    /\ sam_due' = sam_due \ {topic}
    /\ LET times == stamps[topic] IN
       /\ monitor_ready' = IF times # <<>> THEN monitor_ready \cup {topic} ELSE monitor_ready
       /\ monitor_fault' =
              IF /\ Len(times) >= 2
                 /\ \/ times[1] > SamTimeout
                    \/ times[1] - times[Len(times)] > Interval[topic] * (Len(times) - 1)
              THEN monitor_fault \cup {topic} ELSE monitor_fault
    /\ UNCHANGED <<suspects, stamps, last, check_ready, check_fault, uptime, sam_health, trouble>>

\* Mutant: the last message counts however old it is.
FaultyAtAnyAge(check) == last[check].value = "bad"

\* The fault that a check finds in the last message; an altitude without bottom has none.
Faulty(check) ==
    IF last[check] = NoMessage THEN check = "depth" /\ InitiallyTimedOut
    ELSE \/ last[check].value = "bad"
         \/ /\ check \in {"depth", "altitude"} /\ last[check].value # "no bottom"
            /\ last[check].age > SamTimeout

\* Mutant: a fault lasts only as long as its cause.
ChecksForgetFaults ==
    /\ check_ready' = check_ready \cup {"battery"} \cup {c \in Checks : last[c] # NoMessage}
    /\ check_fault' = {c \in Checks : Faulty(c)}

\* leak_check, battery_check, altitude_check and depth_check: a fault is for good, and the
\* battery is ready without a message.
RunChecks ==
    /\ check_ready' = check_ready \cup {"battery"} \cup {c \in Checks : last[c] # NoMessage}
    /\ check_fault' = check_fault \cup {c \in Checks : Faulty(c)}

\* What output_callback publishes of the sources that are ready and at fault.
HealthOf(ready, fault) ==
    IF fault # {} THEN "ERROR"
    ELSE IF Topics \cup Checks \subseteq ready THEN "READY"
    ELSE IF InitiallyTimedOut /\ ~({Essential, "leak", "battery"} \subseteq ready) THEN "ERROR"
    ELSE "WAITING"

OutputCallback ==
    /\ "output" \in sam_due
    /\ sam_due' = sam_due \ {"output"}
    /\ RunChecks
    /\ sam_health' = HealthOf(monitor_ready \cup check_ready', monitor_fault \cup check_fault')
    /\ UNCHANGED <<suspects, stamps, monitor_ready, monitor_fault, last, uptime, trouble>>

----------------------------------------------------------------------------
Aged(age) == IF age > SamTimeout THEN age ELSE age + 1

\* A period is over when its timers have run and the sources that are good have been heard.
SamTick ==
    /\ sam_due = {}
    /\ \A source \in (Topics \cup {"depth", "altitude"}) \ suspects : HeardNow(source)
    /\ sam_due' = Timers
    /\ stamps' = [t \in Topics |-> [i \in DOMAIN stamps[t] |-> Aged(stamps[t][i])]]
    /\ last' = [c \in Checks |-> IF last[c] = NoMessage THEN NoMessage
                                 ELSE [last[c] EXCEPT !.age = Aged(@)]]
    /\ uptime' = IF InitiallyTimedOut THEN uptime ELSE uptime + 1
    /\ trouble' = IF ~InTrouble THEN 0 ELSE IF trouble < TooLong THEN trouble + 1 ELSE trouble
    /\ UNCHANGED <<suspects, monitor_ready, monitor_fault, check_ready, check_fault, sam_health>>

SamNext ==
    \/ \E topic \in Topics : SubscriberCallback(topic) \/ ReportCallback(topic)
    \/ \E check \in Checks : \E value \in Values(check) : ValueCallback(check, value)
    \/ OutputCallback
    \/ SamTick

SamSpec == SamInit /\ [][SamNext]_samVars

----------------------------------------------------------------------------
(* Properties *)

\* Every variable holds a value of the kind the code gives it; nothing is at fault before
\* it was heard, other than the depth and the essential topic.
SamTypeOK ==
    /\ \A t \in Topics : stamps[t] \in Seq(0 .. SamTimeout + 1) /\ Len(stamps[t]) <= Window
    /\ monitor_fault \subseteq monitor_ready /\ monitor_ready \subseteq Topics
    /\ check_fault \ {"depth"} \subseteq check_ready /\ check_ready \subseteq Checks
    /\ \A c \in Checks : last[c].age \in 0 .. SamTimeout + 1
    /\ sam_health \in {"none", "WAITING", "READY", "ERROR"}
    /\ sam_due \subseteq Timers

\* Trouble of one source that has lasted a few periods is reported, whatever the others
\* do, the order of the timers and the way it came about; but for the two kinds of silence
\* that the node passes over.
TroubleIsReported == trouble = TooLong => sam_health = "ERROR" \/ PassedOver

\* What the comment on timeout_time_sec says ("time since last message was received"): a
\* topic that fell silent is reported, after how many messages it may be.
SilenceIsReported == trouble = TooLong /\ (\E t \in Topics : SilentTopic(t)) => sam_health = "ERROR"

\* A source once at fault stays so, and the error with it.  The one error that is taken back
\* is that of the initial time-out of the essential topic, without any fault, when the topic
\* came after all.
Faults == monitor_fault \cup check_fault

ErrorIsFinal ==
    [][/\ Faults \subseteq Faults'
       /\ sam_health = "ERROR" /\ sam_health' # "ERROR" =>
              Faults' = {} /\ InitiallyTimedOut /\ Essential \in monitor_ready]_samVars
=============================================================================
