--------------------------- MODULE VehicleNodesProofs ---------------------------
(***************************************************************************)
(* Proofs about the health checker of SAM, for any topics, intervals and   *)
(* time-outs, and about the nodes that MCVehicleNodes runs side by side:   *)
(* each of them behaves as it does alone, so that what is proved of it     *)
(* alone holds of them all.                                                *)
(***************************************************************************)
EXTENDS MCVehicleNodes, GeofencedDroneProofs, VehicleActionProofs, AlarsProxOpsProofs

----------------------------------------------------------------------------
(* The health checker of SAM *)

SamAges == 0 .. SamTimeout + 1

\* The ages of a topic are few, the last of them is the least, and a monitor is ready only
\* once its topic was heard.
StampsOK ==
    /\ stamps \in [Topics -> Seq(SamAges)]
    /\ \A t \in Topics : /\ Len(stamps[t]) <= Window
                         /\ \A i \in 1 .. Len(stamps[t]) : Newest(t) <= stamps[t][i]
                         /\ stamps[t] = <<>> => t \notin monitor_ready

LastOK ==
    /\ last \in [Checks -> [value : {"none", "good", "bad", "no bottom"}, age : SamAges]]
    /\ \A c \in Checks : last[c].value = "none" => last[c] = NoMessage
    /\ uptime \in Nat

\* What is an error has a fault behind it, or a start that took too long.
ErrorOK == sam_health = "ERROR" => monitor_fault \cup check_fault # {} \/ InitiallyTimedOut

SamInv == SamTypeOK /\ StampsOK /\ LastOK /\ ErrorOK

----------------------------------------------------------------------------
(* What a step does to what is remembered *)

\* The constants, as the provers need them.
LEMMA SamConstants ==
    /\ Topics = {Essential, Optional} /\ Checks = {"leak", "battery", "depth", "altitude"}
    /\ Window \in Nat /\ Window >= 2 /\ SamTimeout \in Nat /\ InitialTimeout \in Nat
    /\ "output" \notin Topics /\ "output" \notin Checks
    /\ \A t \in Topics : t \notin Checks /\ t # "output"
    /\ (\A a \in SamAges : a \in Nat) /\ Aged(0) = 1
<1>1. Window \in Nat /\ Window >= 2 /\ SamTimeout \in Nat /\ InitialTimeout \in Nat
  BY SamHealthAssumption
<1>2. Topics \cap (Checks \cup {"output"}) = {}
  BY SamHealthAssumption
<1>3. "output" \notin Checks
  BY DEF Checks
<1>4. (\A a \in SamAges : a \in Nat) /\ Aged(0) = 1
  BY <1>1 DEF SamAges, Aged
<1> QED
  BY <1>1, <1>2, <1>3, <1>4 DEF Topics, Checks

\* The ages are numbers.
LEMMA SamNumbers ==
    SamTimeout \in Nat /\ InitialTimeout \in Nat /\ (\A a \in SamAges : a \in Nat)
BY SamConstants

\* The first period is not too late for a start.
LEMMA TimedOutIsLate == uptime \in Nat /\ InitiallyTimedOut => uptime # 0
<1>1. InitialTimeout \in Nat
  BY SamHealthAssumption
<1> QED
  BY <1>1 DEF InitiallyTimedOut

\* A message is the newest of its topic; of the others nothing changes.
LEMMA Heard ==
    ASSUME StampsOK, NEW topic \in Topics, SubscriberCallback(topic)
    PROVE  /\ stamps' \in [Topics -> Seq(SamAges)]
           /\ Len(stamps'[topic]) \in 1 .. Window /\ stamps'[topic][Len(stamps'[topic])] = 0
           /\ \A t \in Topics \ {topic} : stamps'[t] = stamps[t]
<1> DEFINE s == stamps[topic]
           all == Append(s, 0)
<1>0. s \in Seq(SamAges) /\ Len(s) <= Window /\ Len(s) \in Nat /\ 0 \in SamAges
  BY SamConstants DEF StampsOK, SamAges
<1>1. all \in Seq(SamAges) /\ Len(all) = Len(s) + 1 /\ all[Len(s) + 1] = 0
  BY <1>0
<1>2. stamps' = [stamps EXCEPT ![topic] = IF Len(all) > Window THEN Tail(all) ELSE all]
  BY DEF SubscriberCallback
<1>3. Tail(all) \in Seq(SamAges) /\ Len(Tail(all)) = Len(s)
  BY <1>0, <1>1
<1>4. Len(s) >= 1 => Tail(all)[Len(s)] = 0
  BY <1>0, <1>1
<1> HIDE DEF all, s
<1>5. stamps'[topic] = IF Len(all) > Window THEN Tail(all) ELSE all
  BY <1>2 DEF StampsOK
<1>6. stamps'[topic] \in Seq(SamAges)
  BY <1>1, <1>3, <1>5
<1>7. stamps' \in [Topics -> Seq(SamAges)] /\ \A t \in Topics \ {topic} : stamps'[t] = stamps[t]
  BY <1>2, <1>6, <1>5 DEF StampsOK
<1>8. CASE Len(all) > Window
  BY <1>8, <1>0, <1>1, <1>3, <1>4, <1>5, <1>7, SamConstants
<1>9. CASE ~(Len(all) > Window)
  BY <1>9, <1>0, <1>1, <1>5, <1>7, SamConstants
<1> QED
  BY <1>8, <1>9

\* A period adds one to every age, up to the one that is too old.
LEMMA AllAged ==
    ASSUME StampsOK, LastOK, SamTick
    PROVE  /\ stamps' \in [Topics -> Seq(SamAges)]
           /\ \A t \in Topics : /\ Len(stamps'[t]) = Len(stamps[t])
                                /\ stamps'[t] = <<>> <=> stamps[t] = <<>>
                                /\ \A i \in 1 .. Len(stamps[t]) : stamps'[t][i] = Aged(stamps[t][i])
           /\ last' \in [Checks -> [value : {"none", "good", "bad", "no bottom"}, age : SamAges]]
           /\ \A c \in Checks : /\ last'[c].value = last[c].value
                                /\ last[c] = NoMessage => last'[c] = NoMessage
                                /\ last[c] # NoMessage => last'[c].age = Aged(last[c].age)
<1>0. \A a \in SamAges : Aged(a) \in SamAges
  BY SamConstants DEF SamAges, Aged
<1>1. ASSUME NEW t \in Topics
      PROVE  /\ stamps'[t] \in Seq(SamAges) /\ Len(stamps'[t]) = Len(stamps[t])
             /\ stamps'[t] = <<>> <=> stamps[t] = <<>>
             /\ \A i \in 1 .. Len(stamps[t]) : stamps'[t][i] = Aged(stamps[t][i])
  <2>1. stamps[t] \in Seq(SamAges) /\ DOMAIN stamps[t] = 1 .. Len(stamps[t]) /\ Len(stamps[t]) \in Nat
    BY DEF StampsOK
  <2>2. stamps'[t] = [i \in 1 .. Len(stamps[t]) |-> Aged(stamps[t][i])]
    BY <2>1 DEF SamTick
  <2>3. \A i \in 1 .. Len(stamps[t]) : stamps[t][i] \in SamAges
    BY <2>1
  <2>4. stamps'[t] \in Seq(SamAges) /\ Len(stamps'[t]) = Len(stamps[t])
    BY <2>1, <2>2, <2>3, <1>0
  <2>5. stamps'[t] = <<>> <=> stamps[t] = <<>>
    BY <2>1, <2>4
  <2> QED
    BY <2>2, <2>4, <2>5
<1>2. stamps' \in [Topics -> Seq(SamAges)]
  BY <1>1 DEF SamTick
<1>3. ASSUME NEW c \in Checks
      PROVE  /\ last'[c] \in [value : {"none", "good", "bad", "no bottom"}, age : SamAges]
             /\ last'[c].value = last[c].value
             /\ last[c] = NoMessage => last'[c] = NoMessage
             /\ last[c] # NoMessage => last'[c].age = Aged(last[c].age)
  <2>1. last[c] \in [value : {"none", "good", "bad", "no bottom"}, age : SamAges]
    BY DEF LastOK
  <2>2. last'[c] = IF last[c] = NoMessage THEN NoMessage
                   ELSE [last[c] EXCEPT !.age = Aged(last[c].age)]
    BY DEF SamTick
  <2> QED
    BY <2>1, <2>2, <1>0
<1>4. last' \in [Checks -> [value : {"none", "good", "bad", "no bottom"}, age : SamAges]]
  BY <1>3 DEF SamTick
<1> QED
  BY <1>1, <1>2, <1>3, <1>4
----------------------------------------------------------------------------
(* The health checker of SAM: what holds whatever its sources do *)

\* The node starts with what it may assume.
LEMMA SamInvInit == SamInit => SamInv
<1> SUFFICES ASSUME SamInit PROVE SamInv
  OBVIOUS
<1>1. \A t \in Topics : stamps[t] = <<>> /\ Len(stamps[t]) = 0 /\ <<>> \in Seq(SamAges)
  BY DEF SamInit
<1>2. StampsOK
  BY <1>1, SamConstants DEF SamInit, StampsOK
<1>3. LastOK
  BY SamConstants DEF SamInit, LastOK, NoMessage, SamAges
<1>4. SamTypeOK
  <2>1. \A t \in Topics : stamps[t] \in Seq(0 .. SamTimeout + 1) /\ Len(stamps[t]) <= Window
    <3>1. <<>> \in Seq(0 .. SamTimeout + 1)
      OBVIOUS
    <3>2. \A t \in Topics : stamps[t] \in Seq(0 .. SamTimeout + 1)
      BY <3>1, <1>1, Zenon
    <3> QED
      BY <3>2, <1>1, SamConstants
  <2>2. \A c \in Checks : last[c].age \in 0 .. SamTimeout + 1
    BY <1>3 DEF LastOK, SamAges
  <2>3. check_fault \ {"depth"} \subseteq check_ready /\ check_ready \subseteq Checks
    BY DEF SamInit, Checks
  <2> QED
    BY <2>1, <2>2, <2>3 DEF SamInit, SamTypeOK
<1>5. ErrorOK
  BY DEF SamInit, ErrorOK
<1> QED
  BY <1>2, <1>3, <1>4, <1>5 DEF SamInv

\* A message is as new as can be, and everything else stays.
LEMMA SamHears ==
    ASSUME SamInv, NEW topic \in Topics, SubscriberCallback(topic)
    PROVE  SamInv'
<1> USE DEF SamInv
<1>1. /\ stamps' \in [Topics -> Seq(SamAges)]
      /\ Len(stamps'[topic]) \in 1 .. Window /\ stamps'[topic][Len(stamps'[topic])] = 0
      /\ \A t \in Topics \ {topic} : stamps'[t] = stamps[t]
  BY Heard
<1>2. UNCHANGED <<monitor_ready, monitor_fault, last, check_ready, check_fault, uptime,
                  sam_health, sam_due>>
  BY DEF SubscriberCallback
<1>3. \A i \in 1 .. Len(stamps'[topic]) : stamps'[topic][i] >= 0
  BY <1>1, SamConstants DEF SamAges
<1>4. StampsOK'
  <2>1. ASSUME NEW t \in Topics
        PROVE  /\ Len(stamps'[t]) <= Window
               /\ \A i \in 1 .. Len(stamps'[t]) : stamps'[t][Len(stamps'[t])] <= stamps'[t][i]
               /\ stamps'[t] = <<>> => t \notin monitor_ready
    <3>1. CASE t = topic
      BY <3>1, <1>1, <1>3, SamConstants
    <3>2. CASE t # topic
      BY <3>2, <1>1 DEF StampsOK, Newest
    <3> QED
      BY <3>1, <3>2
  <2> QED
    BY <2>1, <1>1, <1>2 DEF StampsOK, Newest
<1>5. SamTypeOK'
  <2>1. \A t \in Topics : stamps'[t] \in Seq(0 .. SamTimeout + 1) /\ Len(stamps'[t]) <= Window
    BY <1>4 DEF StampsOK, SamAges
  <2> QED
    BY <2>1, <1>2 DEF SamTypeOK
<1> QED
  BY <1>2, <1>4, <1>5 DEF LastOK, ErrorOK, InitiallyTimedOut

\* A value is the last of its check, and everything else stays.
LEMMA SamHearsValue ==
    ASSUME SamInv, NEW c \in Checks, NEW value \in Values(c), ValueCallback(c, value)
    PROVE  /\ SamInv'
           /\ last' = [last EXCEPT ![c] = [value |-> value, age |-> 0]]
           /\ value \in {"good", "bad", "no bottom"}
<1> USE DEF SamInv
<1>1. /\ last' = [last EXCEPT ![c] = [value |-> value, age |-> 0]]
      /\ UNCHANGED <<stamps, monitor_ready, monitor_fault, check_ready, check_fault, uptime,
                     sam_health, sam_due>>
  BY DEF ValueCallback
<1>2. value \in {"good", "bad", "no bottom"} /\ 0 \in SamAges
  <2>1. 0 \in SamAges
    BY SamConstants DEF SamAges
  <2>2. value \in {"good", "bad", "no bottom"}
    BY Zenon DEF Values
  <2> QED
    BY <2>1, <2>2
<1>3. LastOK'
  BY <1>1, <1>2 DEF LastOK
<1>4. SamTypeOK'
  <2>1. \A d \in Checks : last'[d].age \in 0 .. SamTimeout + 1
    BY <1>3 DEF LastOK, SamAges
  <2> QED
    BY <2>1, <1>1 DEF SamTypeOK
<1>5. StampsOK'
  BY <1>1 DEF StampsOK, Newest
<1> QED
  BY <1>1, <1>2, <1>3, <1>4, <1>5 DEF ErrorOK, InitiallyTimedOut

\* A monitor that finds a fault has heard its topic.
LEMMA SamReports ==
    ASSUME SamInv, NEW topic \in Topics, ReportCallback(topic)
    PROVE  SamInv'
<1> USE DEF SamInv
<1>1. /\ UNCHANGED <<stamps, last, check_ready, check_fault, uptime, sam_health>>
      /\ sam_due' \subseteq sam_due
      /\ monitor_ready' = IF stamps[topic] # <<>> THEN monitor_ready \cup {topic} ELSE monitor_ready
      /\ \/ monitor_fault' = monitor_fault
         \/ Len(stamps[topic]) >= 2 /\ monitor_fault' = monitor_fault \cup {topic}
  BY DEF ReportCallback
<1>2. Len(stamps[topic]) >= 2 => stamps[topic] # <<>>
  OBVIOUS
<1>3. SamTypeOK'
  BY <1>1, <1>2 DEF SamTypeOK
<1>4. StampsOK'
  BY <1>1 DEF StampsOK, Newest
<1> QED
  BY <1>1, <1>3, <1>4 DEF LastOK, ErrorOK, InitiallyTimedOut

\* What is judged at fault was heard, or is the depth; an error has its cause.
LEMMA SamJudges ==
    ASSUME SamInv, OutputCallback
    PROVE  /\ SamInv'
           /\ UNCHANGED <<suspects, stamps, monitor_ready, monitor_fault, last, uptime, trouble>>
           /\ sam_due' = sam_due \ {"output"}
           /\ monitor_fault # {} => sam_health' = "ERROR"
           /\ \A c \in Checks : Faulty(c) => sam_health' = "ERROR"
           /\ sam_health = "ERROR" \/ InitiallyTimedOut =>
                  sam_health' = "ERROR" \/ Essential \in monitor_ready
<1> USE DEF SamInv
<1>1. /\ UNCHANGED <<suspects, stamps, monitor_ready, monitor_fault, last, uptime, trouble>>
      /\ sam_due' = sam_due \ {"output"}
      /\ sam_health' = HealthOf(monitor_ready \cup check_ready', monitor_fault \cup check_fault')
  BY DEF OutputCallback
<1>2. /\ check_ready' = check_ready \cup {"battery"} \cup {c \in Checks : last[c] # NoMessage}
      /\ check_fault' = check_fault \cup {c \in Checks : Faulty(c)}
  BY DEF OutputCallback, RunChecks
<1>3. \A c \in Checks : Faulty(c) => c = "depth" \/ last[c] # NoMessage
  BY DEF Faulty
<1>4. check_fault' \ {"depth"} \subseteq check_ready' /\ check_ready' \subseteq Checks
  <2>1. "battery" \in Checks
    BY DEF Checks
  <2> QED
    BY <1>2, <1>3, <2>1 DEF SamTypeOK
<1>5. sam_health' \in {"none", "WAITING", "READY", "ERROR"}
  BY <1>1 DEF HealthOf
<1>6. SamTypeOK'
  BY <1>1, <1>4, <1>5 DEF SamTypeOK
<1>7. monitor_fault \cup check_fault' # {} => sam_health' = "ERROR"
  BY <1>1 DEF HealthOf
<1>8. sam_health' = "ERROR" => monitor_fault \cup check_fault' # {} \/ InitiallyTimedOut
  BY <1>1 DEF HealthOf
<1>9. ErrorOK'
  BY <1>1, <1>8 DEF ErrorOK, InitiallyTimedOut
<1>10. InitiallyTimedOut => sam_health' = "ERROR" \/ Essential \in monitor_ready
  <2>1. Essential \in Topics /\ Essential \notin check_ready'
    BY <1>4, SamConstants
  <2> QED
    BY <2>1, <1>1 DEF HealthOf
<1>11. StampsOK' /\ LastOK'
  BY <1>1 DEF StampsOK, LastOK, Newest
<1>12. sam_health = "ERROR" => sam_health' = "ERROR" \/ Essential \in monitor_ready
  BY <1>2, <1>7, <1>10 DEF ErrorOK
<1> QED
  BY <1>1, <1>2, <1>6, <1>7, <1>9, <1>10, <1>11, <1>12

\* The end of a period makes everything older and changes no health.
LEMMA SamTicks ==
    ASSUME SamInv, SamTick
    PROVE  SamInv' /\ (InitiallyTimedOut => InitiallyTimedOut')
<1> USE DEF SamInv
<1>1. UNCHANGED <<suspects, monitor_ready, monitor_fault, check_ready, check_fault, sam_health>>
      /\ sam_due' = Timers
  BY DEF SamTick
<1>2. uptime' \in Nat /\ (InitiallyTimedOut => InitiallyTimedOut')
  <2>1. uptime' = IF InitiallyTimedOut THEN uptime ELSE uptime + 1
    BY DEF SamTick
  <2>2. uptime \in Nat
    BY DEF LastOK
  <2> QED
    BY <2>1, <2>2, SamConstants DEF InitiallyTimedOut
<1>3. LastOK'
  BY <1>2, AllAged DEF LastOK
<1>4. \A t \in Topics : \A i \in 1 .. Len(stamps[t]) : Newest(t)' <= stamps'[t][i]
  <2> SUFFICES ASSUME NEW t \in Topics, NEW i \in 1 .. Len(stamps[t])
               PROVE  Newest(t)' <= stamps'[t][i]
    OBVIOUS
  <2>1. stamps[t] \in Seq(SamAges) /\ Newest(t) <= stamps[t][i]
    BY DEF StampsOK
  <2>2. Len(stamps[t]) \in 1 .. Len(stamps[t])
    BY <2>1
  <2>3. Newest(t) \in SamAges /\ stamps[t][i] \in SamAges
    BY <2>1, <2>2 DEF Newest
  <2>4. Newest(t)' = Aged(Newest(t)) /\ stamps'[t][i] = Aged(stamps[t][i])
    BY <2>2, AllAged DEF Newest
  <2> QED
    BY <2>1, <2>3, <2>4, SamConstants DEF Aged, SamAges
<1>5. StampsOK'
  BY <1>1, <1>4, AllAged DEF StampsOK
<1>6. SamTypeOK'
  <2>1. \A t \in Topics : stamps'[t] \in Seq(0 .. SamTimeout + 1) /\ Len(stamps'[t]) <= Window
    BY <1>5 DEF StampsOK, SamAges
  <2>2. \A c \in Checks : last'[c].age \in 0 .. SamTimeout + 1
    BY <1>3 DEF LastOK, SamAges
  <2> QED
    BY <1>1, <2>1, <2>2 DEF SamTypeOK
<1> QED
  BY <1>1, <1>2, <1>3, <1>5, <1>6 DEF ErrorOK

\* Every step keeps the invariant.
LEMMA SamInvNext == SamInv /\ [SamNext]_samVars => SamInv'
<1> SUFFICES ASSUME SamInv, [SamNext]_samVars PROVE SamInv'
  OBVIOUS
<1>1. CASE UNCHANGED samVars
  BY <1>1 DEF samVars, SamInv, SamTypeOK, StampsOK, LastOK, ErrorOK, Newest, InitiallyTimedOut
<1>2. CASE SamNext
  BY <1>2, SamHears, SamHearsValue, SamReports, SamJudges, SamTicks DEF SamNext
<1> QED
  BY <1>1, <1>2

\* The invariant of the health checker, for any sources that misbehave.
THEOREM SamInvHolds == SamSpec => []SamInv
BY SamInvInit, SamInvNext, PTL DEF SamSpec

\* Every variable holds a value of the kind the code gives it, and nothing is at fault
\* before it was heard, other than the depth: only what was heard can turn bad.
THEOREM SamTypeCorrect == SamSpec => []SamTypeOK
<1>1. SamInv => SamTypeOK
  BY DEF SamInv
<1> QED
  BY <1>1, SamInvHolds, PTL

\* A fault is for good and the error with it: output_callback sums up faults that the monitors
\* and checks never take back.  An error that is taken back had no fault: it was that of a
\* start that took too long.
THEOREM ErrorsAreFinal == SamSpec => ErrorIsFinal
<1>1. SamInv /\ [SamNext]_samVars =>
          [/\ Faults \subseteq Faults'
           /\ sam_health = "ERROR" /\ sam_health' # "ERROR" =>
                  Faults' = {} /\ InitiallyTimedOut /\ Essential \in monitor_ready]_samVars
  <2> SUFFICES ASSUME SamInv, SamNext
               PROVE  /\ Faults \subseteq Faults'
                      /\ sam_health = "ERROR" /\ sam_health' # "ERROR" =>
                             Faults' = {} /\ InitiallyTimedOut /\ Essential \in monitor_ready
    OBVIOUS
  <2>1. Faults \subseteq Faults'
    BY DEF SamNext, SubscriberCallback, ReportCallback, ValueCallback, OutputCallback, RunChecks,
           SamTick, Faults
  <2>2. ASSUME sam_health = "ERROR", sam_health' # "ERROR"
        PROVE  Faults' = {} /\ InitiallyTimedOut /\ Essential \in monitor_ready
    <3>1. OutputCallback
      BY <2>2 DEF SamNext, SubscriberCallback, ReportCallback, ValueCallback, SamTick
    <3>2. Essential \in monitor_ready
      BY <2>2, <3>1, SamJudges
    <3>3. monitor_fault' \cup check_fault' = {}
      BY <2>2, <3>1 DEF OutputCallback, HealthOf
    <3> QED
      BY <2>1, <2>2, <3>2, <3>3 DEF Faults, SamInv, ErrorOK
  <2> QED
    BY <2>1, <2>2
<1> QED
  BY <1>1, SamInvHolds, PTL DEF SamSpec, ErrorIsFinal
----------------------------------------------------------------------------
(* The health checker of SAM: trouble of one source *)

Plain == LateTopic \/ \E c \in Checks : BadCheck(c)

\* One source may misbehave; a good topic and a good depth or altitude are heard in the
\* first period and never get old.
GoodOK ==
    /\ \A a, b \in suspects : a = b
    /\ \A t \in Topics \ suspects : IF stamps[t] = <<>> THEN uptime = 0 ELSE Newest(t) <= 1
    /\ \A c \in Checks \ suspects : last[c].value \in {"none", "good"}
    /\ \A c \in {"depth", "altitude"} \ suspects :
           IF last[c] = NoMessage THEN uptime = 0 ELSE last[c].age <= 1

\* Only the source that may misbehave is in trouble, and in one kind of it.
OneKindOK ==
    /\ \A t \in Topics : SilentTopic(t) => t \in suspects /\ ~Plain
    /\ \A t, u \in Topics : SilentTopic(t) /\ SilentTopic(u) => t = u
    /\ \A c \in Checks : BadCheck(c) => c \in suspects
    /\ LateTopic => Essential \in suspects

\* How far the report of trouble has come that is not passed over: a silent topic is found by
\* its monitor in the period that follows and by the output in the one after it, what the
\* output sees by itself is reported in the period that follows.
ReportedOK ==
    /\ trouble \in 0 .. TooLong
    /\ trouble >= 1 => InTrouble
    /\ ~PassedOver =>
       /\ trouble >= 1 => /\ \A t \in Topics : SilentTopic(t) => t \in sam_due \cup monitor_fault
                          /\ (Plain /\ "output" \notin sam_due) => sam_health = "ERROR"
       /\ trouble >= 2 => /\ \A t \in Topics : SilentTopic(t) => t \in monitor_fault
                          /\ (Plain \/ "output" \notin sam_due) => sam_health = "ERROR"
       /\ trouble = TooLong => sam_health = "ERROR"

\* So it is, as the others are good.
LEMMA OneKind == SamInv /\ GoodOK /\ SamTimeout >= 1 => OneKindOK
<1> SUFFICES ASSUME SamInv, GoodOK, SamTimeout >= 1 PROVE OneKindOK
  OBVIOUS
<1> USE DEF SamInv
<1>1. ASSUME NEW t \in Topics, SilentTopic(t) PROVE t \in suspects /\ stamps[t] # <<>>
  <2>1. stamps[t] \in Seq(SamAges) /\ stamps[t] # <<>> /\ Newest(t) > SamTimeout
    BY <1>1 DEF StampsOK, SilentTopic
  <2>2. stamps[t] # <<>> /\ Len(stamps[t]) \in 1 .. Len(stamps[t])
    BY <2>1
  <2>3. Newest(t) \in SamAges
    BY <2>1, <2>2 DEF Newest
  <2>4. Newest(t) \in Int /\ SamTimeout \in Int
    BY <2>3, SamNumbers
  <2>5. ~(Newest(t) <= 1)
    BY <2>1, <2>4
  <2> QED
    BY <2>2, <2>5 DEF GoodOK
<1>2. ASSUME NEW c \in Checks, BadCheck(c) PROVE c \in suspects
  <2>1. uptime \in Nat /\ last[c] \in [value : {"none", "good", "bad", "no bottom"}, age : SamAges]
    BY DEF LastOK
  <2>2. last[c].age \in Nat /\ (InitiallyTimedOut => uptime # 0)
    BY <2>1, SamNumbers, TimedOutIsLate DEF LastOK
  <2>3. CASE last[c].value = "bad"
    BY <2>3 DEF GoodOK
  <2>4. CASE SilentCheck(c)
    BY <2>2, <2>4, SamConstants DEF GoodOK, SilentCheck
  <2>5. CASE c = "depth" /\ last[c] = NoMessage /\ InitiallyTimedOut
    BY <2>2, <2>5 DEF GoodOK
  <2> QED
    BY <1>2, <2>3, <2>4, <2>5 DEF BadCheck
<1>3. LateTopic => Essential \in suspects
  <2>1. InitiallyTimedOut => uptime # 0
    BY TimedOutIsLate DEF LastOK
  <2> QED
    BY <2>1, SamConstants DEF LateTopic, GoodOK
<1>4. ASSUME NEW t \in Topics, SilentTopic(t) PROVE ~Plain
  <2>1. ~LateTopic
    BY <1>1, <1>3, <1>4 DEF LateTopic, GoodOK
  <2>2. ASSUME NEW c \in Checks, BadCheck(c) PROVE FALSE
    BY <1>1, <1>2, <1>4, <2>2, SamConstants DEF GoodOK
  <2> QED
    BY <2>1, <2>2 DEF Plain
<1> QED
  BY <1>1, <1>2, <1>3, <1>4 DEF GoodOK, OneKindOK

\* What the output sees of trouble by itself is an error, unless it is passed over.
LEMMA PlainIsSeen ==
    ASSUME SamInv, OutputCallback, Plain, ~PassedOver
    PROVE  sam_health' = "ERROR"
<1>1. ASSUME NEW c \in Checks, BadCheck(c) PROVE sam_health' = "ERROR"
  <2>1. Faulty(c)
    <3>1. NoMessage.value = "none"
      BY DEF NoMessage
    <3>2. CASE last[c] = NoMessage
      BY <1>1, <3>1, <3>2 DEF BadCheck, SilentCheck, Faulty
    <3>3. CASE last[c] # NoMessage
      <4>1. SilentCheck(c) => last[c].value # "no bottom"
        BY <1>1 DEF PassedOver
      <4> QED
        BY <1>1, <3>3, <4>1 DEF BadCheck, SilentCheck, Faulty
    <3> QED
      BY <3>2, <3>3
  <2> QED
    BY <2>1, SamJudges
<1>2. CASE LateTopic
  <2>1. Essential \notin monitor_ready
    BY <1>2, SamConstants DEF LateTopic, SamInv, StampsOK
  <2> QED
    BY <1>2, <2>1, SamJudges DEF LateTopic
<1> QED
  BY <1>1, <1>2 DEF Plain

\* The good sources are good after every step.
LEMMA GoodOKNext ==
    ASSUME SamInv, SamInv', GoodOK, SamNext
    PROVE  GoodOK'
<1> USE DEF SamInv
<1>1. suspects' = suspects
  BY DEF SamNext, SubscriberCallback, ReportCallback, ValueCallback, OutputCallback, SamTick
<1>2. ASSUME NEW topic \in Topics, SubscriberCallback(topic) PROVE GoodOK'
  <2>1. UNCHANGED <<last, uptime>>
    BY <1>2 DEF SubscriberCallback
  <2>2. ASSUME NEW t \in Topics \ suspects
        PROVE  IF stamps'[t] = <<>> THEN uptime' = 0 ELSE Newest(t)' <= 1
    <3>1. CASE t = topic
      BY <1>2, <3>1, Heard DEF Newest
    <3>2. CASE t # topic
      BY <1>2, <2>1, <3>2, Heard DEF Newest, GoodOK
    <3> QED
      BY <3>1, <3>2
  <2> QED
    BY <1>1, <2>1, <2>2 DEF GoodOK
<1>3. ASSUME NEW c \in Checks, NEW value \in Values(c), ValueCallback(c, value) PROVE GoodOK'
  <2>1. /\ last' = [last EXCEPT ![c] = [value |-> value, age |-> 0]]
        /\ UNCHANGED <<stamps, uptime>>
    BY <1>3 DEF ValueCallback
  <2>2. c \notin suspects => value = "good"
    BY DEF Values
  <2>3. last'[c] = [value |-> value, age |-> 0] /\ \A d \in Checks \ {c} : last'[d] = last[d]
    BY <2>1 DEF LastOK
  <2>4. \A t \in Topics \ suspects : IF stamps'[t] = <<>> THEN uptime' = 0 ELSE Newest(t)' <= 1
    BY <2>1 DEF GoodOK, Newest
  <2>5. \A d \in Checks \ suspects : last'[d].value \in {"none", "good"}
    BY <2>2, <2>3 DEF GoodOK
  <2>6. ASSUME NEW d \in {"depth", "altitude"} \ suspects
        PROVE  IF last'[d] = NoMessage THEN uptime' = 0 ELSE last'[d].age <= 1
    <3>1. CASE d = c
      BY <2>2, <2>3, <3>1 DEF NoMessage
    <3>2. CASE d # c
      BY <2>1, <2>3, <3>2, SamConstants DEF GoodOK
    <3> QED
      BY <3>1, <3>2
  <2> QED
    BY <1>1, <2>4, <2>5, <2>6 DEF GoodOK
<1>4. ASSUME NEW topic \in Topics, ReportCallback(topic) PROVE GoodOK'
  BY <1>1, <1>4 DEF ReportCallback, GoodOK, Newest
<1>5. CASE OutputCallback
  BY <1>1, <1>5, SamJudges DEF GoodOK, Newest
<1>6. CASE SamTick
  <2>0. \A source \in (Topics \cup {"depth", "altitude"}) \ suspects : HeardNow(source)
    BY <1>6 DEF SamTick
  <2>1. ASSUME NEW t \in Topics \ suspects
        PROVE  stamps'[t] # <<>> /\ Newest(t)' <= 1
    <3>1. stamps[t] # <<>> /\ Newest(t) = 0
      BY <2>0 DEF HeardNow
    <3>2. Len(stamps[t]) \in 1 .. Len(stamps[t])
      BY <3>1 DEF StampsOK
    <3>3. Newest(t)' = Aged(Newest(t)) /\ stamps'[t] # <<>>
      BY <1>6, <3>1, <3>2, AllAged DEF Newest
    <3> QED
      BY <3>1, <3>3, SamConstants
  <2>2. \A c \in Checks \ suspects : last'[c].value \in {"none", "good"}
    BY <1>6, AllAged DEF GoodOK
  <2>3. ASSUME NEW c \in {"depth", "altitude"} \ suspects
        PROVE  last'[c] # NoMessage /\ last'[c].age <= 1
    <3>1. c \in Checks /\ c \notin Topics
      BY SamConstants
    <3>2. last[c] # NoMessage /\ last[c].age = 0
      BY <2>0, <3>1 DEF HeardNow
    <3>3. last'[c].age = 1
      BY <1>6, <3>1, <3>2, AllAged, SamConstants
    <3> QED
      BY <3>3 DEF NoMessage
  <2> QED
    BY <1>1, <2>1, <2>2, <2>3 DEF GoodOK
<1> QED
  BY <1>2, <1>3, <1>4, <1>5, <1>6 DEF SamNext
\* Trouble of a message is that of before it: trouble of one kind ends before another begins.
LEMMA TroubleGoesOn ==
    ASSUME SamInv, SamInv', GoodOK, GoodOK', ReportedOK, SamTimeout >= 1, suspects' = suspects,
           \A t \in Topics : stamps[t] # <<>> => stamps'[t] # <<>>,
           trouble >= 1, Plain'
    PROVE  Plain
<1>1. SUFFICES ASSUME NEW t \in Topics, SilentTopic(t) PROVE FALSE
  BY DEF ReportedOK, InTrouble, Plain
<1>2. t \in suspects /\ stamps[t] # <<>>
  BY <1>1, OneKind DEF OneKindOK, SilentTopic
<1>3. (\A c \in Checks : BadCheck(c)' => c \in suspects) /\ (LateTopic' => Essential \in suspects)
  <2>1. OneKindOK'
    BY OneKind, PTL
  <2> QED
    BY <2>1 DEF OneKindOK
<1>4. ASSUME NEW c \in Checks, BadCheck(c)' PROVE FALSE
  BY <1>2, <1>3, <1>4, SamConstants DEF GoodOK
<1>5. ~LateTopic'
  BY <1>2, <1>3 DEF GoodOK, LateTopic
<1> QED
  BY <1>4, <1>5 DEF Plain

\* A message that leaves the trouble as it is leaves the report of it as far.
LEMMA MessagesReported ==
    ASSUME SamInv, SamInv', GoodOK, GoodOK', ReportedOK, SamTimeout >= 1, suspects' = suspects,
           \A t \in Topics : stamps[t] # <<>> => stamps'[t] # <<>>,
           \A t \in Topics : SilentTopic(t)' => SilentTopic(t),
           UNCHANGED <<monitor_fault, sam_due, sam_health>>,
           trouble' = IF SameTrouble THEN trouble ELSE 0
    PROVE  ReportedOK'
<1>1. trouble' \in 0 .. TooLong /\ (trouble' >= 1 => trouble' = trouble /\ InTrouble')
  BY DEF ReportedOK, TooLong, SameTrouble
<1>2. trouble' >= 1 /\ ~PassedOver' => ~PassedOver
  BY DEF SameTrouble, TooLong
<1>3. trouble' >= 1 /\ ~PassedOver' =>
          /\ \A t \in Topics : SilentTopic(t)' => t \in sam_due' \cup monitor_fault'
          /\ (Plain' /\ "output" \notin sam_due') => sam_health' = "ERROR"
  BY <1>1, <1>2, TroubleGoesOn DEF ReportedOK
<1>4. trouble' >= 2 /\ ~PassedOver' =>
          /\ \A t \in Topics : SilentTopic(t)' => t \in monitor_fault'
          /\ (Plain' \/ "output" \notin sam_due') => sam_health' = "ERROR"
  BY <1>1, <1>2, TroubleGoesOn DEF ReportedOK
<1>5. trouble' = TooLong /\ ~PassedOver' => sam_health' = "ERROR"
  BY <1>1, <1>2 DEF ReportedOK, TooLong
<1> QED
  BY <1>1, <1>3, <1>4, <1>5 DEF ReportedOK

\* A monitor finds the topic it reports of silent.
LEMMA MonitorsReported ==
    ASSUME SamInv, ReportedOK, NEW topic \in Topics, ReportCallback(topic)
    PROVE  ReportedOK'
<1>1. /\ UNCHANGED <<suspects, stamps, last, uptime, sam_health, trouble>>
      /\ sam_due' = sam_due \ {topic}
      /\ monitor_fault \subseteq monitor_fault'
  BY DEF ReportCallback
<1>2. SilentTopic(topic) /\ ~PassedOver => topic \in monitor_fault'
  <2> SUFFICES ASSUME SilentTopic(topic), ~PassedOver PROVE topic \in monitor_fault'
    OBVIOUS
  <2>0. stamps[topic] \in Seq(SamAges) /\ stamps[topic] # <<>> /\ Len(stamps[topic]) # 1
    BY DEF SamInv, StampsOK, SilentTopic, PassedOver
  <2>1. stamps[topic] \in Seq(SamAges) /\ Len(stamps[topic]) >= 2 /\ Newest(topic) > SamTimeout
    <3>1. Len(stamps[topic]) \in Nat \ {0}
      BY <2>0, EmptySeq
    <3>2. \A n \in Nat \ {0} : n # 1 => n >= 2
      OBVIOUS
    <3>3. Newest(topic) > SamTimeout
      BY DEF SilentTopic
    <3> QED
      BY <2>0, <3>1, <3>2, <3>3, Zenon
  <2>2. 1 \in 1 .. Len(stamps[topic]) /\ Len(stamps[topic]) \in 1 .. Len(stamps[topic])
    BY <2>1
  <2>3. stamps[topic][1] \in SamAges /\ Newest(topic) \in SamAges /\ Newest(topic) <= stamps[topic][1]
    BY <2>1, <2>2 DEF SamInv, StampsOK, Newest
  <2>4. stamps[topic][1] > SamTimeout
    BY <2>1, <2>3, SamNumbers
  <2> QED
    BY <2>1, <2>4 DEF ReportCallback
<1>3. /\ \A t \in Topics : SilentTopic(t)' = SilentTopic(t)
      /\ Plain' = Plain /\ InTrouble' = InTrouble /\ PassedOver' = PassedOver
  BY <1>1 DEF SilentTopic, SilentCheck, Newest, Plain, InTrouble, PassedOver, LateTopic, BadCheck,
         InitiallyTimedOut
<1>4. "output" \in sam_due' <=> "output" \in sam_due
  BY <1>1, SamConstants
<1> QED
  BY <1>1, <1>2, <1>3, <1>4 DEF ReportedOK

\* The output reports the trouble it sees, and the faults that were found.
LEMMA OutputReported ==
    ASSUME SamInv, ReportedOK, OutputCallback
    PROVE  ReportedOK'
<1>1. /\ UNCHANGED <<stamps, last, uptime, monitor_fault, trouble>>
      /\ sam_due' = sam_due \ {"output"}
      /\ monitor_fault # {} => sam_health' = "ERROR"
  BY SamJudges
<1>2. Plain /\ ~PassedOver => sam_health' = "ERROR"
  BY PlainIsSeen
<1>3. /\ \A t \in Topics : SilentTopic(t)' = SilentTopic(t)
      /\ Plain' = Plain /\ InTrouble' = InTrouble /\ PassedOver' = PassedOver
  BY <1>1 DEF SilentTopic, SilentCheck, Newest, Plain, InTrouble, PassedOver, LateTopic, BadCheck,
         InitiallyTimedOut
<1>4. trouble \in 0 .. 3 /\ (trouble >= 2 /\ ~PassedOver => sam_health' = "ERROR")
  BY <1>1, <1>2 DEF ReportedOK, InTrouble, Plain, TooLong
<1>5. \A t \in Topics : t \in sam_due' <=> t \in sam_due
  BY <1>1, SamConstants
<1> QED
  BY <1>1, <1>2, <1>3, <1>4, <1>5 DEF ReportedOK, TooLong

\* A check that has fallen silent does not speak by the passing of time.
LEMMA SilenceLasts ==
    ASSUME SamInv, SamTick, NEW c \in Checks, SilentCheck(c) PROVE SilentCheck(c)'
<1>1. /\ last[c] \in [value : {"none", "good", "bad", "no bottom"}, age : SamAges]
      /\ last[c].value # "none"
  BY DEF SamInv, LastOK, SilentCheck
<1>2. last'[c].value # "none" /\ last'[c].age = Aged(last[c].age)
  BY <1>1, AllAged DEF SamInv, SilentCheck
<1>3. last'[c] # NoMessage
  BY <1>2 DEF NoMessage
<1> QED
  BY <1>1, <1>2, <1>3 DEF SilentCheck, Aged

\* At the end of a period the timers have run: the report of the trouble has come one
\* period further.
LEMMA TickReported ==
    ASSUME SamInv, SamInv', GoodOK, GoodOK', ReportedOK, SamTimeout >= 1, SamTick
    PROVE  ReportedOK'
<1>1. /\ UNCHANGED <<suspects, monitor_fault, sam_health>>
      /\ sam_due = {} /\ sam_due' = Timers
      /\ trouble' = IF ~InTrouble THEN 0 ELSE IF trouble < TooLong THEN trouble + 1 ELSE trouble
      /\ trouble \in 0 .. 3 /\ TooLong = 3
  BY DEF SamTick, ReportedOK, TooLong
<1>2. \A t \in Topics : SilentTopic(t) => SilentTopic(t)'
  <2> SUFFICES ASSUME NEW t \in Topics, SilentTopic(t) PROVE SilentTopic(t)'
    OBVIOUS
  <2>1. stamps[t] \in Seq(SamAges) /\ stamps[t] # <<>> /\ Newest(t) > SamTimeout
    BY DEF SamInv, StampsOK, SilentTopic
  <2>2. Len(stamps[t]) \in 1 .. Len(stamps[t])
    BY <2>1
  <2>3. Newest(t)' = Aged(Newest(t)) /\ stamps'[t] # <<>>
    BY <2>1, <2>2, AllAged DEF Newest, SamInv
  <2> QED
    BY <2>1, <2>3 DEF SilentTopic, Aged
<1>3. LateTopic => LateTopic'
  BY SamTicks, AllAged, SamConstants DEF LateTopic, SamInv
<1>4. \A c \in Checks : BadCheck(c) => BadCheck(c)'
  <2> SUFFICES ASSUME NEW c \in Checks, BadCheck(c) PROVE BadCheck(c)'
    OBVIOUS
  <2>1. last'[c].value = last[c].value /\ (last[c] = NoMessage => last'[c] = NoMessage)
    BY AllAged DEF SamInv
  <2>2. SilentCheck(c) => SilentCheck(c)'
    BY SilenceLasts
  <2> QED
    BY <2>1, <2>2, SamTicks DEF BadCheck
<1>5. (Plain => Plain') /\ (PassedOver => PassedOver')
  <2>1. \A t \in Topics : Len(stamps'[t]) = Len(stamps[t])
    BY AllAged DEF SamInv
  <2>2. \A c \in Checks : last'[c].value = last[c].value
    BY AllAged DEF SamInv
  <2> QED
    BY <1>2, <1>3, <1>4, <2>1, <2>2, SilenceLasts DEF Plain, PassedOver
<1>6. InTrouble => InTrouble'
  BY <1>2, <1>5 DEF InTrouble, Plain
<1>7. ASSUME trouble >= 1, ~PassedOver', NEW t \in Topics, SilentTopic(t)' PROVE t \in monitor_fault
  <2>1. ~Plain' /\ \A u \in Topics : SilentTopic(u) => u = t
    <3>1. OneKindOK'
      BY OneKind, PTL
    <3> QED
      BY <1>1, <1>2, <1>7, <3>1 DEF OneKindOK
  <2>2. SilentTopic(t) /\ ~PassedOver
    BY <1>5, <1>7, <2>1 DEF ReportedOK, InTrouble, Plain
  <2> QED
    BY <1>1, <1>7, <2>2 DEF ReportedOK
<1>8. trouble >= 1 /\ Plain' /\ ~PassedOver' => Plain /\ sam_health = "ERROR"
  <2>1. \A t \in Topics : stamps[t] # <<>> => stamps'[t] # <<>>
    BY AllAged DEF SamInv
  <2> QED
    BY <1>1, <1>5, <2>1, TroubleGoesOn DEF ReportedOK
<1>9. "output" \in sam_due' /\ \A t \in Topics : t \in sam_due'
  BY <1>1 DEF Timers
<1>10. trouble' \in 0 .. 3 /\ (trouble' >= 1 => InTrouble) /\ (trouble' >= 2 => trouble >= 1)
       /\ (trouble' = 3 => trouble >= 2)
  BY <1>1
<1>11. trouble >= 2 /\ ~PassedOver' => sam_health = "ERROR"
  BY <1>1, <1>5 DEF ReportedOK
<1> QED
  BY <1>1, <1>6, <1>7, <1>8, <1>9, <1>10, <1>11 DEF ReportedOK

\* The two invariants of one source start and last.
LEMMA TroubleInvInit == SamInit /\ MaxSuspects <= 1 => GoodOK /\ ReportedOK
<1> SUFFICES ASSUME SamInit, MaxSuspects <= 1 PROVE GoodOK /\ ReportedOK
  OBVIOUS
<1>1. \A i, j \in 1 .. MaxSuspects : i = j
  BY SamHealthAssumption
<1>2. PICK f \in [1 .. MaxSuspects -> Topics \cup Checks] : suspects = {f[i] : i \in 1 .. MaxSuspects}
  BY DEF SamInit
<1>3. \A a, b \in suspects : a = b
  BY <1>1, <1>2
<1>4. stamps = [t \in Topics |-> <<>>] /\ last = [c \in Checks |-> NoMessage] /\ uptime = 0 /\ trouble = 0
  BY DEF SamInit
<1>5. \A c \in Checks : last[c] = NoMessage /\ last[c].value = "none"
  BY <1>4 DEF NoMessage
<1>6. GoodOK
  BY <1>3, <1>4, <1>5, SamConstants DEF GoodOK
<1>7. ReportedOK
  BY <1>4 DEF ReportedOK, TooLong
<1> QED
  BY <1>6, <1>7

\* Every step keeps the invariant of trouble and its report.
LEMMA TroubleInvNext ==
    ASSUME SamTimeout >= 1, SamInv, SamInv', GoodOK, ReportedOK, [SamNext]_samVars
    PROVE  GoodOK' /\ ReportedOK'
<1>1. CASE UNCHANGED samVars
  <2> USE <1>1 DEF samVars
  <2>1. GoodOK'
    BY DEF GoodOK, Newest
  <2>2. /\ \A t \in Topics : SilentTopic(t)' = SilentTopic(t)
        /\ Plain' = Plain /\ InTrouble' = InTrouble /\ PassedOver' = PassedOver
    BY DEF SilentTopic, SilentCheck, Newest, Plain, InTrouble, PassedOver, LateTopic, BadCheck,
         InitiallyTimedOut
  <2>3. ReportedOK'
    BY <2>2 DEF ReportedOK
  <2> QED
    BY <2>1, <2>3
<1>2. CASE SamNext
  <2>0. GoodOK'
    BY <1>2, GoodOKNext
  <2>1. ASSUME NEW topic \in Topics, SubscriberCallback(topic) PROVE ReportedOK'
    <3>1. /\ UNCHANGED <<suspects, monitor_fault, sam_due, sam_health>>
          /\ trouble' = IF SameTrouble THEN trouble ELSE 0
      BY <2>1 DEF SubscriberCallback
    <3>2. /\ Len(stamps'[topic]) \in 1 .. Window /\ Newest(topic)' = 0
          /\ \A t \in Topics \ {topic} : stamps'[t] = stamps[t]
      BY <2>1, Heard DEF SamInv, Newest
    <3>3. \A t \in Topics : stamps[t] # <<>> => stamps'[t] # <<>>
      BY <3>2
    <3>4. ~SilentTopic(topic)'
      BY <3>2, SamNumbers DEF SilentTopic
    <3>5. \A t \in Topics : SilentTopic(t)' => SilentTopic(t)
      BY <3>2, <3>4 DEF SilentTopic, Newest
    <3> QED
      BY <2>0, <3>1, <3>3, <3>5, MessagesReported
  <2>2. ASSUME NEW c \in Checks, NEW value \in Values(c), ValueCallback(c, value) PROVE ReportedOK'
    <3>1. /\ UNCHANGED <<suspects, stamps, monitor_fault, sam_due, sam_health>>
          /\ trouble' = IF SameTrouble THEN trouble ELSE 0
      BY <2>2 DEF ValueCallback
    <3>2. \A t \in Topics : SilentTopic(t)' => SilentTopic(t)
      BY <3>1 DEF SilentTopic, Newest
    <3> QED
      BY <2>0, <3>1, <3>2, MessagesReported
  <2> QED
    BY <1>2, <2>0, <2>1, <2>2, MonitorsReported, OutputReported, TickReported DEF SamNext
<1> QED
  BY <1>1, <1>2

\* Where at most one source misbehaves and a message of the last period is not too old, its
\* trouble is reported, unless it is a silence that the node passes over: at the end of the third period at the latest, whichever source it
\* is, in whatever way it turns bad and in whatever order the timers run.
THEOREM TroubleGetsReported ==
    ASSUME MaxSuspects <= 1, SamTimeout >= 1
    PROVE  SamSpec => []TroubleIsReported
<1>1. SamInit => SamInv /\ GoodOK /\ ReportedOK
  BY SamInvInit, TroubleInvInit
<1>2. SamInv /\ GoodOK /\ ReportedOK /\ [SamNext]_samVars => (SamInv /\ GoodOK /\ ReportedOK)'
  BY SamInvNext, TroubleInvNext
<1>3. ReportedOK => TroubleIsReported
  BY DEF ReportedOK, TroubleIsReported
<1> QED
  BY <1>1, <1>2, <1>3, PTL DEF SamSpec

----------------------------------------------------------------------------
(* The nodes side by side *)

\* Which of the two that share the tree runs, and which of those that share the goal handles.
RunsProxOps   == node = "prox_ops"
RunsEmergency == node = "emergency"

\* A step of one node is a step of that node or none of the others.
LEMMA SideBySide ==
    ASSUME [Next]_<<node, nodeVars>>
    PROVE  /\ node' = node
           /\ [GeofenceNext]_geofenceVars /\ [MotionNext]_motionVars /\ [SamNext]_samVars
           /\ RunsProxOps => [ProxOpsNext]_<<treeVars, proxOpsVars>> /\ UNCHANGED alarsVars
           /\ ~RunsProxOps => [AlarsNext]_<<treeVars, alarsVars>> /\ UNCHANGED proxOpsVars
           /\ RunsEmergency =>
                [EmergencyNext]_<<handleVars, emergencyVars>> /\ UNCHANGED recoverVars
           /\ ~RunsEmergency =>
                [RecoverNext]_<<handleVars, recoverVars>> /\ UNCHANGED emergencyVars
BY DEF Next, nodeVars, actionVars, RunsProxOps, RunsEmergency

\* They start as they do alone.
LEMMA StartSideBySide ==
    ASSUME Init
    PROVE  /\ GeofenceInit /\ MotionInit /\ SamInit
           /\ AlarsInit /\ ProxOpsInit /\ ServerInit /\ RecoverInit /\ EmergencyInit
           /\ RunsProxOps => TreeInit(ProxOpsBranches)
           /\ ~RunsProxOps => TreeInit(AlarsBranches)
BY DEF Init, RunsProxOps

\* The same node runs all the time.
LEMMA OneNodeRuns ==
    [Next]_<<node, nodeVars>> => (RunsProxOps' <=> RunsProxOps) /\ (RunsEmergency' <=> RunsEmergency)
BY SideBySide DEF RunsProxOps, RunsEmergency

\* The nodes that share no state behave as alone; so does the one that runs of the two that
\* share the tree, and of the two that share the goal handles.
THEOREM NodesRunAlone ==
    /\ Spec => GeofenceSpec /\ MotionSpec /\ SamSpec
    /\ Spec => (RunsProxOps => ProxOpsSpec) /\ (~RunsProxOps => AlarsSpec)
    /\ Spec => (RunsEmergency => EmergencySpec) /\ (~RunsEmergency => RecoverSpec)
<1>1. Spec => GeofenceSpec /\ MotionSpec /\ SamSpec
  <2>1. Init => GeofenceInit /\ MotionInit /\ SamInit
    BY StartSideBySide
  <2>2. [Next]_<<node, nodeVars>> =>
            [GeofenceNext]_geofenceVars /\ [MotionNext]_motionVars /\ [SamNext]_samVars
    BY SideBySide
  <2> QED
    BY <2>1, <2>2, PTL DEF Spec, GeofenceSpec, MotionSpec, SamSpec
<1>2. Spec => (RunsProxOps => ProxOpsSpec) /\ (~RunsProxOps => AlarsSpec)
  <2>1. Init => /\ RunsProxOps => TreeInit(ProxOpsBranches) /\ ProxOpsInit
                /\ ~RunsProxOps => TreeInit(AlarsBranches) /\ AlarsInit
    BY StartSideBySide
  <2>2. [Next]_<<node, nodeVars>> =>
            /\ RunsProxOps => [ProxOpsNext]_<<treeVars, proxOpsVars>>
            /\ ~RunsProxOps => [AlarsNext]_<<treeVars, alarsVars>>
    BY SideBySide
  <2> QED
    BY <2>1, <2>2, OneNodeRuns, PTL DEF Spec, ProxOpsSpec, AlarsSpec
<1>3. Spec => (RunsEmergency => EmergencySpec) /\ (~RunsEmergency => RecoverSpec)
  <2>1. Init => ServerInit /\ EmergencyInit /\ RecoverInit
    BY StartSideBySide
  <2>2. [Next]_<<node, nodeVars>> =>
            /\ RunsEmergency => [EmergencyNext]_<<handleVars, emergencyVars>>
            /\ ~RunsEmergency => [RecoverNext]_<<handleVars, recoverVars>>
    BY SideBySide
  <2> QED
    BY <2>1, <2>2, OneNodeRuns, PTL DEF Spec, EmergencySpec, RecoverSpec
<1> QED
  BY <1>1, <1>2, <1>3

\* The members of the node that does not run stay as they are, in their kinds.
IdleOK ==
    /\ IF RunsProxOps THEN AlarsTypeOK ELSE ProxOpsTypeOK
    /\ IF RunsEmergency THEN RecoverTypeOK ELSE EmergencyTypeOK

\* Every variable of the nodes holds a value of the kind its code gives it, whichever runs.
THEOREM NodesTypeCorrect == Spec => []NodesTypeOK
<1>1. Init => IdleOK
  <2> SUFFICES ASSUME Init PROVE IdleOK
    OBVIOUS
  <2>1. AlarsTypeOK /\ ProxOpsTypeOK
    BY StartSideBySide, AlarsBTAssumption, ProxOpsBTAssumption
       DEF AlarsInit, AlarsTypeOK, GoalValues, ProxOpsInit, ProxOpsTypeOK
  <2>2. RecoverInv /\ EmergencyInv
    BY StartSideBySide, InitRecover, InitEmergency
  <2> QED
    BY <2>1, <2>2 DEF IdleOK, RecoverInv, EmergencyInv
<1>2. IdleOK /\ [Next]_<<node, nodeVars>> => IdleOK'
  <2> SUFFICES ASSUME IdleOK, [Next]_<<node, nodeVars>> PROVE IdleOK'
    OBVIOUS
  <2>1. /\ RunsProxOps' <=> RunsProxOps
        /\ RunsEmergency' <=> RunsEmergency
    BY OneNodeRuns
  <2>2. IF RunsProxOps' THEN AlarsTypeOK' ELSE ProxOpsTypeOK'
    BY <2>1, SideBySide DEF IdleOK, AlarsTypeOK, ProxOpsTypeOK, alarsVars, proxOpsVars
  <2>3. IF RunsEmergency' THEN RecoverTypeOK' ELSE EmergencyTypeOK'
    BY <2>1, SideBySide DEF IdleOK, RecoverTypeOK, EmergencyTypeOK, recoverVars, emergencyVars
  <2> QED
    BY <2>2, <2>3 DEF IdleOK
<1>3. Spec => []IdleOK /\ [](GeofenceTypeOK /\ MotionTypeOK /\ SamTypeOK)
  BY <1>1, <1>2, NodesRunAlone, GeofenceTypeCorrect, MotionTypeCorrect, SamTypeCorrect, PTL DEF Spec
<1>4. Spec => [](TreeTypeOK /\ (RunsProxOps => ProxOpsTypeOK) /\ (~RunsProxOps => AlarsTypeOK))
  BY OneNodeRuns, NodesRunAlone, ProxOpsTypeCorrect, AlarsTypeCorrect, PTL DEF Spec
<1>5. Spec => [](/\ ServerTypeOK
                 /\ RunsEmergency => EmergencyTypeOK
                 /\ ~RunsEmergency => RecoverTypeOK)
  <2>1. EmergencyInv => ServerTypeOK /\ EmergencyTypeOK
    BY DEF EmergencyInv, HandleInv
  <2> QED
    BY <2>1, OneNodeRuns, NodesRunAlone, EmergencyInvHolds, RecoverTypeCorrect, PTL DEF Spec
<1>6. /\ IdleOK /\ GeofenceTypeOK /\ MotionTypeOK /\ SamTypeOK
      /\ TreeTypeOK /\ (RunsProxOps => ProxOpsTypeOK) /\ (~RunsProxOps => AlarsTypeOK)
      /\ ServerTypeOK /\ (RunsEmergency => EmergencyTypeOK) /\ (~RunsEmergency => RecoverTypeOK)
      => NodesTypeOK
  BY DEF IdleOK, NodesTypeOK
<1> QED
  BY <1>3, <1>4, <1>5, <1>6, PTL
=============================================================================
