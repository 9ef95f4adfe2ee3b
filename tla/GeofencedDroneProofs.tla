-------------------------- MODULE GeofencedDroneProofs --------------------------
(***************************************************************************)
(* Proofs about the geofence node and the DJI captain: for any polygons,   *)
(* points, limits and requests the limits stay paired and an undisturbed   *)
(* check tells the truth; for any sensors and ages the health follows the  *)
(* fence; for any age limit of a setpoint and any difference of the clocks *)
(* the captain's joystick timers keep their promises.                      *)
(***************************************************************************)
EXTENDS GeofencedDrone, DjiMotion, SequenceTheorems, TLAPS

----------------------------------------------------------------------------
(* The invariant of the geofence node *)

\* What callbacks write: a polygon, a limit, or nothing to a place that takes none.
WriteSet ==
    [to : {"fence", "island"}, value : Polygons] \cup
    [to : {"ceiling", "floor"}, value : Int \cup {None}] \cup
    [to : {"no fences", "no islands", "polygons", "raise"}, value : {None}]

WritesOK ==
    /\ writes \in [Server -> Seq(WriteSet)]
    /\ ceiling \in Int \cup {None} /\ floor \in Int \cup {None}

\* A check is of one point or of two.
CheckOK ==
    /\ check \in [for : {"none", "status", "service"}, asked : {check.asked},
                  points : {check.points},
                  at : {"idle", "setup", "ceiling", "above", "floor", "below", "fences", "islands"}]
    /\ IF check.for = "none" THEN check = NoCheck
       ELSE /\ check.at # "idle"
            /\ \/ \E a \in Asked : check.points = <<a>> /\ check.asked = <<a>>
               \/ \E a, b \in Asked : /\ check.points \in {<<b>>, <<a, b>>}
                                       /\ check.asked = <<a, b>>

StatusOK == status \in [status : Outside \cup {"INSIDE", "INACTIVE", None}, age : Nat]

\* A pair of limits that is whole, and the limits a callback leaves behind when it writes
\* the rest of its list: the last value written is each value written.
Whole(c, f) == (c = None /\ f = None) \/ (c # None /\ f # None /\ c > f)

Leaves(list, to, now, value) ==
    IF \A i \in 1 .. Len(list) : list[i].to # to THEN value = now
    ELSE \A i \in 1 .. Len(list) : list[i].to = to => list[i].value = value

LeavesWhole(list) ==
    \E c, f \in Int \cup {None} :
        Whole(c, f) /\ Leaves(list, "ceiling", ceiling, c) /\ Leaves(list, "floor", floor, f)

\* While the servers write one after the other, one of them is at rest and the other one
\* leaves the limits whole.
PairedOK == ~overlapped => \E s \in Server : /\ \A o \in Server \ {s} : writes[o] = <<>>
                                             /\ LeavesWhole(writes[s])

GeofenceInv == GeofenceTypeOK /\ WritesOK /\ CheckOK /\ StatusOK /\ PairedOK

----------------------------------------------------------------------------
(* What the callbacks of the action servers write *)

\* None is no number, and the limits of a goal are two numbers.
LEMMA GeofenceConstants ==
    /\ None \notin Int /\ None \notin BOOLEAN
    /\ \A l \in Limits : l # NoLimits => l.ceiling \in Int /\ l.floor \in Int
    /\ MaxGoals \in Nat /\ MaxPositionAge \in Nat
    /\ \A point \in Points : point # None /\ point \in Asked
    /\ \A r \in Requests : \/ \E a \in Asked : r = <<a>>
                          \/ \E a, b \in Asked : r = <<a, b>>
    /\ \A point \in Asked : point.alt \in Int
<1>1. \A r \in Requests : r \in Seq(Position) /\ (r = <<r[1]>> \/ r = <<r[1], r[2]>>)
  BY GeofenceAssumption
<1>2. Points \subseteq Position /\ None \notin Points
  BY GeofenceAssumption
<1>3. ASSUME NEW r \in Requests
      PROVE  /\ \/ \E a \in Asked : r = <<a>>
                \/ \E a, b \in Asked : r = <<a, b>>
             /\ Range(r) \subseteq Position
  <2>1. r \in Seq(Position) /\ (r = <<r[1]>> \/ r = <<r[1], r[2]>>)
    BY <1>1
  <2>2. \A i \in DOMAIN r : r[i] \in Range(r)
    BY DEF Range
  <2>3. Range(r) \subseteq Asked
    BY DEF Asked
  <2>4. Range(r) \subseteq Position
    BY <2>1 DEF Range
  <2>5. CASE r = <<r[1]>>
    <3>1. 1 \in DOMAIN r
      BY <2>5
    <3> QED
      BY <2>2, <2>3, <2>4, <2>5, <3>1
  <2>6. CASE r = <<r[1], r[2]>>
    <3>1. 1 \in DOMAIN r /\ 2 \in DOMAIN r
      BY <2>6
    <3> QED
      BY <2>2, <2>3, <2>4, <2>6, <3>1
  <2> QED
    BY <2>1, <2>5, <2>6
<1>4. \A point \in Asked : point \in Position
  BY <1>2, <1>3 DEF Asked
<1>5. \A point \in Points : point # None /\ point \in Asked
  BY <1>2 DEF Asked
<1>6. \A point \in Asked : point.alt \in Int
  BY <1>4 DEF Position
<1>7. None \notin Int /\ None \notin BOOLEAN /\ MaxGoals \in Nat /\ MaxPositionAge \in Nat
      /\ \A l \in Limits : l # NoLimits => l.ceiling \in Int /\ l.floor \in Int
  BY GeofenceAssumption
<1> QED
  BY <1>3, <1>5, <1>6, <1>7

\* A place that a list does not write to.
Spares(list, to) == \A i \in 1 .. Len(list) : list[i].to # to

\* Of two lists, one after the other, the one that writes to a place tells what is left there.
LEMMA JoinedLeave ==
    ASSUME NEW s \in Seq(WriteSet), NEW t \in Seq(WriteSet), NEW to, NEW now, NEW value,
           \/ Spares(s, to) /\ Leaves(t, to, now, value)
           \/ Leaves(s, to, now, value) /\ Spares(t, to)
    PROVE  Leaves(s \o t, to, now, value)
<1> DEFINE l == s \o t
<1>0. Len(s) \in Nat /\ Len(t) \in Nat /\ Len(l) = Len(s) + Len(t)
  BY ConcatProperties
<1>1. \A i \in 1 .. Len(l) : l[i] = IF i <= Len(s) THEN s[i] ELSE t[i - Len(s)]
  BY <1>0, ConcatProperties
<1>2. /\ \A i \in 1 .. Len(s) : i \in 1 .. Len(l) /\ l[i] = s[i]
      /\ \A i \in 1 .. Len(t) : Len(s) + i \in 1 .. Len(l) /\ l[Len(s) + i] = t[i]
      /\ \A i \in 1 .. Len(l) : i \in 1 .. Len(s) \/ i - Len(s) \in 1 .. Len(t)
  BY <1>0, <1>1
<1> HIDE DEF l
<1>3. CASE Spares(s, to) /\ Leaves(t, to, now, value)
  BY <1>0, <1>1, <1>2, <1>3 DEF Spares, Leaves, l
<1>4. CASE Leaves(s, to, now, value) /\ Spares(t, to)
  BY <1>0, <1>1, <1>2, <1>4 DEF Spares, Leaves, l
<1> QED
  BY <1>3, <1>4

\* A single write to another place leaves a place as it is.
LEMMA OneSpares ==
    ASSUME NEW w \in WriteSet, NEW to, w.to # to
    PROVE  <<w>> \in Seq(WriteSet) /\ Spares(<<w>>, to)
BY DEF Spares

\* Three writes, of which two set the limits, in this order or the other.
LEMMA ThreeLeave ==
    ASSUME NEW c \in Int \cup {None}, NEW f \in Int \cup {None}, NEW w \in WriteSet,
           w.to # "ceiling", w.to # "floor",
           NEW list \in {<<Write("ceiling", c), Write("floor", f), w>>,
                        <<w, Write("floor", f), Write("ceiling", c)>>}
    PROVE  /\ list \in Seq(WriteSet)
           /\ Leaves(list, "ceiling", ceiling, c) /\ Leaves(list, "floor", floor, f)
<1> DEFINE a == Write("ceiling", c)
           b == Write("floor", f)
<1>1. a \in WriteSet /\ b \in WriteSet
  BY DEF Write, WriteSet
<1>2. a.to = "ceiling" /\ a.value = c /\ b.to = "floor" /\ b.value = f
  BY DEF Write
<1> HIDE DEF a, b
<1>3. CASE list = <<a, b, w>>
  BY <1>1, <1>2, <1>3 DEF Leaves
<1>4. CASE list = <<w, b, a>>
  BY <1>1, <1>2, <1>4 DEF Leaves
<1> QED
  BY <1>3, <1>4 DEF a, b

\* The other writes are to other places.
LEMMA OtherWrites ==
    ASSUME NEW w, \/ \E polygon \in Polygons, to \in {"fence", "island"} : w = Write(to, polygon)
                  \/ \E to \in {"no fences", "no islands", "raise"} : w = Write(to, None)
                  \/ w = Publish
    PROVE  w \in WriteSet /\ w.to # "ceiling" /\ w.to # "floor"
<1>1. ASSUME NEW polygon \in Polygons, NEW to \in {"fence", "island"}, w = Write(to, polygon)
      PROVE  w \in WriteSet /\ w.to # "ceiling" /\ w.to # "floor"
  BY <1>1 DEF Write, WriteSet
<1>2. ASSUME NEW to \in {"no fences", "no islands", "raise"}, w = Write(to, None)
      PROVE  w \in WriteSet /\ w.to # "ceiling" /\ w.to # "floor"
  BY <1>2 DEF Write, WriteSet
<1>3. CASE w = Publish
  BY <1>3 DEF Publish, WriteSet
<1> QED
  BY <1>1, <1>2, <1>3

\* What a start has its callback write: a list that leaves whole limits whole.
LEMMA StartLeavesWhole ==
    ASSUME WritesOK, NEW polygon \in Polygons, NEW inside \in BOOLEAN, NEW limits \in Limits
    PROVE  /\ StartWrites(polygon, inside, limits) \in Seq(WriteSet)
           /\ Whole(ceiling, floor) => LeavesWhole(StartWrites(polygon, inside, limits))
<1> DEFINE w == Write(IF inside THEN "fence" ELSE "island", polygon)
           lists(c, f) == <<Write("ceiling", c), Write("floor", f), Publish>>
           rest == IF limits = NoLimits THEN <<>>
                   ELSE IF limits.ceiling > limits.floor THEN lists(limits.ceiling, limits.floor)
                   ELSE lists(None, None)
<1>1. StartWrites(polygon, inside, limits) = <<w>> \o rest
  BY Zenon DEF StartWrites
<1>2. w \in WriteSet /\ w.to # "ceiling" /\ w.to # "floor"
  <2>1. (IF inside THEN "fence" ELSE "island") \in {"fence", "island"}
    OBVIOUS
  <2> QED
    BY <2>1, OtherWrites
<1>3. <<w>> \in Seq(WriteSet) /\ Spares(<<w>>, "ceiling") /\ Spares(<<w>>, "floor")
  BY <1>2, OneSpares
<1> HIDE DEF w
<1>4. CASE limits = NoLimits
  <2>1. rest = <<>>
    BY <1>4
  <2>2. <<w>> \o <<>> = <<w>>
    BY <1>3, ConcatEmptySeq
  <2>3. Leaves(<<w>>, "ceiling", ceiling, ceiling) /\ Leaves(<<w>>, "floor", floor, floor)
    BY <1>3 DEF Spares, Leaves
  <2> QED
    BY <1>1, <1>3, <2>1, <2>2, <2>3 DEF LeavesWhole, WritesOK
<1>5. CASE limits # NoLimits
  <2>1. \E c, f \in Int \cup {None} : Whole(c, f) /\ rest = lists(c, f)
    <3>1. limits.ceiling \in Int /\ limits.floor \in Int
      BY <1>5, GeofenceConstants
    <3>2. CASE limits.ceiling > limits.floor
      BY <1>5, <3>1, <3>2, GeofenceConstants DEF Whole
    <3>3. CASE ~(limits.ceiling > limits.floor)
      BY <1>5, <3>3 DEF Whole
    <3> QED
      BY <3>2, <3>3
  <2> HIDE DEF rest
  <2>2. PICK c \in Int \cup {None}, f \in Int \cup {None} : Whole(c, f) /\ rest = lists(c, f)
    BY <2>1
  <2>3. Publish \in WriteSet /\ Publish.to # "ceiling" /\ Publish.to # "floor"
    BY OtherWrites
  <2>4. /\ lists(c, f) \in Seq(WriteSet)
        /\ Leaves(lists(c, f), "ceiling", ceiling, c) /\ Leaves(lists(c, f), "floor", floor, f)
    BY <2>3, ThreeLeave
  <2> HIDE DEF lists
  <2>5. /\ Leaves(<<w>> \o rest, "ceiling", ceiling, c) /\ Leaves(<<w>> \o rest, "floor", floor, f)
        /\ <<w>> \o rest \in Seq(WriteSet)
    BY <1>3, <2>2, <2>4, JoinedLeave, ConcatProperties
  <2> QED
    BY <1>1, <2>2, <2>5 DEF LeavesWhole
<1> QED
  BY <1>4, <1>5

\* So does the callback of a stop, and it writes none or both of them.
LEMMA StopLeavesWhole ==
    ASSUME WritesOK, NEW f \in BOOLEAN \cup {None}, NEW i \in BOOLEAN \cup {None}
    PROVE  /\ StopWrites(f, i) \in Seq(WriteSet)
           /\ Whole(ceiling, floor) => LeavesWhole(StopWrites(f, i))
<1> DEFINE ra == Write("raise", None)
           ni == Write("no islands", None)
           reset == <<Write("no fences", None), Write("floor", None), Write("ceiling", None)>>
           first == IF f THEN reset ELSE <<>>
           rest == IF i = None THEN <<ra>> ELSE (IF i THEN <<ni>> ELSE <<>>) \o <<Publish>>
<1>1. StopWrites(f, i) = IF f = None THEN <<ra>> ELSE first \o rest
  BY Zenon DEF StopWrites
<1>2. /\ reset \in Seq(WriteSet)
      /\ Leaves(reset, "ceiling", ceiling, None) /\ Leaves(reset, "floor", floor, None)
  <2>1. Write("no fences", None) \in WriteSet /\ Write("no fences", None).to # "ceiling"
        /\ Write("no fences", None).to # "floor"
    BY OtherWrites
  <2> QED
    BY <2>1, ThreeLeave
<1>3. \A to \in {"ceiling", "floor"} :
          /\ <<ra>> \in Seq(WriteSet) /\ Spares(<<ra>>, to)
          /\ <<ni>> \in Seq(WriteSet) /\ Spares(<<ni>>, to)
          /\ <<Publish>> \in Seq(WriteSet) /\ Spares(<<Publish>>, to)
          /\ <<>> \in Seq(WriteSet) /\ Spares(<<>>, to)
  <2>1. /\ ra \in WriteSet /\ ra.to # "ceiling" /\ ra.to # "floor"
        /\ ni \in WriteSet /\ ni.to # "ceiling" /\ ni.to # "floor"
        /\ Publish \in WriteSet /\ Publish.to # "ceiling" /\ Publish.to # "floor"
    BY OtherWrites
  <2>2. <<>> \in Seq(WriteSet) /\ \A to : Spares(<<>>, to)
    BY DEF Spares
  <2> HIDE DEF ra, ni
  <2> QED
    BY <2>1, <2>2, OneSpares
<1> HIDE DEF ra, ni, reset
<1>4. \A s, t \in Seq(WriteSet), to \in {"ceiling", "floor"} :
          Spares(s, to) /\ Spares(t, to) => s \o t \in Seq(WriteSet) /\ Spares(s \o t, to)
  <2> SUFFICES ASSUME NEW s \in Seq(WriteSet), NEW t \in Seq(WriteSet),
                      NEW to \in {"ceiling", "floor"}, Spares(s, to), Spares(t, to)
               PROVE  s \o t \in Seq(WriteSet) /\ Spares(s \o t, to)
    OBVIOUS
  <2>1. /\ s \o t \in Seq(WriteSet) /\ Len(s \o t) = Len(s) + Len(t)
        /\ \A k \in 1 .. Len(s) + Len(t) : (s \o t)[k] = IF k <= Len(s) THEN s[k] ELSE t[k - Len(s)]
    BY ConcatProperties
  <2>2. Len(s) \in Nat /\ Len(t) \in Nat
    OBVIOUS
  <2> QED
    BY <2>1, <2>2 DEF Spares
<1>5. rest \in Seq(WriteSet) /\ Spares(rest, "ceiling") /\ Spares(rest, "floor")
  BY <1>3, <1>4
<1> HIDE DEF rest
<1>6. \A s \in Seq(WriteSet) : Spares(s, "ceiling") /\ Spares(s, "floor") =>
          (Whole(ceiling, floor) => LeavesWhole(s))
  BY DEF Spares, Leaves, LeavesWhole, WritesOK
<1>7. CASE f = None
  BY <1>1, <1>3, <1>6, <1>7
<1>8. CASE f # None /\ f
  <2>1. StopWrites(f, i) = reset \o rest
    BY <1>1, <1>8
  <2>2. /\ Leaves(reset \o rest, "ceiling", ceiling, None) /\ Leaves(reset \o rest, "floor", floor, None)
        /\ reset \o rest \in Seq(WriteSet)
    BY <1>2, <1>5, JoinedLeave, ConcatProperties
  <2> QED
    BY <2>1, <2>2 DEF LeavesWhole, Whole
<1>9. CASE f # None /\ ~f
  <2>1. StopWrites(f, i) = <<>> \o rest
    BY <1>1, <1>9
  <2> QED
    BY <1>3, <1>4, <1>5, <1>6, <2>1
<1> QED
  BY <1>7, <1>8, <1>9

\* And the callback of a cancel, which takes the limits away.
LEMMA CancelLeavesWhole == CancelWrites \in Seq(WriteSet) /\ LeavesWhole(CancelWrites)
<1> DEFINE nf == Write("no fences", None)
           ni == Write("no islands", None)
           nc == Write("ceiling", None)
           nl == Write("floor", None)
<1>1. CancelWrites = <<nf, ni, nc, nl, Publish>>
  BY DEF CancelWrites
<1>2. nf \in WriteSet /\ ni \in WriteSet /\ Publish \in WriteSet /\ nc \in WriteSet /\ nl \in WriteSet
  BY DEF Write, Publish, WriteSet
<1>3. /\ nf.value = None /\ ni.value = None /\ Publish.value = None
      /\ nc.to = "ceiling" /\ nc.value = None /\ nl.to = "floor" /\ nl.value = None
  BY DEF Write, Publish
<1> HIDE DEF nf, ni, nc, nl
<1>4. CancelWrites \in Seq(WriteSet)
  BY <1>1, <1>2
<1>5. Leaves(CancelWrites, "ceiling", ceiling, None) /\ Leaves(CancelWrites, "floor", floor, None)
  <2> DEFINE l == CancelWrites
  <2>1. /\ Len(l) = 5
        /\ l[1] = nf /\ l[2] = ni /\ l[3] = nc /\ l[4] = nl /\ l[5] = Publish
    BY <1>1
  <2>2. \A i \in 1 .. 5 : i = 1 \/ i = 2 \/ i = 3 \/ i = 4 \/ i = 5
    OBVIOUS
  <2> HIDE DEF l
  <2>3. Leaves(l, "ceiling", ceiling, None) /\ Leaves(l, "floor", floor, None)
    <3>1. 3 \in 1 .. Len(l) /\ l[3].to = "ceiling" /\ 4 \in 1 .. Len(l) /\ l[4].to = "floor"
      BY <1>3, <2>1
    <3>2. \A i \in 1 .. Len(l) : l[i].value = None
      BY <1>3, <2>1, <2>2
    <3> QED
      BY <3>1, <3>2 DEF Leaves
  <2> QED
    BY <2>3 DEF l
<1> QED
  BY <1>4, <1>5 DEF LeavesWhole, Whole
----------------------------------------------------------------------------
(* What the steps of the node keep *)

\* One write further, a list leaves behind what it would have left.
LEMMA TailLeaves ==
    ASSUME NEW list \in Seq(WriteSet), list # <<>>, NEW to, NEW now, NEW value,
           Leaves(list, to, now, value)
    PROVE  Leaves(Tail(list), to, IF Head(list).to = to THEN Head(list).value ELSE now, value)
<1>1. /\ Len(list) \in Nat /\ Len(list) >= 1 /\ Head(list) = list[1]
      /\ Tail(list) \in Seq(WriteSet) /\ Len(Tail(list)) = Len(list) - 1
      /\ \A i \in 1 .. Len(Tail(list)) : Tail(list)[i] = list[i + 1]
  OBVIOUS
<1> DEFINE tail == Tail(list)
<1> HIDE DEF tail
<1>2. \A i \in 1 .. Len(tail) : i + 1 \in 1 .. Len(list) /\ tail[i] = list[i + 1]
  BY <1>1 DEF tail
<1>5. ASSUME NEW i \in 1 .. Len(list), i # 1
      PROVE  i - 1 \in 1 .. Len(tail) /\ list[i] = tail[i - 1]
  <2>1. i - 1 \in 1 .. Len(tail) /\ i = (i - 1) + 1
    BY <1>1, <1>5 DEF tail
  <2> QED
    BY <1>2, <2>1
<1>6. 1 \in 1 .. Len(list)
  BY <1>1
<1>3. CASE Head(list).to = to
  BY <1>1, <1>2, <1>3, <1>5, <1>6 DEF Leaves, tail
<1>4. CASE Head(list).to # to
  BY <1>1, <1>2, <1>4, <1>5, <1>6 DEF Leaves, tail
<1> QED
  BY <1>3, <1>4

\* At rest, the node has no limits and no check.
LEMMA InitGeofence == GeofenceInit => GeofenceInv
<1> SUFFICES ASSUME GeofenceInit PROVE GeofenceInv
  OBVIOUS
<1> USE DEF GeofenceInit
<1>1. WritesOK
  BY DEF WritesOK
<1>2. CheckOK
  BY DEF CheckOK, NoCheck
<1>3. StatusOK
  BY DEF StatusOK
<1>4. GeofenceTypeOK
  <2>1. fences \subseteq Polygons /\ islands \subseteq Polygons /\ broken \subseteq Server
    OBVIOUS
  <2>2. position \in Points \cup {None} /\ position_age \in Nat /\ goals \in 0 .. MaxGoals
    BY GeofenceConstants
  <2>3. /\ check.for \in {"none", "status", "service"}
        /\ check.for = "none" <=> check.at = "idle"
        /\ check.for = "none" <=> check.points = <<>>
    BY DEF NoCheck
  <2>4. answer \in BOOLEAN \cup {None}
    OBVIOUS
  <2>5. status.status \in Outside \cup {"INSIDE", "INACTIVE", None}
    BY <1>3 DEF StatusOK
  <2>6. alive \in BOOLEAN /\ disturbed \in BOOLEAN /\ overlapped \in BOOLEAN
    BY Zenon
  <2> QED
    BY <2>1, <2>2, <2>3, <2>4, <2>5, <2>6 DEF GeofenceTypeOK
<1>5. PairedOK
  <2>1. LeavesWhole(<<>>)
    <3>1. Leaves(<<>>, "ceiling", ceiling, None) /\ Leaves(<<>>, "floor", floor, None)
      BY DEF Leaves
    <3> QED
      BY <3>1 DEF LeavesWhole, Whole
  <2> QED
    BY <2>1 DEF PairedOK, Server
<1> QED
  BY <1>1, <1>2, <1>3, <1>4, <1>5 DEF GeofenceInv

\* A server that receives while the other is at rest finds the limits whole.
LEMMA ReceiveKeeps ==
    ASSUME GeofenceInv, NEW server \in Server, NEW list \in Seq(WriteSet),
           Whole(ceiling, floor) => LeavesWhole(list), Receive(server, list)
    PROVE  GeofenceInv'
<1> USE DEF GeofenceInv
<1>1. /\ writes[server] = <<>> /\ goals < MaxGoals /\ goals' = goals + 1
      /\ writes' = [writes EXCEPT ![server] = list]
      /\ overlapped' = (overlapped \/ \E other \in Server \ {server} : writes[other] # <<>>)
      /\ UNCHANGED <<fences, islands, ceiling, floor, position, position_age, broken, check, status,
                     answer, alive, disturbed>>
  BY DEF Receive, Idle, fenceVars, checkVars
<1>2. WritesOK' /\ CheckOK' /\ StatusOK'
  BY <1>1 DEF WritesOK, CheckOK, StatusOK
<1>3. GeofenceTypeOK'
  <2>1. goals' \in 0 .. MaxGoals
    BY <1>1, GeofenceConstants DEF GeofenceTypeOK
  <2>2. overlapped' \in BOOLEAN
    BY <1>1
  <2> QED
    BY <1>1, <2>1, <2>2 DEF GeofenceTypeOK
<1>4. PairedOK'
  <2> SUFFICES ASSUME ~overlapped' PROVE \E s \in Server : /\ \A o \in Server \ {s} : writes'[o] = <<>>
                                                           /\ LeavesWhole(writes[s])'
    BY DEF PairedOK
  <2>1. ~overlapped /\ \A o \in Server : writes[o] = <<>>
    BY <1>1
  <2>2. LeavesWhole(<<>>)
    BY <2>1 DEF PairedOK
  <2>3. Whole(ceiling, floor)
    BY <2>2 DEF LeavesWhole, Leaves
  <2>4. LeavesWhole(list)
    BY <2>3
  <2>5. writes'[server] = list /\ \A o \in Server \ {server} : writes'[o] = <<>>
    BY <1>1, <2>1 DEF WritesOK
  <2> QED
    BY <1>1, <2>4, <2>5 DEF LeavesWhole, Leaves
<1> QED
  BY <1>2, <1>3, <1>4

\* What was written of whole limits is what the list still leaves.
LEMMA DoWriteKeeps ==
    ASSUME GeofenceInv, NEW server \in Server, DoWrite(server)
    PROVE  GeofenceInv'
<1> USE DEF GeofenceInv
<1> DEFINE w == Head(writes[server])
<1>1. /\ writes[server] # <<>> /\ writes' = [writes EXCEPT ![server] = Tail(writes[server])]
      /\ disturbed' = TRUE
      /\ UNCHANGED <<position, position_age, goals, overlapped, check, status, answer, alive>>
  BY DEF DoWrite
<1>2. /\ fences' = IF w.to = "fence" THEN fences \cup {w.value}
                   ELSE IF w.to = "no fences" THEN {} ELSE fences
      /\ islands' = IF w.to = "island" THEN islands \cup {w.value}
                    ELSE IF w.to = "no islands" THEN {} ELSE islands
      /\ ceiling' = IF w.to = "ceiling" THEN w.value ELSE ceiling
      /\ floor'   = IF w.to = "floor" THEN w.value ELSE floor
      /\ broken'  = IF w.to = "raise" THEN broken \cup {server} ELSE broken
  BY DEF DoWrite
<1>3. writes[server] \in Seq(WriteSet) /\ Tail(writes[server]) \in Seq(WriteSet) /\ w \in WriteSet
  BY <1>1 DEF WritesOK
<1> HIDE DEF w
<1>4. /\ w.to \in {"fence", "island"} => w.value \in Polygons
      /\ w.to \in {"ceiling", "floor"} => w.value \in Int \cup {None}
  BY <1>3 DEF WriteSet
<1>5. ceiling' \in Int \cup {None} /\ floor' \in Int \cup {None}
  BY <1>2, <1>4 DEF WritesOK
<1>6. WritesOK'
  BY <1>1, <1>3, <1>5 DEF WritesOK
<1>7. CheckOK' /\ StatusOK'
  BY <1>1 DEF CheckOK, StatusOK
<1>8. GeofenceTypeOK'
  <2>1. fences' \subseteq Polygons /\ islands' \subseteq Polygons /\ broken' \subseteq Server
    BY <1>2, <1>4 DEF GeofenceTypeOK
  <2> QED
    BY <1>1, <2>1 DEF GeofenceTypeOK
<1>9. PairedOK'
  <2> SUFFICES ASSUME ~overlapped' PROVE \E s \in Server : /\ \A o \in Server \ {s} : writes'[o] = <<>>
                                                           /\ LeavesWhole(writes[s])'
    BY DEF PairedOK
  <2>1. (\A o \in Server \ {server} : writes[o] = <<>>) /\ LeavesWhole(writes[server])
    BY <1>1 DEF PairedOK
  <2>2. PICK c \in Int \cup {None}, f \in Int \cup {None} :
            /\ Whole(c, f)
            /\ Leaves(writes[server], "ceiling", ceiling, c) /\ Leaves(writes[server], "floor", floor, f)
    BY <2>1 DEF LeavesWhole
  <2>3. /\ Leaves(Tail(writes[server]), "ceiling", ceiling', c)
        /\ Leaves(Tail(writes[server]), "floor", floor', f)
    BY <1>1, <1>2, <1>3, <2>2, TailLeaves DEF w
  <2>4. writes'[server] = Tail(writes[server]) /\ \A o \in Server \ {server} : writes'[o] = <<>>
    BY <1>1, <2>1 DEF WritesOK
  <2>5. LeavesWhole(writes[server])'
    <3>1. Leaves(writes'[server], "ceiling", ceiling', c) /\ Leaves(writes'[server], "floor", floor', f)
      BY <2>3, <2>4
    <3> QED
      BY <2>2, <3>1 DEF LeavesWhole
  <2> QED
    BY <2>4, <2>5
<1> QED
  BY <1>6, <1>7, <1>8, <1>9

\* A callback that raises in its last step has written its limits.
LEMMA PublishRaisesKeeps ==
    ASSUME GeofenceInv, NEW server \in Server, PublishRaises(server)
    PROVE  GeofenceInv'
<1> USE DEF GeofenceInv
<1>1. /\ writes[server] = <<Publish>> /\ writes' = [writes EXCEPT ![server] = <<>>]
      /\ broken' \subseteq broken \cup {"stop"}
      /\ UNCHANGED <<fences, islands, ceiling, floor, position, position_age, goals, overlapped,
                     check, status, answer, alive, disturbed>>
  BY DEF PublishRaises, fenceVars, checkVars
<1>2. WritesOK' /\ CheckOK' /\ StatusOK'
  BY <1>1 DEF WritesOK, CheckOK, StatusOK
<1>3. GeofenceTypeOK'
  BY <1>1 DEF GeofenceTypeOK, Server
<1>4. PairedOK'
  <2> SUFFICES ASSUME ~overlapped' PROVE \E s \in Server : /\ \A o \in Server \ {s} : writes'[o] = <<>>
                                                           /\ LeavesWhole(writes[s])'
    BY DEF PairedOK
  <2>0. writes[server] # <<>>
    BY <1>1
  <2>1. (\A o \in Server \ {server} : writes[o] = <<>>) /\ LeavesWhole(<<Publish>>)
    BY <1>1, <2>0 DEF PairedOK
  <2>2. Whole(ceiling, floor)
    BY <2>1 DEF LeavesWhole, Leaves, Publish
  <2>3. writes'[server] = <<>> /\ \A o \in Server \ {server} : writes'[o] = <<>>
    BY <1>1, <2>1 DEF WritesOK
  <2>4. LeavesWhole(writes[server])'
    BY <1>1, <2>2, <2>3 DEF LeavesWhole, Leaves, WritesOK
  <2> QED
    BY <2>3, <2>4
<1> QED
  BY <1>2, <1>3, <1>4

\* Every step of the action servers keeps the invariant.
LEMMA ServersKeep == ASSUME GeofenceInv, ServersNext PROVE GeofenceInv'
<1>0. WritesOK /\ "start" \in Server /\ "stop" \in Server
  BY DEF GeofenceInv, Server
<1>1. CASE StartGoal
  BY <1>0, <1>1, StartLeavesWhole, ReceiveKeeps DEF StartGoal
<1>2. CASE StopGoal
  BY <1>0, <1>2, StopLeavesWhole, ReceiveKeeps DEF StopGoal
<1>3. CASE CancelStart
  BY <1>0, <1>3, CancelLeavesWhole, ReceiveKeeps DEF CancelStart
<1> QED
  BY <1>1, <1>2, <1>3, DoWriteKeeps, PublishRaisesKeeps DEF ServersNext
\* A limit to compare with is compared with.
LEMMA ReceivedPosition ==
    ASSUME GeofenceInv, NEW point \in Points, PosLatlon(point)
    PROVE  GeofenceInv'
<1>1. /\ position' = point /\ position_age' = 0
      /\ UNCHANGED <<fenceVars, serverVars, checkVars>>
  BY DEF PosLatlon
<1>2. GeofenceTypeOK'
  BY <1>1 DEF GeofenceInv, GeofenceTypeOK, fenceVars, serverVars, checkVars
<1> QED
  BY <1>1, <1>2 DEF GeofenceInv, WritesOK, CheckOK, StatusOK, PairedOK, LeavesWhole,
                    fenceVars, serverVars, checkVars

\* A check is begun of one point or of two.
LEMMA CheckBegins ==
    ASSUME GeofenceInv,
           PublishGeofenceOk \/ \E points \in Requests : CheckFence(points)
    PROVE  /\ GeofenceInv' /\ check = NoCheck
           /\ check' # NoCheck => /\ check'.at = "setup" /\ check'.points = check'.asked
                                  /\ check'.for \in {"status", "service"}
                                  /\ check'.for = "status" => check'.points = <<position>>
           /\ UNCHANGED <<fenceVars, position, position_age, serverVars, alive>>
<1> USE DEF GeofenceInv
<1>1. /\ check = NoCheck /\ disturbed' = FALSE
      /\ UNCHANGED <<fenceVars, position, position_age, serverVars, alive>>
  BY DEF PublishGeofenceOk, CheckFence
<1>2. /\ status' = status \/ status' = [status |-> "INACTIVE", age |-> 0]
      /\ answer' = answer \/ answer' = FALSE
  BY DEF PublishGeofenceOk, CheckFence
<1>3. \/ check' = NoCheck
      \/ check' = Begin("status", <<position>>) /\ position # None
      \/ \E points \in Requests : check' = Begin("service", points)
  BY <1>1 DEF PublishGeofenceOk, CheckFence
<1>4. CheckOK' /\ (check' # NoCheck => /\ check'.at = "setup" /\ check'.points = check'.asked
                                       /\ check'.for \in {"status", "service"}
                                       /\ check'.for = "status" => check'.points = <<position>>)
  <2>1. CASE check' = NoCheck
    BY <2>1 DEF CheckOK, NoCheck
  <2>2. CASE check' = Begin("status", <<position>>) /\ position # None
    <3>1. position \in Asked
      BY <2>2, GeofenceConstants DEF GeofenceTypeOK
    <3> QED
      BY <2>2, <3>1 DEF CheckOK, Begin
  <2>3. ASSUME NEW points \in Requests, check' = Begin("service", points)
        PROVE  CheckOK' /\ check'.at = "setup" /\ check'.points = check'.asked
               /\ check'.for = "service"
    <3>1. \/ \E a \in Asked : points = <<a>>
          \/ \E a, b \in Asked : points = <<a, b>>
      BY GeofenceConstants
    <3> QED
      BY <2>3, <3>1 DEF CheckOK, Begin
  <2> QED
    BY <1>3, <2>1, <2>2, <2>3
<1>5. StatusOK'
  BY <1>2 DEF StatusOK
<1>6. GeofenceTypeOK'
  <2>1. fences' \subseteq Polygons /\ islands' \subseteq Polygons
        /\ position' \in Points \cup {None} /\ position_age' \in Nat
        /\ broken' \subseteq Server /\ goals' \in 0 .. MaxGoals
    BY <1>1 DEF GeofenceTypeOK, fenceVars, serverVars
  <2>2. /\ check'.for \in {"none", "status", "service"}
        /\ check'.for = "none" <=> check'.at = "idle"
        /\ check'.for = "none" <=> check'.points = <<>>
    BY <1>4 DEF CheckOK, NoCheck
  <2>3. status'.status \in Outside \cup {"INSIDE", "INACTIVE", None}
    BY <1>5 DEF StatusOK
  <2>4. answer' \in BOOLEAN \cup {None}
    BY <1>2 DEF GeofenceTypeOK
  <2>5. alive' \in BOOLEAN /\ disturbed' \in BOOLEAN /\ overlapped' \in BOOLEAN
    BY <1>1 DEF GeofenceTypeOK, serverVars
  <2> QED
    BY <2>1, <2>2, <2>3, <2>4, <2>5 DEF GeofenceTypeOK
<1>7. WritesOK' /\ PairedOK'
  BY <1>1 DEF WritesOK, PairedOK, LeavesWhole, fenceVars, serverVars
<1> QED
  BY <1>1, <1>4, <1>5, <1>6, <1>7
----------------------------------------------------------------------------
(* A check, while the fences and the limits stay what they are *)

\* What the reads of a check so far have shown of the point at hand, and of the first of two.
ReadSoFar ==
    LET point == check.points[1] IN
    /\ check.at = "above" => ceiling # None
    /\ check.at \in {"floor", "below", "fences", "islands"} /\ ceiling # None => point.alt <= ceiling
    /\ check.at = "below" => floor # None
    /\ check.at \in {"fences", "islands"} /\ floor # None => point.alt >= floor
    /\ check.at = "islands" => \E fence \in fences : InHull(point, fence)
    /\ check.points # check.asked => IsSafe(check.asked[1])

\* A verdict on a point that is right.
Right(verdict, point) ==
    /\ verdict \in Outside \cup {"INSIDE", "INACTIVE"}
    /\ verdict = "INSIDE" <=> IsSafe(point)
    /\ verdict = "INACTIVE" => ~ValidGeofenceSetup

\* Where the check is after a step: at its next read, or over with a verdict that is right.
CheckGoesRight ==
    IF check' # NoCheck
    THEN /\ ReadSoFar'
         /\ check'.for = check.for
         /\ check.for = "status" => check'.points = check.points /\ UNCHANGED status
    ELSE /\ alive'
         /\ check.for = "status" =>
               \E verdict : /\ Right(verdict, check.points[1])
                           /\ status' = [status |-> verdict, age |-> 0]
         /\ check.for = "service" =>
               /\ answer' = IsSafe(check.points[1])
               /\ answer' => \A i \in 1 .. Len(check.asked) : IsSafe(check.asked[i])

\* The points of a check in progress.
LEMMA CheckPoints ==
    ASSUME CheckOK, check # NoCheck
    PROVE  /\ check.for \in {"status", "service"} /\ check.points[1] \in Asked
           /\ check = [for |-> check.for, asked |-> check.asked, points |-> check.points, at |-> check.at]
           /\ \/ \E a \in Asked : check.points = <<a>> /\ check.asked = <<a>>
              \/ \E a, b \in Asked : /\ check.points \in {<<b>>, <<a, b>>}
                                      /\ check.asked = <<a, b>>
BY DEF CheckOK

\* A part of a check that goes on.
LEMMA GoesOn ==
    ASSUME CheckOK, check # NoCheck, UNCHANGED fenceVars,
           NEW at \in {"ceiling", "above", "floor", "below", "fences", "islands"}, GoOn(at)
    PROVE  /\ check' = [for |-> check.for, asked |-> check.asked, points |-> check.points, at |-> at]
           /\ check' # NoCheck /\ CheckOK' /\ UNCHANGED <<status, answer, alive>>
<1>1. check' = [for |-> check.for, asked |-> check.asked, points |-> check.points, at |-> at]
  BY CheckPoints DEF GoOn
<1>2. check' # NoCheck /\ UNCHANGED <<status, answer, alive>>
  BY <1>1, CheckPoints DEF GoOn, NoCheck
<1> QED
  BY <1>1, <1>2, CheckPoints DEF CheckOK

\* A check that is over with its point, or over.
LEMMA Concludes ==
    ASSUME CheckOK, check # NoCheck, UNCHANGED fenceVars,
           NEW verdict \in Outside \cup {"INSIDE", "INACTIVE"}, Conclude(verdict)
    PROVE  /\ CheckOK'
           /\ alive' = alive
           /\ status' = status \/ status' = [status |-> verdict, age |-> 0]
           /\ answer' = answer \/ answer' \in BOOLEAN
           /\ alive /\ Right(verdict, check.points[1]) /\ ReadSoFar => CheckGoesRight
<1>0. alive' = alive
  BY DEF Conclude
<1>1. CASE check.for = "status"
  <2>1. check' = NoCheck /\ status' = [status |-> verdict, age |-> 0] /\ UNCHANGED answer
    BY <1>1 DEF Conclude
  <2>2. CheckOK'
    BY <2>1 DEF CheckOK, NoCheck
  <2> QED
    BY <1>0, <1>1, <2>1, <2>2 DEF CheckGoesRight
<1>2. CASE check.for = "service" /\ verdict = "INSIDE" /\ Len(check.points) > 1
  <2>1. PICK a \in Asked, b \in Asked : check.points = <<a, b>> /\ check.asked = <<a, b>>
    <3>1. ASSUME NEW b, check.points = <<b>> PROVE FALSE
      <4>1. Len(<<b>>) = 1
        OBVIOUS
      <4> QED
        BY <1>2, <3>1, <4>1
    <3> QED
      BY <3>1, CheckPoints
  <2>2. /\ check' = [check EXCEPT !.points = Tail(check.points), !.at = "setup"]
        /\ UNCHANGED <<status, answer>>
    BY <1>2 DEF Conclude
  <2>3. Tail(check.points) = <<b>>
    BY <2>1
  <2>4. check' = [for |-> "service", asked |-> <<a, b>>, points |-> <<b>>, at |-> "setup"]
    BY <1>2, <2>1, <2>2, <2>3, CheckPoints
  <2>5. check' # NoCheck /\ CheckOK'
    BY <2>4 DEF CheckOK, NoCheck
  <2>6. Right(verdict, check.points[1]) => IsSafe(a)'
    BY <1>2, <2>1 DEF Right, IsSafe, WithinLimits, fenceVars
  <2>7. Right(verdict, check.points[1]) => ReadSoFar'
    BY <2>4, <2>6 DEF ReadSoFar
  <2> QED
    BY <1>0, <1>2, <2>2, <2>4, <2>5, <2>7 DEF CheckGoesRight
<1>3. CASE check.for = "service" /\ ~(verdict = "INSIDE" /\ Len(check.points) > 1)
  <2>1. check' = NoCheck /\ answer' = (verdict = "INSIDE") /\ UNCHANGED status
    BY <1>3 DEF Conclude
  <2>2. CheckOK'
    BY <2>1 DEF CheckOK, NoCheck
  <2>3. ASSUME Right(verdict, check.points[1]), ReadSoFar
        PROVE  /\ answer' = IsSafe(check.points[1])
               /\ answer' => \A i \in 1 .. Len(check.asked) : IsSafe(check.asked[i])
    <3>1. answer' = IsSafe(check.points[1])
      <4>1. verdict = "INSIDE" <=> IsSafe(check.points[1])
        BY <2>3 DEF Right
      <4>2. IsSafe(check.points[1]) \in BOOLEAN
        BY Zenon DEF IsSafe
      <4>3. CASE verdict = "INSIDE"
        BY <2>1, <4>1, <4>2, <4>3
      <4>4. CASE verdict # "INSIDE"
        BY <2>1, <4>1, <4>2, <4>4
      <4> QED
        BY <4>3, <4>4
    <3>2. ASSUME verdict = "INSIDE", NEW i \in 1 .. Len(check.asked) PROVE IsSafe(check.asked[i])
      <4>1. IsSafe(check.points[1]) /\ (check.points # check.asked => IsSafe(check.asked[1]))
        BY <2>3, <3>2 DEF Right, ReadSoFar
      <4>2. CASE \E a \in Asked : check.points = <<a>> /\ check.asked = <<a>>
        BY <4>1, <4>2
      <4>3. CASE \E a, b \in Asked : check.points = <<b>> /\ check.asked = <<a, b>>
        <5>1. PICK a, b \in Asked : check.points = <<b>> /\ check.asked = <<a, b>>
          BY <4>3
        <5>2. i = 1 \/ i = 2
          BY <5>1
        <5>3. check.points # check.asked /\ check.asked[2] = check.points[1]
          BY <5>1
        <5> QED
          BY <4>1, <5>2, <5>3
      <4> QED
        BY <1>3, <3>2, <4>2, <4>3, CheckPoints
    <3> QED
      BY <2>1, <3>1, <3>2
  <2> QED
    BY <1>0, <1>3, <2>1, <2>2, <2>3 DEF CheckGoesRight
<1> QED
  BY <1>1, <1>2, <1>3, CheckPoints
\* Inside any of the polygons of goals, by its crossings and by definition.
LEMMA InsideIsHull ==
    ASSUME CrossingsTell, NEW polygons \in SUBSET Polygons, NEW point \in Asked
    PROVE  InsideAny(point, polygons) <=> \E polygon \in polygons : InHull(point, polygon)
BY DEF InsideAny, CrossingsTell

\* A step of a check: what the reads show stays true and the verdict is right.
LEMMA CheckReads ==
    ASSUME GeofenceInv, alive, check # NoCheck, UNCHANGED fenceVars,
           Setup \/ Ceiling \/ Above \/ Floor \/ Below \/ Fences \/ Islands
    PROVE  /\ CheckOK' /\ StatusOK' /\ answer' \in BOOLEAN \cup {None} /\ alive' \in BOOLEAN
           /\ CrossingsTell /\ ReadSoFar => CheckGoesRight
<1> DEFINE p == check.points[1]
<1> DEFINE Goal == /\ CheckOK' /\ StatusOK' /\ answer' \in BOOLEAN \cup {None} /\ alive' \in BOOLEAN
                   /\ CrossingsTell /\ ReadSoFar => CheckGoesRight
<1>0. /\ CheckOK /\ StatusOK /\ answer \in BOOLEAN \cup {None}
      /\ p \in Asked /\ p.alt \in Int
      /\ ceiling \in Int \cup {None} /\ floor \in Int \cup {None}
      /\ fences \in SUBSET Polygons /\ islands \in SUBSET Polygons
  BY CheckPoints, GeofenceConstants DEF GeofenceInv, GeofenceTypeOK, WritesOK
<1>1. ASSUME NEW verdict \in Outside \cup {"INSIDE", "INACTIVE"}, Conclude(verdict),
             CrossingsTell /\ ReadSoFar => Right(verdict, p)
      PROVE  Goal
  <2>1. /\ CheckOK' /\ alive' = alive
        /\ status' = status \/ status' = [status |-> verdict, age |-> 0]
        /\ answer' = answer \/ answer' \in BOOLEAN
        /\ alive /\ Right(verdict, p) /\ ReadSoFar => CheckGoesRight
    BY <1>0, <1>1, Concludes
  <2>2. StatusOK'
    BY <1>0, <2>1 DEF StatusOK
  <2>3. alive' \in BOOLEAN /\ answer' \in BOOLEAN \cup {None}
    BY <1>0, <2>1
  <2> QED
    BY <1>1, <2>1, <2>2, <2>3
<1>2. ASSUME NEW at \in {"ceiling", "above", "floor", "below", "fences", "islands"}, GoOn(at),
             CrossingsTell /\ ReadSoFar =>
                /\ at = "above" => ceiling # None
                /\ at \in {"floor", "below", "fences", "islands"} /\ ceiling # None => p.alt <= ceiling
                /\ at = "below" => floor # None
                /\ at \in {"fences", "islands"} /\ floor # None => p.alt >= floor
                /\ at = "islands" => \E fence \in fences : InHull(p, fence)
      PROVE  Goal
  <2>1. /\ check' = [for |-> check.for, asked |-> check.asked, points |-> check.points, at |-> at]
        /\ check' # NoCheck /\ CheckOK' /\ UNCHANGED <<status, answer, alive>>
    BY <1>0, <1>2, GoesOn
  <2>2. StatusOK' /\ alive' \in BOOLEAN /\ answer' \in BOOLEAN \cup {None}
    BY <1>0, <2>1 DEF StatusOK
  <2>3. /\ check'.points = check.points /\ check'.asked = check.asked /\ check'.at = at
        /\ ceiling' = ceiling /\ floor' = floor /\ fences' = fences /\ islands' = islands
    BY <2>1 DEF fenceVars
  <2>4. ASSUME CrossingsTell, ReadSoFar PROVE ReadSoFar'
    <3>1. check.points # check.asked => IsSafe(check.asked[1])
      BY <2>4 DEF ReadSoFar
    <3>2. check'.points # check'.asked => IsSafe(check.asked[1])'
      BY <2>3, <3>1 DEF IsSafe, WithinLimits
    <3>3. at = "islands" => \E fence \in fences' : InHull(check'.points[1], fence)
      BY <1>2, <2>3, <2>4
    <3>4. /\ at = "above" => ceiling' # None
          /\ at \in {"floor", "below", "fences", "islands"} /\ ceiling' # None => check'.points[1].alt <= ceiling'
          /\ at = "below" => floor' # None
          /\ at \in {"fences", "islands"} /\ floor' # None => check'.points[1].alt >= floor'
      BY <1>2, <2>3, <2>4
    <3> QED
      BY <2>3, <3>2, <3>3, <3>4 DEF ReadSoFar
  <2>5. CrossingsTell /\ ReadSoFar => CheckGoesRight
    BY <2>1, <2>4 DEF CheckGoesRight
  <2> QED
    BY <2>1, <2>2, <2>5
<1>3. CASE Setup
  <2>1. CASE ~ValidGeofenceSetup
    <3>1. Right("INACTIVE", p)
      BY <2>1 DEF Right, IsSafe, ValidGeofenceSetup
    <3> QED
      BY <1>1, <1>3, <2>1, <3>1 DEF Setup
  <2>2. CASE ValidGeofenceSetup
    BY <1>2, <1>3, <2>2 DEF Setup
  <2> QED
    BY <2>1, <2>2
<1>4. CASE Ceiling
  <2>1. CASE ceiling # None
    BY <1>2, <1>4, <2>1 DEF Ceiling
  <2>2. CASE ceiling = None
    BY <1>2, <1>4, <2>2 DEF Ceiling
  <2> QED
    BY <2>1, <2>2
<1>5. CASE Above
  <2>1. CASE ceiling = None
    <3>1. ~ReadSoFar
      BY <1>5, <2>1 DEF Above, ReadSoFar
    <3>2. alive' = FALSE /\ check' = NoCheck /\ UNCHANGED <<status, answer>>
      BY <1>5, <2>1 DEF Above, Raise
    <3> QED
      BY <1>0, <3>1, <3>2 DEF CheckOK, NoCheck, StatusOK
  <2>2. CASE ceiling # None /\ p.alt > ceiling
    <3>1. Right("CEILING", p)
      BY <1>0, <2>2 DEF Right, IsSafe, WithinLimits, Outside
    <3> QED
      BY <1>1, <1>5, <2>2, <3>1 DEF Above, Outside
  <2>3. CASE ceiling # None /\ ~(p.alt > ceiling)
    <3>1. p.alt <= ceiling
      BY <1>0, <2>3
    <3> QED
      BY <1>2, <1>5, <2>3, <3>1 DEF Above
  <2> QED
    BY <2>1, <2>2, <2>3
<1>6. CASE Floor
  <2>1. CASE floor # None
    BY <1>2, <1>6, <2>1 DEF Floor, ReadSoFar
  <2>2. CASE floor = None
    BY <1>2, <1>6, <2>2 DEF Floor, ReadSoFar
  <2> QED
    BY <2>1, <2>2
<1>7. CASE Below
  <2>1. CASE floor = None
    <3>1. ~ReadSoFar
      BY <1>7, <2>1 DEF Below, ReadSoFar
    <3>2. alive' = FALSE /\ check' = NoCheck /\ UNCHANGED <<status, answer>>
      BY <1>7, <2>1 DEF Below, Raise
    <3> QED
      BY <1>0, <3>1, <3>2 DEF CheckOK, NoCheck, StatusOK
  <2>2. CASE floor # None /\ p.alt < floor
    <3>1. Right("FLOOR", p)
      BY <1>0, <2>2 DEF Right, IsSafe, WithinLimits, Outside
    <3> QED
      BY <1>1, <1>7, <2>2, <3>1 DEF Below, Outside
  <2>3. CASE floor # None /\ ~(p.alt < floor)
    <3>1. p.alt >= floor
      BY <1>0, <2>3
    <3> QED
      BY <1>2, <1>7, <2>3, <3>1 DEF Below, ReadSoFar
  <2> QED
    BY <2>1, <2>2, <2>3
<1>8. CASE Fences
  <2>1. CASE InsideAny(p, fences)
    <3>1. CrossingsTell => \E fence \in fences : InHull(p, fence)
      BY <1>0, <2>1, InsideIsHull
    <3> QED
      BY <1>2, <1>8, <2>1, <3>1 DEF Fences, ReadSoFar
  <2>2. CASE ~InsideAny(p, fences)
    <3>1. CrossingsTell => ~\E fence \in fences : InHull(p, fence)
      BY <1>0, <2>2, InsideIsHull
    <3>2. CrossingsTell => Right("FENCE", p)
      BY <3>1 DEF Right, IsSafe, Outside
    <3> QED
      BY <1>1, <1>8, <2>2, <3>2 DEF Fences, Outside
  <2> QED
    BY <2>1, <2>2
<1>9. CASE Islands
  <2>1. ReadSoFar => WithinLimits(p) /\ \E fence \in fences : InHull(p, fence)
    BY <1>9 DEF Islands, ReadSoFar, WithinLimits
  <2>2. CASE InsideAny(p, islands)
    <3>1. CrossingsTell => ~\A island \in islands : ~InHull(p, island)
      BY <1>0, <2>2, InsideIsHull
    <3>2. CrossingsTell => Right("ISLAND", p)
      BY <3>1 DEF Right, IsSafe, Outside
    <3> QED
      BY <1>1, <1>9, <2>2, <3>2 DEF Islands, Outside
  <2>3. CASE ~InsideAny(p, islands)
    <3>1. CrossingsTell => \A island \in islands : ~InHull(p, island)
      BY <1>0, <2>3, InsideIsHull
    <3>2. CrossingsTell /\ ReadSoFar => Right("INSIDE", p)
      BY <2>1, <3>1 DEF Right, IsSafe, Outside
    <3> QED
      BY <1>1, <1>9, <2>3, <3>2 DEF Islands, Outside
  <2> QED
    BY <2>2, <2>3
<1> QED
  BY <1>3, <1>4, <1>5, <1>6, <1>7, <1>8, <1>9

\* Every step of a check keeps the invariant.
LEMMA CheckKeeps ==
    ASSUME GeofenceInv, PointIsSafe
    PROVE  /\ GeofenceInv' /\ alive /\ check # NoCheck
           /\ UNCHANGED <<fenceVars, position, position_age, serverVars, disturbed>>
           /\ CrossingsTell /\ ReadSoFar => CheckGoesRight
<1>1. alive /\ UNCHANGED <<fenceVars, position, position_age, serverVars, disturbed>>
  BY DEF PointIsSafe
<1>2. check # NoCheck
  BY DEF PointIsSafe, Setup, Ceiling, Above, Floor, Below, Fences, Islands, NoCheck
<1>3. /\ CheckOK' /\ StatusOK' /\ answer' \in BOOLEAN \cup {None} /\ alive' \in BOOLEAN
      /\ CrossingsTell /\ ReadSoFar => CheckGoesRight
  BY <1>1, <1>2, CheckReads DEF PointIsSafe
<1>4. GeofenceTypeOK'
  <2>1. fences' \subseteq Polygons /\ islands' \subseteq Polygons
        /\ position' \in Points \cup {None} /\ position_age' \in Nat
        /\ broken' \subseteq Server /\ goals' \in 0 .. MaxGoals
    BY <1>1 DEF GeofenceInv, GeofenceTypeOK, fenceVars, serverVars
  <2>2. /\ check'.for \in {"none", "status", "service"}
        /\ check'.for = "none" <=> check'.at = "idle"
        /\ check'.for = "none" <=> check'.points = <<>>
    BY <1>3 DEF CheckOK, NoCheck
  <2>3. status'.status \in Outside \cup {"INSIDE", "INACTIVE", None}
    BY <1>3 DEF StatusOK
  <2>4. disturbed' \in BOOLEAN /\ overlapped' \in BOOLEAN
    BY <1>1 DEF GeofenceInv, GeofenceTypeOK, serverVars
  <2> QED
    BY <1>3, <2>1, <2>2, <2>3, <2>4 DEF GeofenceTypeOK
<1>5. WritesOK' /\ PairedOK'
  BY <1>1 DEF GeofenceInv, WritesOK, PairedOK, LeavesWhole, fenceVars, serverVars
<1> QED
  BY <1>1, <1>2, <1>3, <1>4, <1>5 DEF GeofenceInv
----------------------------------------------------------------------------
(* The geofence node by itself *)

\* The timer of the polygons may stop the node, and writes nothing.
LEMMA TimerKeeps == ASSUME GeofenceInv, PolygonTimerRaises PROVE GeofenceInv'
<1>1. /\ alive' = FALSE
      /\ UNCHANGED <<fenceVars, position, position_age, serverVars, check, status, answer, disturbed>>
  BY DEF PolygonTimerRaises
<1>2. GeofenceTypeOK'
  BY <1>1 DEF GeofenceInv, GeofenceTypeOK, fenceVars, serverVars
<1> QED
  BY <1>1, <1>2 DEF GeofenceInv, WritesOK, CheckOK, StatusOK, PairedOK, LeavesWhole,
                    fenceVars, serverVars

\* Every step keeps the invariant.
LEMMA GeofenceInvNext == GeofenceInv /\ [GeofenceNext]_geofenceVars => GeofenceInv'
<1> SUFFICES ASSUME GeofenceInv, [GeofenceNext]_geofenceVars PROVE GeofenceInv'
  OBVIOUS
<1>1. CASE UNCHANGED geofenceVars
  BY <1>1 DEF geofenceVars, GeofenceInv, GeofenceTypeOK, WritesOK, CheckOK, StatusOK, PairedOK,
              LeavesWhole, fenceVars, serverVars, checkVars
<1>2. CASE WaitPosition
  <2>1. position_age' \in Nat /\ UNCHANGED <<fenceVars, position, serverVars, checkVars>>
    BY <1>2 DEF WaitPosition, GeofenceInv, GeofenceTypeOK
  <2>2. GeofenceTypeOK'
    BY <2>1 DEF GeofenceInv, GeofenceTypeOK, fenceVars, serverVars, checkVars
  <2> QED
    BY <2>1, <2>2 DEF GeofenceInv, WritesOK, CheckOK, StatusOK, PairedOK, LeavesWhole,
                      fenceVars, serverVars, checkVars
<1> QED
  BY <1>1, <1>2, ServersKeep, ReceivedPosition, CheckBegins, CheckKeeps, TimerKeeps DEF GeofenceNext

\* The invariant of the geofence node, for any polygons, limits and requests.
THEOREM GeofenceInvHolds == GeofenceSpec => []GeofenceInv
BY InitGeofence, GeofenceInvNext, PTL DEF GeofenceSpec

\* Every variable holds a value of the kind the code gives it.
THEOREM GeofenceTypeCorrect == GeofenceSpec => []GeofenceTypeOK
<1>1. GeofenceInv => GeofenceTypeOK
  BY DEF GeofenceInv
<1> QED
  BY <1>1, GeofenceInvHolds, PTL

\* Whole limits while nobody writes.
LEMMA RestIsWhole == GeofenceInv => SerialLimitsArePaired
<1> SUFFICES ASSUME GeofenceInv, ~overlapped, \A s \in Server : writes[s] = <<>>
             PROVE  Whole(ceiling, floor)
  BY DEF SerialLimitsArePaired, Whole
<1>1. LeavesWhole(<<>>)
  BY DEF GeofenceInv, PairedOK
<1> QED
  BY <1>1 DEF LeavesWhole, Leaves

\* While the callbacks of the two servers run one after the other, the node has both limits,
\* in their order, or none of them, whatever limits and flags the goals bring or lack and
\* wherever a callback raises.
THEOREM LimitsArePaired == GeofenceSpec => []SerialLimitsArePaired
BY RestIsWhole, GeofenceInvHolds, PTL

\* What an undisturbed check has read.
ReadOK == ~disturbed /\ check # NoCheck => ReadSoFar

\* It begins with nothing read.
LEMMA BeginsUnread ==
    ASSUME check'.at = "setup", check'.points = check'.asked PROVE ReadSoFar'
BY DEF ReadSoFar

\* Reads that nothing disturbs stay true.
LEMMA ReadOKNext ==
    ASSUME CrossingsTell, GeofenceInv, ReadOK, [GeofenceNext]_geofenceVars PROVE ReadOK'
<1> SUFFICES ASSUME ~disturbed', check' # NoCheck PROVE ReadSoFar'
  BY DEF ReadOK
<1>1. ASSUME UNCHANGED <<fenceVars, check, disturbed>> PROVE ReadSoFar'
  BY <1>1 DEF ReadOK, ReadSoFar, IsSafe, WithinLimits, fenceVars
<1>2. CASE UNCHANGED geofenceVars
  BY <1>1, <1>2 DEF geofenceVars, checkVars
<1>3. CASE ServersNext
  <2>1. CASE StartGoal \/ StopGoal \/ CancelStart
    BY <1>1, <2>1 DEF StartGoal, StopGoal, CancelStart, Receive, checkVars
  <2>2. ASSUME NEW server \in Server, PublishRaises(server) PROVE ReadSoFar'
    BY <1>1, <2>2 DEF PublishRaises, checkVars
  <2>3. ASSUME NEW server \in Server, DoWrite(server) PROVE FALSE
    BY <2>3 DEF DoWrite
  <2> QED
    BY <1>3, <2>1, <2>2, <2>3 DEF ServersNext
<1>4. ASSUME NEW point \in Points, PosLatlon(point) PROVE ReadSoFar'
  BY <1>1, <1>4 DEF PosLatlon, checkVars
<1>5. CASE WaitPosition
  BY <1>1, <1>5 DEF WaitPosition, checkVars
<1>6. CASE PolygonTimerRaises
  BY <1>1, <1>6 DEF PolygonTimerRaises
<1>7. CASE PublishGeofenceOk \/ \E points \in Requests : CheckFence(points)
  BY <1>7, CheckBegins, BeginsUnread
<1>8. CASE PointIsSafe
  BY <1>8, CheckKeeps DEF ReadOK, CheckGoesRight
<1> QED
  BY <1>2, <1>3, <1>4, <1>5, <1>6, <1>7, <1>8 DEF GeofenceNext

\* Where crossings tell the polygons as hulls do, a check that no callback disturbed ends
\* with the truth: the vehicle is inside exactly when it is safe, the service says so of all
\* points it was asked, and no such check stops the node.
THEOREM UndisturbedVerdicts ==
    ASSUME CrossingsTell
    PROVE  GeofenceSpec => VerdictsAreRight
<1> DEFINE Verdict == ~disturbed /\ check # NoCheck /\ check' = NoCheck =>
                /\ alive'
                /\ check.for = "status" => (status'.status = "INSIDE") = IsSafe(check.points[1])
                /\ check.for = "service" =>
                       /\ answer' = IsSafe(check.points[1])
                       /\ answer' => \A i \in 1 .. Len(check.asked) : IsSafe(check.asked[i])
<1>1. GeofenceInit => ReadOK
  BY DEF GeofenceInit, ReadOK
<1>2. GeofenceInv /\ ReadOK /\ [GeofenceNext]_geofenceVars => ReadOK'
  BY ReadOKNext
<1>3. GeofenceInv /\ ReadOK /\ [GeofenceNext]_geofenceVars => [Verdict]_geofenceVars
  <2> SUFFICES ASSUME GeofenceInv, ReadOK, GeofenceNext, ~disturbed, check # NoCheck, check' = NoCheck
               PROVE  Verdict
    OBVIOUS
  <2>1. PointIsSafe
    BY DEF GeofenceNext, ServersNext, StartGoal, StopGoal, CancelStart, Receive, DoWrite, PublishRaises,
           PosLatlon, WaitPosition, PublishGeofenceOk, CheckFence, PolygonTimerRaises, checkVars
  <2>2. CheckGoesRight
    BY <2>1, CheckKeeps DEF ReadOK
  <2>3. ASSUME check.for = "status" PROVE (status'.status = "INSIDE") = IsSafe(check.points[1])
    <3>1. PICK verdict : /\ Right(verdict, check.points[1])
                         /\ status' = [status |-> verdict, age |-> 0]
      BY <2>2, <2>3 DEF CheckGoesRight
    <3>2. status'.status = "INSIDE" <=> IsSafe(check.points[1])
      BY <3>1 DEF Right
    <3>3. IsSafe(check.points[1]) \in BOOLEAN
      BY Zenon DEF IsSafe
    <3> QED
      BY <3>2, <3>3, Zenon
  <2> QED
    BY <2>2, <2>3 DEF CheckGoesRight
<1> QED
  BY <1>1, <1>2, <1>3, GeofenceInvHolds, PTL DEF GeofenceSpec, VerdictsAreRight
----------------------------------------------------------------------------
(* The captain and the geofence node *)

\* The timers of a half second, of which the health has one in every other.
TimersOK ==
    /\ due \subseteq {"smarc", "check", "health"}
    /\ half \in {0, 1} /\ (half = 1 => "health" \notin due)
    /\ settled \in 0 .. Settling + 1

DroneInv == GeofenceInv /\ DroneTypeOK /\ TimersOK

\* The numbers of the report, and the points.
LEMMA DroneConstants ==
    /\ HomePoint \in Points /\ MaxStatusAge \in Nat /\ Settling \in Nat /\ MaxPositionAge \in Nat
    /\ \A point \in Points : point # None
BY GeofencedDroneAssumption, GeofenceConstants

\* A step of the geofence node inside the drone.
LEMMA NodeKeeps ==
    ASSUME GeofenceInv,
           ServersNext \/ (\E points \in Requests : CheckFence(points)) \/ PointIsSafe \/ PolygonTimerRaises
    PROVE  GeofenceInv'
BY ServersKeep, CheckBegins, CheckKeeps, TimerKeeps

\* An age that grows up to its bound.
LEMMA OlderIsNat ==
    ASSUME NEW age \in Nat, NEW bound \in Nat
    PROVE  /\ Older(age, bound) \in Nat /\ (age <= bound + 1 => Older(age, bound) <= bound + 1)
           /\ Older(age, bound) <= age + 1
           /\ age <= bound => Older(age, bound) = age + 1
BY DEF Older

\* The two nodes at the start.
LEMMA InitDrone == DroneInit => DroneInv
<1> SUFFICES ASSUME DroneInit PROVE DroneInv
  OBVIOUS
<1>1. GeofenceInv
  BY InitGeofence DEF DroneInit
<1>2. DroneTypeOK
  BY <1>1 DEF DroneInit, DroneTypeOK, GeofenceInv
<1>3. TimersOK
  BY DroneConstants DEF DroneInit, TimersOK
<1> QED
  BY <1>1, <1>2, <1>3 DEF DroneInv

\* A second passes for the node as it does for the captain.
LEMMA TickKeeps == ASSUME DroneInv, Tick PROVE DroneInv'
<1> USE DEF DroneInv
<1>1. /\ due = {} /\ check = NoCheck /\ half' = 1 - half
      /\ due' = {"smarc", "check"} \cup (IF half = 1 THEN {"health"} ELSE {})
      /\ position_age' = Older(position_age, MaxPositionAge)
      /\ status' = [status EXCEPT !.age = Older(status.age, MaxStatusAge)]
      /\ settled' = Older(settled, Settling)
      /\ UNCHANGED <<fenceVars, position, serverVars, check, answer, alive, disturbed, captainVars>>
  BY DEF Tick, captainVars
<1>2. StatusOK'
  BY <1>1, OlderIsNat, DroneConstants DEF GeofenceInv, StatusOK
<1>3. position_age' \in Nat
  BY <1>1, OlderIsNat, DroneConstants DEF GeofenceInv, GeofenceTypeOK
<1>4. GeofenceTypeOK'
  BY <1>1, <1>2, <1>3 DEF GeofenceInv, GeofenceTypeOK, StatusOK, fenceVars, serverVars
<1>5. GeofenceInv'
  BY <1>1, <1>2, <1>4 DEF GeofenceInv, WritesOK, CheckOK, PairedOK, LeavesWhole, fenceVars, serverVars
<1>6. TimersOK'
  <2>1. half' \in {0, 1} /\ (half' = 1 => "health" \notin due')
    BY <1>1 DEF TimersOK
  <2>2. settled \in Nat /\ settled <= Settling + 1 /\ Settling \in Nat
    BY DroneConstants DEF TimersOK
  <2>3. settled' \in 0 .. Settling + 1
    BY <1>1, <2>2, OlderIsNat
  <2> QED
    BY <1>1, <2>1, <2>3 DEF TimersOK
<1> QED
  BY <1>1, <1>4, <1>5, <1>6 DEF DroneTypeOK, captainVars

\* Every step of the two nodes keeps their invariant.
LEMMA DroneInvNext == DroneInv /\ [DroneNext]_droneVars => DroneInv'
<1> SUFFICES ASSUME DroneInv, [DroneNext]_droneVars PROVE DroneInv'
  OBVIOUS
<1> USE DEF DroneInv
<1>0. ASSUME UNCHANGED geofenceVars PROVE GeofenceInv'
  <2>1. [GeofenceNext]_geofenceVars
    BY <1>0
  <2> QED
    BY <2>1, GeofenceInvNext
<1>1. CASE UNCHANGED droneVars
  <2>1. GeofenceInv'
    BY <1>0, <1>1 DEF droneVars
  <2> QED
    BY <1>1, <2>1 DEF droneVars, captainVars, DroneTypeOK, TimersOK, GeofenceInv
<1>2. ASSUME NEW sensor \in Sensors \cup {"gps"}, HearSensor(sensor) PROVE DroneInv'
  <2>1. GeofenceInv'
    BY <1>0, <1>2 DEF HearSensor
  <2>2. base_pose' \in Points \cup {None} /\ received' \subseteq Sensors \cup {"gps"}
    BY <1>2, DroneConstants DEF HearSensor, DroneTypeOK
  <2>3. settled' \in 0 .. Settling + 1
    BY <1>2, DroneConstants DEF HearSensor
  <2> QED
    BY <1>2, <2>1, <2>2, <2>3 DEF HearSensor, DroneTypeOK, TimersOK, GeofenceInv
<1>3. ASSUME NEW point \in Points, PositionFused(point) PROVE DroneInv'
  <2>1. GeofenceInv'
    BY <1>0, <1>3 DEF PositionFused
  <2>2. settled' \in 0 .. Settling + 1
    BY <1>3, DroneConstants DEF PositionFused, TimersOK
  <2> QED
    BY <1>3, <2>1, <2>2 DEF PositionFused, DroneTypeOK, TimersOK, GeofenceInv
<1>4. CASE PublishSmarc
  <2>1. GeofenceInv'
    BY <1>0, <1>4, ReceivedPosition DEF PublishSmarc, DroneTypeOK
  <2> QED
    BY <1>4, <2>1 DEF PublishSmarc, captainVars, DroneTypeOK, TimersOK, GeofenceInv
<1>5. CASE CheckTimer
  <2>1. GeofenceInv'
    BY <1>0, <1>5, CheckBegins DEF CheckTimer
  <2> QED
    BY <1>5, <2>1 DEF CheckTimer, captainVars, DroneTypeOK, TimersOK, GeofenceInv
<1>6. CASE PublishVehicleHealth
  <2>1. GeofenceInv'
    BY <1>0, <1>6 DEF PublishVehicleHealth
  <2>2. /\ due' = due \ {"health"} /\ UNCHANGED <<base_pose, received, half, settled>>
        /\ \E battery \in {"ready", "low"}, overloaded, can_transform, has_service, is_flying \in BOOLEAN :
               IF HealthBeforeReady(battery, overloaded, can_transform) = "READY"
               THEN HealthOfReady(has_service, is_flying)
               ELSE /\ vehicle_health' = HealthBeforeReady(battery, overloaded, can_transform)
                    /\ UNCHANGED <<got_release_control_srv, flying, cleared_water_level_once>>
    BY <1>6 DEF PublishVehicleHealth
  <2>3. /\ got_release_control_srv' \in BOOLEAN /\ flying' \in BOOLEAN
        /\ cleared_water_level_once' \in BOOLEAN
        /\ vehicle_health' \in {"WAITING", "READY", "ERROR"}
    <3>1. ASSUME NEW has_service \in BOOLEAN, NEW is_flying \in BOOLEAN, HealthOfReady(has_service, is_flying)
          PROVE  /\ got_release_control_srv' \in BOOLEAN /\ flying' \in BOOLEAN
                 /\ cleared_water_level_once' \in BOOLEAN
                 /\ vehicle_health' \in {"WAITING", "READY", "ERROR"}
      <4>1. (cleared_water_level_once \/ base_pose.alt > MinAltitude) \in BOOLEAN
        BY Zenon
      <4>2. vehicle_health' \in {"WAITING", "READY"}
        BY <3>1 DEF HealthOfReady
      <4> QED
        BY <3>1, <4>1, <4>2 DEF HealthOfReady, DroneTypeOK
    <3>2. \A battery, overloaded, can_transform :
              HealthBeforeReady(battery, overloaded, can_transform) \in {"WAITING", "READY", "ERROR"}
      BY DEF HealthBeforeReady
    <3> QED
      BY <2>2, <3>1, <3>2 DEF DroneTypeOK
  <2> QED
    BY <2>1, <2>2, <2>3 DEF DroneTypeOK, TimersOK, GeofenceInv
<1>7. CASE GeofenceStep
  <2>1. GeofenceInv'
    BY <1>7, NodeKeeps DEF GeofenceStep
  <2>2. settled' \in 0 .. Settling + 1
    BY <1>7, DroneConstants DEF GeofenceStep, TimersOK
  <2> QED
    BY <1>7, <2>1, <2>2 DEF GeofenceStep, captainVars, DroneTypeOK, TimersOK, GeofenceInv
<1> QED
  BY <1>1, <1>2, <1>3, <1>4, <1>5, <1>6, <1>7, TickKeeps DEF DroneNext

\* The invariant of the two nodes, for any sensors, points, polygons and limits.
THEOREM DroneInvHolds == DroneSpec => []DroneInv
BY InitDrone, DroneInvNext, PTL DEF DroneSpec

\* Every variable of the two nodes holds a value of the kind the code gives it.
THEOREM DroneTypeCorrect == DroneSpec => []DroneTypeOK
<1>1. DroneInv => DroneTypeOK
  BY DEF DroneInv
<1> QED
  BY <1>1, DroneInvHolds, PTL
----------------------------------------------------------------------------
(* The health follows the fence *)

\* The drone whose position is published, to a node that is alive.
Followed == alive /\ base_pose # None /\ Labelled

\* Once nothing has changed for a whole half second, the node knows where the drone is.
PositionFollows ==
    Followed /\ (settled >= 2 \/ (settled >= 1 /\ "smarc" \notin due)) =>
        position = base_pose /\ position_age <= IF "smarc" \in due THEN 1 ELSE 0

\* A check that began after the last change has read what is so, and one that began a half
\* second after it is of where the drone is.
CheckFollows ==
    /\ settled >= 1 /\ check # NoCheck => ReadSoFar
    /\ Followed /\ settled >= 2 /\ check.for = "status" => check.points = <<base_pose>>

\* The check of that half second tells the truth, which is a half second old at most.
StatusFollows ==
    Followed /\ ValidGeofenceSetup /\
    (settled >= 3 \/ (settled >= 2 /\ "check" \notin due /\ check.for # "status")) =>
        /\ Right(status.status, base_pose) /\ status.age <= 1
        /\ "check" \notin due /\ check.for # "status" => status.age = 0

\* The report that comes after it, in this half second or the next, heeds it.
ReportFollows ==
    /\ alive /\ base_pose # None /\ ValidGeofenceSetup /\ flying /\ vehicle_health = "READY"
    /\ \/ settled >= 5
       \/ settled >= 4 /\ half = 1
       \/ settled >= 3 /\ half = 0 /\ "health" \notin due
    => IsSafe(base_pose)

FollowInv == PositionFollows /\ CheckFollows /\ StatusFollows /\ ReportFollows

\* A change begins it anew.
LEMMA Unsettled == ASSUME settled' = 0 PROVE FollowInv'
BY DEF FollowInv, PositionFollows, CheckFollows, StatusFollows, ReportFollows

\* What is safe depends on the fences, islands and limits alone.
LEMMA SameFence ==
    ASSUME UNCHANGED fenceVars
    PROVE  /\ UNCHANGED base_pose => IsSafe(base_pose)' = IsSafe(base_pose)
           /\ ValidGeofenceSetup' = ValidGeofenceSetup
           /\ UNCHANGED check => ReadSoFar' = ReadSoFar
           /\ UNCHANGED <<base_pose, status>> =>
                 Right(status.status, base_pose)' = Right(status.status, base_pose)
<1>1. UNCHANGED base_pose => IsSafe(base_pose)' = IsSafe(base_pose)
  BY DEF IsSafe, WithinLimits, fenceVars
<1>2. ValidGeofenceSetup' = ValidGeofenceSetup
  BY DEF ValidGeofenceSetup, fenceVars
<1>3. UNCHANGED check => ReadSoFar' = ReadSoFar
  BY DEF ReadSoFar, IsSafe, WithinLimits, fenceVars
<1>4. UNCHANGED <<base_pose, status>> => Right(status.status, base_pose)' = Right(status.status, base_pose)
  BY <1>1, <1>2 DEF Right
<1> QED
  BY <1>1, <1>2, <1>3, <1>4

\* A step that changes nothing that is followed.
LEMMA SameFollows ==
    ASSUME FollowInv, UNCHANGED <<fenceVars, position, position_age, check, status, alive, base_pose,
                                  received, flying, vehicle_health, due, half, settled>>
    PROVE  FollowInv'
<1>1. /\ IsSafe(base_pose)' = IsSafe(base_pose) /\ ValidGeofenceSetup' = ValidGeofenceSetup
      /\ ReadSoFar' = ReadSoFar
      /\ Right(status.status, base_pose)' = Right(status.status, base_pose)
  BY SameFence
<1>2. Followed' = Followed
  BY DEF Followed, Labelled
<1>3. PositionFollows'
  BY <1>2 DEF FollowInv, PositionFollows
<1>4. CheckFollows'
  BY <1>1, <1>2 DEF FollowInv, CheckFollows
<1>5. StatusFollows'
  BY <1>1, <1>2 DEF FollowInv, StatusFollows
<1>6. ReportFollows'
  BY <1>1 DEF FollowInv, ReportFollows
<1> QED
  BY <1>3, <1>4, <1>5, <1>6 DEF FollowInv

\* The position that the captain publishes is that of the drone.
LEMMA SmarcFollows ==
    ASSUME DroneInv, FollowInv, PublishSmarc PROVE FollowInv'
<1>1. /\ "smarc" \in due /\ due' = due \ {"smarc"}
      /\ UNCHANGED <<fenceVars, check, status, alive, captainVars, half, settled>>
      /\ Followed => position' = base_pose /\ position_age' = 0
  BY DEF PublishSmarc, PosLatlon, geofenceVars, checkVars, Followed
<1>2. /\ IsSafe(base_pose)' = IsSafe(base_pose) /\ ValidGeofenceSetup' = ValidGeofenceSetup
      /\ ReadSoFar' = ReadSoFar
      /\ Right(status.status, base_pose)' = Right(status.status, base_pose)
  BY <1>1, SameFence DEF captainVars
<1>3. Followed' = Followed /\ ("check" \in due' <=> "check" \in due)
      /\ ("health" \in due' <=> "health" \in due)
  BY <1>1 DEF Followed, Labelled, captainVars
<1>4. PositionFollows'
  BY <1>1, <1>3 DEF PositionFollows, captainVars
<1>5. CheckFollows'
  BY <1>1, <1>2, <1>3 DEF FollowInv, CheckFollows, captainVars
<1>6. StatusFollows'
  BY <1>1, <1>2, <1>3 DEF FollowInv, StatusFollows, captainVars
<1>7. ReportFollows'
  BY <1>1, <1>2, <1>3 DEF FollowInv, ReportFollows, captainVars
<1> QED
  BY <1>4, <1>5, <1>6, <1>7 DEF FollowInv

\* The check that the timer begins is of where the drone is, once the node knows.
LEMMA CheckTimerFollows ==
    ASSUME DroneInv, FollowInv, MaxPositionAge >= 1, CheckTimer PROVE FollowInv'
<1>1. "check" \in due /\ due' = due \ {"check"} /\ UNCHANGED <<captainVars, half, settled>>
  BY DEF CheckTimer
<1>2. CASE ~alive
  <2>1. ~alive' /\ UNCHANGED <<fenceVars, check>>
    BY <1>2 DEF CheckTimer, geofenceVars, checkVars
  <2>2. ReadSoFar' = ReadSoFar
    BY <2>1, SameFence
  <2> QED
    BY <1>1, <2>1, <2>2 DEF FollowInv, PositionFollows, CheckFollows, StatusFollows, ReportFollows, Followed
<1>3. CASE alive
  <2>1. /\ PublishGeofenceOk /\ check = NoCheck
        /\ check' # NoCheck =>
              check'.at = "setup" /\ check'.points = check'.asked
        /\ check' # NoCheck /\ check'.for = "status" => check'.points = <<position>>
        /\ UNCHANGED <<fenceVars, position, position_age, alive>>
    BY <1>3, CheckBegins DEF CheckTimer, DroneInv
  <2>2. /\ IsSafe(base_pose)' = IsSafe(base_pose) /\ ValidGeofenceSetup' = ValidGeofenceSetup
        /\ UNCHANGED status => Right(status.status, base_pose)' = Right(status.status, base_pose)
    BY <1>1, <2>1, SameFence DEF captainVars
  <2>3. Followed' = Followed /\ ("smarc" \in due' <=> "smarc" \in due)
        /\ ("health" \in due' <=> "health" \in due)
    BY <1>1, <2>1 DEF Followed, Labelled, captainVars
  <2>4. PositionFollows'
    BY <1>1, <2>1, <2>3 DEF FollowInv, PositionFollows, captainVars
  <2>5. CheckFollows'
    <3>1. check' # NoCheck => ReadSoFar'
      BY <2>1, BeginsUnread
    <3>2. Followed /\ settled >= 2 => position = base_pose
      BY DEF FollowInv, PositionFollows
    <3>3. check'.for = "status" => check' # NoCheck
      BY DEF NoCheck
    <3> QED
      BY <1>1, <2>1, <2>3, <3>1, <3>2, <3>3 DEF CheckFollows, captainVars
  <2>6. ASSUME Followed, ValidGeofenceSetup, settled >= 2
        PROVE  check'.for = "status" /\ UNCHANGED status
    <3>1. position = base_pose /\ position_age <= 1 /\ position_age \in Nat
      BY <2>6 DEF FollowInv, PositionFollows, DroneInv, GeofenceInv, GeofenceTypeOK
    <3>2. position # None /\ ~(position_age > MaxPositionAge)
      BY <2>6, <3>1, DroneConstants DEF Followed, Labelled
    <3> QED
      BY <2>1, <2>6, <3>2 DEF PublishGeofenceOk, Begin
  <2>7. StatusFollows'
    <3> SUFFICES ASSUME Followed', ValidGeofenceSetup', settled' >= 2,
                        settled' >= 3 \/ check'.for # "status"
                 PROVE  /\ Right(status.status, base_pose)' /\ status'.age <= 1
                        /\ check'.for = "status"
      <4>1. settled' \in Nat
        BY <1>1, DroneConstants DEF DroneInv, TimersOK
      <4>2. settled' >= 3 => settled' >= 2
        BY <4>1
      <4> QED
        BY <4>2, Zenon DEF StatusFollows
    <3>1. check'.for = "status" /\ UNCHANGED status /\ settled >= 3
      BY <1>1, <2>2, <2>3, <2>6
    <3>2. Right(status.status, base_pose) /\ status.age <= 1
      BY <2>2, <2>3, <3>1 DEF FollowInv, StatusFollows
    <3> QED
      BY <2>2, <3>1, <3>2
  <2>8. ReportFollows'
    BY <1>1, <2>1, <2>2, <2>3 DEF FollowInv, ReportFollows, captainVars
  <2> QED
    BY <2>4, <2>5, <2>7, <2>8 DEF FollowInv
<1> QED
  BY <1>2, <1>3 DEF DroneInv, GeofenceInv, GeofenceTypeOK

\* A report that says ready of a drone that flies has found the status inside.
LEMMA HealthFollows ==
    ASSUME DroneInv, FollowInv, MaxStatusAge >= 2, PublishVehicleHealth
    PROVE  FollowInv'
<1>1. /\ due' = due \ {"health"}
      /\ UNCHANGED <<fenceVars, position, position_age, check, status, alive, base_pose, received,
                     half, settled>>
  BY DEF PublishVehicleHealth, geofenceVars, checkVars
<1>2. /\ IsSafe(base_pose)' = IsSafe(base_pose) /\ ValidGeofenceSetup' = ValidGeofenceSetup
      /\ ReadSoFar' = ReadSoFar
      /\ Right(status.status, base_pose)' = Right(status.status, base_pose)
  BY <1>1, SameFence
<1>3. Followed' = Followed /\ ("smarc" \in due' <=> "smarc" \in due)
      /\ ("check" \in due' <=> "check" \in due)
  BY <1>1 DEF Followed, Labelled
<1>4. PositionFollows' /\ CheckFollows' /\ StatusFollows'
  BY <1>1, <1>2, <1>3 DEF FollowInv, PositionFollows, CheckFollows, StatusFollows
<1>5. ASSUME alive, base_pose # None, ValidGeofenceSetup, flying', vehicle_health' = "READY", settled >= 3
      PROVE  IsSafe(base_pose)
  <2>1. PICK battery \in {"ready", "low"}, overloaded \in BOOLEAN, can_transform \in BOOLEAN,
             has_service \in BOOLEAN, is_flying \in BOOLEAN :
                /\ can_transform => Labelled
                /\ IF HealthBeforeReady(battery, overloaded, can_transform) = "READY"
                   THEN HealthOfReady(has_service, is_flying)
                   ELSE vehicle_health' = HealthBeforeReady(battery, overloaded, can_transform)
    BY DEF PublishVehicleHealth
  <2>2. Labelled /\ HealthOfReady(has_service, is_flying)
    BY <1>5, <2>1 DEF HealthBeforeReady
  <2>3. ~OutsideFence
    BY <1>5, <2>2 DEF HealthOfReady
  <2>4. Right(status.status, base_pose) /\ status.age <= 1
    BY <1>5, <2>2 DEF FollowInv, StatusFollows, Followed
  <2>5. status.age < MaxStatusAge
    BY <2>4, DroneConstants DEF DroneInv, GeofenceInv, StatusOK
  <2>6. status.status = "INSIDE"
    BY <1>5, <2>3, <2>4, <2>5 DEF OutsideFence, Right
  <2> QED
    BY <2>4, <2>6 DEF Right
<1>6. ReportFollows'
  <2>1. settled \in Int
    BY DEF DroneInv, TimersOK
  <2> QED
    BY <1>1, <1>2, <1>5, <2>1 DEF ReportFollows
<1> QED
  BY <1>4, <1>6 DEF FollowInv

\* The servers change what is judged, never what was.
LEMMA ServersLeaveCheck ==
    ASSUME ServersNext PROVE UNCHANGED <<position, position_age, check, status, alive>>
<1>1. CASE StartGoal \/ StopGoal \/ CancelStart
  BY <1>1 DEF StartGoal, StopGoal, CancelStart, Receive, checkVars
<1>2. ASSUME NEW server \in Server, DoWrite(server) \/ PublishRaises(server)
      PROVE  UNCHANGED <<position, position_age, check, status, alive>>
  BY <1>2 DEF DoWrite, PublishRaises, checkVars
<1> QED
  BY <1>1, <1>2 DEF ServersNext

\* A check for the service leaves the status alone.
LEMMA ServiceLeavesStatus ==
    ASSUME PointIsSafe, check.for # "status" PROVE UNCHANGED status
<1>1. ASSUME NEW verdict, Conclude(verdict) PROVE UNCHANGED status
  BY <1>1 DEF Conclude
<1> QED
  BY <1>1 DEF PointIsSafe, Setup, Ceiling, Above, Floor, Below, Fences, Islands, GoOn, Raise

\* A check in progress ends with the truth of where the drone is.
LEMMA PointFollows ==
    ASSUME CrossingsTell, DroneInv, FollowInv, PointIsSafe,
           UNCHANGED <<captainVars, due, half, settled>>
    PROVE  FollowInv'
<1>0. settled \in Nat
  BY DroneConstants DEF DroneInv, TimersOK
<1>1. /\ alive /\ check # NoCheck
      /\ UNCHANGED <<fenceVars, position, position_age>>
      /\ CrossingsTell /\ ReadSoFar => CheckGoesRight
      /\ CheckOK /\ CheckOK'
  BY CheckKeeps DEF DroneInv, GeofenceInv
<1>2. /\ IsSafe(base_pose)' = IsSafe(base_pose) /\ ValidGeofenceSetup' = ValidGeofenceSetup
      /\ UNCHANGED status => Right(status.status, base_pose)' = Right(status.status, base_pose)
  BY <1>1, SameFence DEF captainVars
<1>3. Followed' => Followed
  BY <1>1 DEF Followed, Labelled, captainVars
<1>4. settled >= 1 => CheckGoesRight
  BY <1>1 DEF FollowInv, CheckFollows
<1>5. PositionFollows'
  BY <1>1, <1>3 DEF FollowInv, PositionFollows, captainVars
<1>6. CheckFollows'
  <2>1. settled' >= 1 /\ check' # NoCheck => ReadSoFar'
    BY <1>4 DEF CheckGoesRight
  <2>2. ASSUME Followed', settled' >= 2, check'.for = "status" PROVE check'.points = <<base_pose'>>
    <3>1. check' # NoCheck
      BY <2>2 DEF NoCheck
    <3>2. settled >= 1
      BY <1>0, <2>2
    <3>3. check'.for = check.for /\ check'.points = check.points
      BY <1>4, <2>2, <3>1, <3>2 DEF CheckGoesRight
    <3>4. check.points = <<base_pose>>
      BY <1>3, <2>2, <3>3 DEF FollowInv, CheckFollows
    <3> QED
      BY <3>3, <3>4 DEF captainVars
  <2> QED
    BY <2>1, <2>2 DEF CheckFollows
<1>7. StatusFollows'
  <2> SUFFICES ASSUME Followed', ValidGeofenceSetup',
                      settled' >= 3 \/ (settled' >= 2 /\ "check" \notin due' /\ check'.for # "status")
               PROVE  /\ Right(status.status, base_pose)' /\ status'.age <= 1
                      /\ "check" \notin due' /\ check'.for # "status" => status'.age = 0
    BY Zenon DEF StatusFollows
  <2>1. /\ settled >= 2 /\ CheckGoesRight /\ Followed /\ ValidGeofenceSetup
        /\ "check" \notin due' <=> "check" \notin due
    BY <1>0, <1>2, <1>3, <1>4
  <2>2. CASE check.for = "status" /\ check' # NoCheck
    <3>1. UNCHANGED status /\ check'.for = "status"
      BY <2>1, <2>2 DEF CheckGoesRight
    <3>2. Right(status.status, base_pose) /\ status.age <= 1
      BY <2>1, <3>1 DEF FollowInv, StatusFollows
    <3> QED
      BY <1>2, <3>1, <3>2
  <2>3. CASE check.for = "status" /\ check' = NoCheck
    <3>1. PICK verdict : Right(verdict, check.points[1]) /\ status' = [status |-> verdict, age |-> 0]
      BY <2>1, <2>3 DEF CheckGoesRight
    <3>2. check.points[1] = base_pose
      BY <2>1, <2>3 DEF FollowInv, CheckFollows
    <3>3. status'.status = verdict /\ status'.age = 0
      BY <3>1
    <3>4. Right(status.status, base_pose)'
      BY <1>2, <3>1, <3>2, <3>3 DEF Right
    <3> QED
      BY <3>3, <3>4
  <2>4. CASE check.for # "status"
    <3>1. UNCHANGED status
      BY <2>4, ServiceLeavesStatus
    <3>2. /\ Right(status.status, base_pose) /\ status.age <= 1
          /\ "check" \notin due /\ check.for # "status" => status.age = 0
      BY <2>1, <2>4 DEF FollowInv, StatusFollows
    <3> QED
      BY <1>2, <2>1, <2>4, <3>1, <3>2
  <2> QED
    BY <2>2, <2>3, <2>4
<1>8. ReportFollows'
  BY <1>1, <1>2 DEF FollowInv, ReportFollows, captainVars
<1> QED
  BY <1>5, <1>6, <1>7, <1>8 DEF FollowInv

\* A check for the service reads afresh.
LEMMA ServiceFollows ==
    ASSUME DroneInv, FollowInv, NEW points \in Requests, CheckFence(points),
           UNCHANGED <<captainVars, due, half, settled>>
    PROVE  FollowInv'
<1>1. /\ check = NoCheck /\ UNCHANGED <<fenceVars, position, position_age, status, alive>>
      /\ check' = NoCheck \/ check' = Begin("service", points)
  BY DEF CheckFence
<1>2. check.for = "none" /\ check'.for # "status"
  BY <1>1 DEF NoCheck, Begin
<1>3. check' # NoCheck => ReadSoFar'
  BY <1>1, BeginsUnread DEF Begin
<1>4. /\ IsSafe(base_pose)' = IsSafe(base_pose) /\ ValidGeofenceSetup' = ValidGeofenceSetup
      /\ Right(status.status, base_pose)' = Right(status.status, base_pose)
  BY <1>1, SameFence DEF captainVars
<1>5. Followed' = Followed
  BY <1>1 DEF Followed, Labelled, captainVars
<1>6. PositionFollows'
  BY <1>1, <1>5 DEF FollowInv, PositionFollows, captainVars
<1>7. CheckFollows'
  BY <1>2, <1>3 DEF CheckFollows
<1>8. StatusFollows'
  BY <1>1, <1>2, <1>4, <1>5 DEF FollowInv, StatusFollows, captainVars
<1>9. ReportFollows'
  BY <1>1, <1>4 DEF FollowInv, ReportFollows, captainVars
<1> QED
  BY <1>6, <1>7, <1>8, <1>9 DEF FollowInv

\* A step of the geofence node: what it changes of the fence begins anew.
LEMMA NodeFollows ==
    ASSUME CrossingsTell, DroneInv, FollowInv, GeofenceStep PROVE FollowInv'
<1>1. CASE settled' = 0
  BY <1>1, Unsettled
<1>2. CASE settled' # 0
  <2>1. UNCHANGED <<fenceVars, captainVars, due, half, settled>>
    BY <1>2 DEF GeofenceStep
  <2>2. CASE ServersNext
    BY <2>1, <2>2, ServersLeaveCheck, SameFollows DEF captainVars
  <2>3. ASSUME NEW points \in Requests, CheckFence(points) PROVE FollowInv'
    BY <2>1, <2>3, ServiceFollows
  <2>4. CASE PointIsSafe
    BY <2>1, <2>4, PointFollows
  <2>5. CASE PolygonTimerRaises
    <3>1. ~alive' /\ check' = NoCheck
      BY <2>5 DEF PolygonTimerRaises
    <3>2. check'.for # "status"
      BY <3>1 DEF NoCheck
    <3> QED
      BY <3>1, <3>2 DEF FollowInv, PositionFollows, CheckFollows, StatusFollows, ReportFollows, Followed
  <2> QED
    BY <2>2, <2>3, <2>4, <2>5 DEF GeofenceStep
<1> QED
  BY <1>1, <1>2

\* When a half second is over, each has done its part in it.
LEMMA TickFollows ==
    ASSUME DroneInv, FollowInv, Settling >= 4, Tick PROVE FollowInv'
<1>1. /\ due = {} /\ check = NoCheck /\ half' = 1 - half /\ half \in {0, 1}
      /\ due' = {"smarc", "check"} \cup (IF half = 1 THEN {"health"} ELSE {})
      /\ position_age' = Older(position_age, MaxPositionAge)
      /\ status' = [status EXCEPT !.age = Older(status.age, MaxStatusAge)]
      /\ settled' = Older(settled, Settling)
      /\ UNCHANGED <<fenceVars, position, check, alive, captainVars>>
  BY DEF Tick, DroneInv, TimersOK, captainVars
<1>2. /\ settled \in Nat /\ settled' \in Nat
      /\ \A n \in 0 .. 4 : settled' >= n + 1 => settled >= n
      /\ settled' >= 4 => settled' >= 3 /\ settled >= 3
      /\ settled' >= 5 => settled >= 4
  BY <1>1, DroneConstants DEF Older, DroneInv, TimersOK
<1>3. check.for = "none" /\ check'.for = "none"
  BY <1>1 DEF NoCheck
<1>4. /\ IsSafe(base_pose)' = IsSafe(base_pose) /\ ValidGeofenceSetup' = ValidGeofenceSetup
  BY <1>1, SameFence DEF captainVars
<1>5. Followed' = Followed
  BY <1>1 DEF Followed, Labelled, captainVars
<1>6. PositionFollows'
  <2> SUFFICES ASSUME Followed', settled' >= 2 PROVE position' = base_pose' /\ position_age' <= 1
    BY <1>1 DEF PositionFollows
  <2>1. settled >= 1
    BY <1>2
  <2>2. position = base_pose /\ position_age <= 0 /\ position_age \in Nat
    BY <1>1, <1>5, <2>1 DEF FollowInv, PositionFollows, DroneInv, GeofenceInv, GeofenceTypeOK
  <2>3. position_age = 0
    BY <2>2
  <2> QED
    BY <1>1, <2>2, <2>3, DroneConstants DEF Older, captainVars
<1>7. CheckFollows'
  BY <1>1, <1>3 DEF CheckFollows
<1>8. StatusFollows'
  <2> SUFFICES ASSUME Followed', ValidGeofenceSetup', settled' >= 3
               PROVE  Right(status.status, base_pose)' /\ status'.age <= 1
    BY <1>1 DEF StatusFollows
  <2>1. settled >= 2
    BY <1>2
  <2>2. Right(status.status, base_pose) /\ status.age = 0
    BY <1>1, <1>3, <1>4, <1>5, <2>1 DEF FollowInv, StatusFollows
  <2>3. StatusOK
    BY DEF DroneInv, GeofenceInv
  <2>4. status'.status = status.status /\ status'.age = 1
    BY <1>1, <2>2, <2>3, DroneConstants DEF StatusOK, Older
  <2>5. Right(status.status, base_pose)'
    BY <1>1, <1>4, <2>2, <2>4 DEF Right, captainVars
  <2> QED
    BY <2>4, <2>5
<1>9. ReportFollows'
  <2> SUFFICES ASSUME alive, base_pose # None, ValidGeofenceSetup, flying, vehicle_health = "READY",
                      settled' >= 5 \/ (settled' >= 4 /\ half' = 1)
               PROVE  IsSafe(base_pose)
    BY <1>1, <1>4 DEF ReportFollows, captainVars
  <2>1. settled >= 3 /\ (half = 1 => settled >= 4)
    BY <1>1, <1>2
  <2> QED
    BY <1>1, <2>1 DEF FollowInv, ReportFollows
<1> QED
  BY <1>6, <1>7, <1>8, <1>9 DEF FollowInv

\* Whatever the captain hears or the two nodes do, the health goes on following.
LEMMA FollowNext ==
    ASSUME CrossingsTell, MaxPositionAge >= 1, MaxStatusAge >= 2, Settling >= 4,
           DroneInv, FollowInv, [DroneNext]_droneVars
    PROVE  FollowInv'
<1>1. CASE UNCHANGED droneVars
  BY <1>1, SameFollows DEF droneVars, geofenceVars, checkVars, captainVars
<1>2. ASSUME NEW sensor \in Sensors \cup {"gps"}, HearSensor(sensor) PROVE FollowInv'
  BY <1>2, Unsettled DEF HearSensor
<1>3. ASSUME NEW point \in Points, PositionFused(point) PROVE FollowInv'
  <2>1. CASE point = base_pose
    BY <1>3, <2>1, SameFollows DEF PositionFused, geofenceVars, checkVars
  <2>2. CASE point # base_pose
    BY <1>3, <2>2, Unsettled DEF PositionFused
  <2> QED
    BY <2>1, <2>2
<1> QED
  BY <1>1, <1>2, <1>3, SmarcFollows, CheckTimerFollows, HealthFollows, NodeFollows, TickFollows DEF DroneNext

\* With ages that leave a position and a status their half second, and polygons of which
\* crossings tell, the health follows the fence within four half seconds: whatever the order of the timers, a flying drone that has been outside for longer
\* than that is not reported ready.
THEOREM HealthKeepsUp ==
    ASSUME CrossingsTell, MaxPositionAge >= 1, MaxStatusAge >= 2, Settling >= 4
    PROVE  DroneSpec => []HealthFollowsFence
<1>1. DroneInit => FollowInv
  BY DEF DroneInit, FollowInv, PositionFollows, CheckFollows, StatusFollows, ReportFollows
<1>2. DroneInv /\ FollowInv /\ [DroneNext]_droneVars => FollowInv'
  BY FollowNext
<1>3. DroneInv /\ FollowInv => HealthFollowsFence
  <2> SUFFICES ASSUME DroneInv, FollowInv, settled > Settling, alive, base_pose # None,
                      ValidGeofenceSetup, flying, vehicle_health = "READY"
               PROVE  IsSafe(base_pose)
    BY DEF HealthFollowsFence
  <2>1. settled >= 5
    BY DroneConstants DEF DroneInv, TimersOK
  <2> QED
    BY <2>1 DEF FollowInv, ReportFollows
<1> QED
  BY <1>1, <1>2, <1>3, DroneInvHolds, PTL DEF DroneSpec
----------------------------------------------------------------------------
(* The motion of the drone *)

\* A setpoint that is young enough was accepted no longer ago than its stamp, as read by
\* the clock that is ahead, tells.
QuietOK ==
    /\ velocity_setpoint # NoSetpoint /\ velocity_setpoint.age <= MaxSetpointAge =>
            quiet["velocity"] <= velocity_setpoint.age + FutureTolerance
    /\ position_setpoint # NoSetpoint /\ position_setpoint.age <= MaxSetpointAge =>
            quiet["position"] <= position_setpoint.age

\* A timer that has run in this half second has found a setpoint that is young enough, or
\* was started by one; in the next half second it may find that it is not any more.
TimerOK ==
    /\ joy_timer = "velocity" =>
            quiet["velocity"] <= MaxSetpointAge + FutureTolerance + IF ticked THEN 0 ELSE 1
    /\ joy_timer = "position" =>
            quiet["position"] <= MaxSetpointAge + IF ticked THEN 0 ELSE 1

\* The speed to go on from is that of a message of this half second or the one before.
RampOK == ramp => joy_timer # "none" /\ pause <= IF ticked THEN 0 ELSE 1

\* Control is what the last control mode heard says, or less.
ControlOK == got_control => told

MotionInv == MotionTypeOK /\ QuietOK /\ TimerOK /\ RampOK /\ ControlOK

\* The limits are natural numbers, and no setpoint is none.
LEMMA MotionLimits ==
    /\ MaxSetpointAge \in Nat /\ FutureTolerance \in Nat
    /\ LongQuiet = MaxSetpointAge + FutureTolerance + 2 /\ LongPause = 2
    /\ \A age : NoSetpoint \notin [dir : Dir, age : age]
BY DjiMotionAssumption DEF LongQuiet, LongPause, NoSetpoint, Dir

\* At first there is no setpoint, no timer and no control.
LEMMA InitMotion == MotionInit => MotionInv
<1> SUFFICES ASSUME MotionInit PROVE MotionInv
  OBVIOUS
<1>1. quiet \in [Kind -> 0 .. LongQuiet] /\ pause \in 0 .. LongPause
  BY MotionLimits DEF MotionInit
<1>2. {got_control, authority, releasing, told, ramp, ticked, velocity_known} \subseteq BOOLEAN
  BY Zenon DEF MotionInit
<1>3. MotionTypeOK
  BY <1>1, <1>2 DEF MotionInit, MotionTypeOK, Kind
<1> QED
  BY <1>3 DEF MotionInit, MotionInv, QuietOK, TimerOK, RampOK, ControlOK

\* The captain's callbacks, its timer and the half seconds keep the invariant.
LEMMA NextMotion == MotionInv /\ [MotionNext]_motionVars => MotionInv'
<1> SUFFICES ASSUME MotionInv, [MotionNext]_motionVars PROVE MotionInv'
  OBVIOUS
<1> USE MotionLimits DEF MotionInv, MotionTypeOK, Kind, Ages, QuietOK, TimerOK, RampOK, ControlOK,
                         controlVars, joyVars, setpointVars
<1>1. ASSUME NEW dir \in Dir, NEW age \in Ages, MoveToVelocity(dir, age) PROVE MotionInv'
  BY <1>1 DEF MoveToVelocity, SetpointValid, StartTimer
<1>2. ASSUME NEW dir \in Dir, NEW age \in 0 .. MaxSetpointAge + 1, MoveToPosition(dir, age)
      PROVE  MotionInv'
  BY <1>2 DEF MoveToPosition, StartTimer
<1>3. CASE LosePosition
  BY <1>3 DEF LosePosition
<1>4. CASE PublishJoy
  BY <1>4 DEF PublishJoy, SetpointStillUsable, Setpoint
<1>5. CASE JoyEnds
  BY <1>5 DEF JoyEnds, CancelJoyTimer
<1>6. CASE RemoteControl
  BY <1>6 DEF RemoteControl
<1>7. CASE ControlMode
  BY <1>7 DEF ControlMode, CancelJoyTimer
<1>8. CASE VelocityGround
  BY <1>8 DEF VelocityGround
<1>9. CASE Authority
  BY <1>9 DEF Authority
<1>10. CASE TimePasses
  <2>1. /\ velocity_setpoint' \in {NoSetpoint} \cup [dir : Dir, age : Ages]
        /\ velocity_setpoint = NoSetpoint <=> velocity_setpoint' = NoSetpoint
        /\ velocity_setpoint # NoSetpoint /\ velocity_setpoint'.age <= MaxSetpointAge =>
                velocity_setpoint'.age = velocity_setpoint.age + 1
    BY <1>10 DEF TimePasses, Later
  <2>2. /\ position_setpoint' \in {NoSetpoint} \cup [dir : Dir, age : 0 .. MaxSetpointAge + 1]
        /\ position_setpoint # NoSetpoint /\ position_setpoint'.age <= MaxSetpointAge =>
                position_setpoint'.age = position_setpoint.age + 1
        /\ position_setpoint = NoSetpoint => position_setpoint' = NoSetpoint
    BY <1>10 DEF TimePasses, Later
  <2>3. /\ quiet' \in [Kind -> 0 .. LongQuiet]
        /\ \A kind \in Kind : quiet'[kind] <= quiet[kind] + 1
    BY <1>10 DEF TimePasses, Later
  <2>4. pause' \in 0 .. LongPause /\ pause' <= pause + 1
    BY <1>10 DEF TimePasses, Later
  <2>5. MotionTypeOK'
    BY <1>10, <2>1, <2>2, <2>3, <2>4 DEF TimePasses
  <2>6. QuietOK'
    BY <2>1, <2>2, <2>3
  <2>7. TimerOK'
    BY <1>10, <2>3 DEF TimePasses
  <2>8. RampOK' /\ ControlOK'
    BY <1>10, <2>4 DEF TimePasses
  <2> QED
    BY <2>5, <2>6, <2>7, <2>8
<1>11. CASE UNCHANGED motionVars
  BY <1>11 DEF motionVars
<1> QED
  BY <1>1, <1>2, <1>3, <1>4, <1>5, <1>6, <1>7, <1>8, <1>9, <1>10, <1>11 DEF MotionNext

\* In every reachable state the invariant holds.
THEOREM MotionInvHolds == MotionSpec => []MotionInv
BY InitMotion, NextMotion, PTL DEF MotionSpec

\* Every variable of the captain's motion holds a value of its kind, and no timer runs for
\* a setpoint of velocity that never came.
THEOREM MotionTypeCorrect == MotionSpec => []MotionTypeOK
<1>1. MotionInv => MotionTypeOK
  BY DEF MotionInv
<1> QED
  BY <1>1, MotionInvHolds, PTL

\* The dead man's switch, for any age and any difference of the clocks: a timer outlives the
\* last setpoint of its own kind by no more than the age, the difference and its half second.
THEOREM DeadManSwitchWorks == MotionSpec => []DeadManSwitch
<1>1. MotionInv => DeadManSwitch
  <2> SUFFICES ASSUME MotionInv PROVE DeadManSwitch
    OBVIOUS
  <2>1. quiet["velocity"] \in Nat /\ quiet["position"] \in Nat
    BY MotionLimits DEF MotionInv, MotionTypeOK, Kind
  <2> QED
    BY <2>1, MotionLimits DEF MotionInv, TimerOK, DeadManSwitch
<1> QED
  BY <1>1, MotionInvHolds, PTL

\* The captain commands the drone only while the last control mode heard gives it control.
THEOREM CommandsInControl == MotionSpec => OnlyInControl
<1>1. MotionInv => (PublishJoy => told)
  BY DEF MotionInv, ControlOK, PublishJoy, SetpointStillUsable
<1> QED
  BY <1>1, MotionInvHolds, PTL DEF OnlyInControl

\* The captain goes on from a speed only if it published in this half second or the last.
THEOREM StartsSmoothly == MotionSpec => SmoothStart
<1>1. MotionInv => (PublishJoy /\ ramp => pause < LongPause)
  BY MotionLimits DEF MotionInv, MotionTypeOK, RampOK
<1> QED
  BY <1>1, MotionInvHolds, PTL DEF SmoothStart
=============================================================================
