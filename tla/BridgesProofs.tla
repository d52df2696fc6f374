--------------------------- MODULE BridgesProofs ---------------------------
(***************************************************************************)
(* What the bridges have to themselves, for any number of machines,        *)
(* devices, entities and changes: the counters of prometheus_out, the      *)
(* command topics of mqtt, the notices of lost and restored connections,   *)
(* the watch on frozen devices, and the types of all parts side by side.   *)
(***************************************************************************)
EXTENDS MCBridges, FiniteSetTheorems, TLAPS

----------------------------------------------------------------------------
(* prometheus_out. What a counter has, and what its meter has moved since   *)
(* the last sample, is no more than the meter moved at all.                *)

OwnLabelled == \A m, n \in Machines : LabelOf[m] = LabelOf[n] => m = n

Keys == PrometheusFields \X Labels

\* How far v is above the last sample.
Since(v, last) == IF v >= last THEN v - last ELSE 0

Accounted(k, v) ==
    IF lastValue[k] = NoSeries THEN series[k] = NoSeries
    ELSE lastValue[k] <= MaxMeter /\ series[k] + Since(v, lastValue[k]) <= moved[k]

CounterInv ==
    /\ \A k \in Keys : moved[k] <= MaxTotal
    /\ \A m \in Machines, f \in PrometheusFields : Accounted(<<f, LabelOf[m]>>, meter[m][f])

GapInv ==
    \A m \in Machines :
        failures[m] = gaps[m] /\ (flagged[m] <=> missed[m]) /\ (flagged[m] => Late(m))

PrometheusInv == PrometheusTypeOK /\ CounterInv /\ GapInv

LEMMA PrometheusNumbers ==
  /\ MaxMeter \in Nat /\ MaxMeter > 0 /\ MaxTotal \in Nat /\ Threshold \in Nat /\ Threshold > 0
  /\ NoSeries \in Nat /\ NoSeries > MaxTotal + MaxMeter /\ Unseen = Threshold + 2 /\ Modulus = 2
  BY PrometheusAssumption DEF NoSeries, Unseen, Modulus

LEMMA KeyOf ==
  \A m \in Machines, f \in PrometheusFields :
    /\ <<f, LabelOf[m]>> \in Keys /\ <<f, LabelOf[m]>>[1] = f
    /\ OwnLabelled => \A n \in Machines, g \in PrometheusFields :
          <<f, LabelOf[m]>> = <<g, LabelOf[n]>> => f = g /\ m = n
  BY DEF Keys, Labels, OwnLabelled

LEMMA KeyIsOf == \A k \in Keys : \E m \in Machines, f \in PrometheusFields : k = <<f, LabelOf[m]>>
  BY DEF Keys, Labels

LEMMA PrometheusStart == PrometheusInit => PrometheusInv
<1> SUFFICES ASSUME PrometheusInit PROVE PrometheusInv
  OBVIOUS
<1> USE PrometheusNumbers DEF PrometheusInit
<1>1. PrometheusTypeOK
  BY DEF PrometheusTypeOK
<1>2. CounterInv
  BY KeyOf DEF CounterInv, Accounted, Keys
<1>3. GapInv
  BY DEF GapInv
<1> QED BY <1>1, <1>2, <1>3 DEF PrometheusInv

LEMMA MeterKeeps ==
  ASSUME PrometheusInv, OwnLabelled, NEW m \in Machines, NEW f \in PrometheusFields, MeterMoves(m, f)
  PROVE  PrometheusInv'
<1> USE PrometheusNumbers
<1>1. PICK v \in {0, meter[m][f] + 1} \cap 0..MaxMeter :
        /\ v > meter[m][f] => moved[<<f, LabelOf[m]>>] < MaxTotal
        /\ meter' = [meter EXCEPT ![m][f] = v]
        /\ moved' = IF v > meter[m][f]
                       THEN [moved EXCEPT ![<<f, LabelOf[m]>>] = @ + v - meter[m][f]]
                       ELSE moved
        /\ UNCHANGED <<series, lastValue, sinceWrite, flagged, failures, gaps, missed, monitor>>
  BY DEF MeterMoves
<1>2. PICK k \in Keys : k = <<f, LabelOf[m]>>
  BY KeyOf
<1>3. /\ meter[m][f] \in 0..MaxMeter /\ moved \in [Keys -> Nat] /\ moved[k] \in Nat /\ moved[k] <= MaxTotal
      /\ meter \in [Machines -> [PrometheusFields -> 0..MaxMeter]]
  BY <1>2 DEF PrometheusInv, PrometheusTypeOK, CounterInv, Keys
<1>4. /\ \A n \in Machines, g \in PrometheusFields :
           meter'[n][g] = IF n = m /\ g = f THEN v ELSE meter[n][g]
      /\ meter' \in [Machines -> [PrometheusFields -> 0..MaxMeter]]
  BY <1>1, <1>3
<1>5. /\ moved' \in [Keys -> Nat] /\ \A j \in Keys \ {k} : moved'[j] = moved[j]
      /\ moved'[k] = moved[k] + Since(v, meter[m][f]) /\ moved'[k] <= MaxTotal
  <2>1. v \in Nat /\ meter[m][f] \in Nat /\ (v > meter[m][f] => v = meter[m][f] + 1)
    BY <1>1, <1>3
  <2>2. CASE v > meter[m][f]
    <3>1. moved' = [moved EXCEPT ![k] = moved[k] + v - meter[m][f]] /\ moved[k] < MaxTotal
      BY <1>1, <1>2, <2>2
    <3>2. Since(v, meter[m][f]) = 1 /\ moved[k] + v - meter[m][f] = moved[k] + 1
      BY <1>3, <2>1, <2>2 DEF Since
    <3> QED BY <1>3, <3>1, <3>2
  <2>3. CASE ~(v > meter[m][f])
    <3>1. moved' = moved
      BY <1>1, <2>3
    <3>2. Since(v, meter[m][f]) = 0
      BY <2>1, <2>3 DEF Since
    <3> QED BY <1>3, <3>1, <3>2
  <2> QED BY <2>2, <2>3
<1>6. PrometheusTypeOK'
  BY <1>1, <1>4, <1>5 DEF PrometheusInv, PrometheusTypeOK, Keys
<1>7. CounterInv'
  <2>1. \A j \in Keys : moved'[j] <= MaxTotal
    BY <1>5 DEF PrometheusInv, CounterInv
  <2>2. ASSUME NEW n \in Machines, NEW g \in PrometheusFields
        PROVE  Accounted(<<g, LabelOf[n]>>, meter[n][g])'
    <3>1. PICK j \in Keys : j = <<g, LabelOf[n]>>
      BY KeyOf
    <3>2. Accounted(j, meter[n][g])
      BY <3>1 DEF PrometheusInv, CounterInv
    <3>3. CASE j = k
      <4>1. n = m /\ g = f
        BY <1>2, <3>1, <3>3, KeyOf
      <4>2. series[k] \in Nat /\ lastValue[k] \in Nat
        BY DEF PrometheusInv, PrometheusTypeOK, Keys
      <4>3. Accounted(k, v)'
        BY <1>1, <1>3, <1>5, <3>2, <3>3, <4>1, <4>2 DEF Accounted, Since
      <4> QED BY <1>2, <1>4, <4>1, <4>3
    <3>4. CASE j # k
      <4>1. n # m \/ g # f
        BY <1>2, <3>1, <3>4
      <4>2. meter'[n][g] = meter[n][g] /\ moved'[j] = moved[j]
        BY <1>4, <1>5, <3>4, <4>1
      <4> QED BY <1>1, <3>1, <3>2, <4>2 DEF Accounted
    <3> QED BY <3>3, <3>4
  <2> QED BY <2>1, <2>2 DEF CounterInv
<1>8. GapInv'
  BY <1>1 DEF PrometheusInv, GapInv, Late
<1> QED BY <1>6, <1>7, <1>8 DEF PrometheusInv

LEMMA WriteKeeps ==
  ASSUME PrometheusInv, OwnLabelled, NEW m \in Machines, WriteMetrics(m)
  PROVE  PrometheusInv'
<1> USE PrometheusNumbers
<1>1. PICK numeric \in SUBSET PrometheusFields :
        LET keys == {<<f, LabelOf[m]>> : f \in numeric}
        IN /\ series' = [k \in DOMAIN series |->
                  IF k \in keys THEN Recorded(series[k], lastValue[k], meter[m][k[1]])
                  ELSE series[k]]
           /\ lastValue' = [k \in DOMAIN lastValue |->
                  IF k \in keys THEN meter[m][k[1]] ELSE lastValue[k]]
           /\ sinceWrite' = [sinceWrite EXCEPT ![m] = 0]
           /\ flagged' = [flagged EXCEPT ![m] = FALSE]
           /\ missed' = [missed EXCEPT ![m] = FALSE]
           /\ UNCHANGED <<meter, failures, gaps, moved, monitor>>
  BY DEF WriteMetrics
<1>2. PICK keys : keys = {<<f, LabelOf[m]>> : f \in numeric}
  OBVIOUS
<1>3. DOMAIN series = Keys /\ DOMAIN lastValue = Keys
  BY DEF PrometheusInv, PrometheusTypeOK, Keys
<1>4. /\ series' = [k \in Keys |->
             IF k \in keys THEN Recorded(series[k], lastValue[k], meter[m][k[1]]) ELSE series[k]]
      /\ lastValue' = [k \in Keys |-> IF k \in keys THEN meter[m][k[1]] ELSE lastValue[k]]
      /\ sinceWrite' = [sinceWrite EXCEPT ![m] = 0]
      /\ flagged' = [flagged EXCEPT ![m] = FALSE]
      /\ missed' = [missed EXCEPT ![m] = FALSE]
      /\ UNCHANGED <<meter, failures, gaps, moved, monitor>>
  BY <1>1, <1>2, <1>3
<1>5. ASSUME NEW k \in Keys
      PROVE  /\ series'[k] \in 0..NoSeries /\ lastValue'[k] \in 0..NoSeries
             /\ \A n \in Machines, g \in PrometheusFields :
                   k = <<g, LabelOf[n]>> => Accounted(k, meter[n][g])'
  <2>1. PICK n \in Machines, g \in PrometheusFields : k = <<g, LabelOf[n]>>
    BY KeyIsOf
  <2>2. /\ series[k] \in 0..NoSeries /\ lastValue[k] \in 0..NoSeries /\ moved[k] \in Nat /\ moved[k] <= MaxTotal
        /\ meter[n][g] \in 0..MaxMeter
    BY DEF PrometheusInv, PrometheusTypeOK, CounterInv, Keys
  <2>3. Accounted(k, meter[n][g])
    BY <2>1 DEF PrometheusInv, CounterInv
  <2>4. \A o \in Machines, h \in PrometheusFields : k = <<h, LabelOf[o]>> => o = n /\ h = g
    BY <2>1, KeyOf
  <2>5. CASE k \in keys
    <3>1. n = m /\ k[1] = g
      BY <1>2, <2>1, <2>5, KeyOf
    <3>2. series'[k] = Recorded(series[k], lastValue[k], meter[n][g]) /\ lastValue'[k] = meter[n][g]
      BY <1>4, <2>5, <3>1
    <3>3. series'[k] \in 0..NoSeries /\ Accounted(k, meter[n][g])'
      BY <1>4, <2>2, <2>3, <3>2 DEF Accounted, Recorded, Since
    <3> QED BY <2>2, <2>4, <3>2, <3>3
  <2>6. CASE k \notin keys
    <3>1. series'[k] = series[k] /\ lastValue'[k] = lastValue[k]
      BY <1>4, <2>6
    <3>2. Accounted(k, meter[n][g])'
      BY <1>4, <2>3, <3>1 DEF Accounted
    <3> QED BY <2>2, <2>4, <3>1, <3>2
  <2> QED BY <2>5, <2>6
<1>6. PrometheusTypeOK'
  <2>1. series' \in [Keys -> 0..NoSeries] /\ lastValue' \in [Keys -> 0..NoSeries]
    BY <1>4, <1>5
  <2> QED BY <1>4, <2>1 DEF PrometheusInv, PrometheusTypeOK, Keys
<1>7. CounterInv'
  BY <1>4, <1>5, KeyOf DEF PrometheusInv, CounterInv
<1>8. GapInv'
  BY <1>4 DEF PrometheusInv, PrometheusTypeOK, GapInv, Late
<1> QED BY <1>6, <1>7, <1>8 DEF PrometheusInv

LEMMA SweepKeeps ==
  ASSUME PrometheusInv, SweepMachines
  PROVE  PrometheusInv'
<1> USE PrometheusNumbers DEF PrometheusInv
<1>1. \A m \in Machines : (failures[m] + 1) % Modulus \in 0..(Modulus - 1) /\ (gaps[m] + 1) % Modulus \in 0..(Modulus - 1)
  BY DEF PrometheusTypeOK
<1>2. PrometheusTypeOK'
  <2>1. failures' \in [Machines -> 0..(Modulus - 1)] /\ gaps' \in [Machines -> 0..(Modulus - 1)]
    BY <1>1 DEF SweepMachines, PrometheusTypeOK
  <2>2. flagged' \in [Machines -> BOOLEAN] /\ missed' \in [Machines -> BOOLEAN]
    BY DEF SweepMachines, PrometheusTypeOK
  <2> QED BY <2>1, <2>2 DEF SweepMachines, PrometheusTypeOK
<1>3. CounterInv'
  BY DEF SweepMachines, CounterInv, Accounted
<1>4. GapInv'
  BY DEF SweepMachines, GapInv, Late
<1> QED BY <1>2, <1>3, <1>4

LEMMA PrometheusKeeps ==
  ASSUME PrometheusInv, OwnLabelled, [PrometheusNext]_prometheusVars
  PROVE  PrometheusInv'
<1>1. CASE MinutePasses
  <2> USE PrometheusNumbers DEF PrometheusInv
  <2>1. sinceWrite' \in [Machines -> 0..Unseen]
    BY <1>1 DEF MinutePasses, PrometheusTypeOK
  <2>2. PrometheusTypeOK'
    BY <1>1, <2>1 DEF MinutePasses, PrometheusTypeOK
  <2>3. CounterInv'
    BY <1>1 DEF MinutePasses, CounterInv, Accounted
  <2>4. \A m \in Machines : Late(m) => Late(m)'
    BY <1>1 DEF MinutePasses, Late, PrometheusTypeOK
  <2>5. GapInv'
    BY <1>1, <2>4 DEF MinutePasses, GapInv
  <2> QED BY <2>2, <2>3, <2>5
<1>2. CASE ClosePrometheus \/ UNCHANGED prometheusVars
  <2>1. UNCHANGED <<meter, series, lastValue, sinceWrite, flagged, failures, gaps, missed, moved>>
        /\ monitor' \in {monitor, "stopped"}
    BY <1>2 DEF ClosePrometheus, prometheusVars
  <2> QED BY <2>1 DEF PrometheusInv, PrometheusTypeOK, CounterInv, Accounted, GapInv, Late
<1> QED BY <1>1, <1>2, SweepKeeps, WriteKeeps, MeterKeeps DEF PrometheusNext

\* Through restarts of devices, readings that are not numeric, sweeps and
\* silences: an exported counter never runs ahead of its meter, and a machine's
\* scrape failures are the gaps a sweep saw, as long as no two machines share a
\* device_name label.
THEOREM CountersStayTrue == OwnLabelled => (PrometheusSpec => []CountersAreTrue)
<1> SUFFICES ASSUME OwnLabelled PROVE PrometheusSpec => []CountersAreTrue
  OBVIOUS
<1>1. PrometheusInv => CountersAreTrue
  <2> SUFFICES ASSUME PrometheusInv PROVE CountersAreTrue
    OBVIOUS
  <2>1. CounterFollowsMeter
    <3> SUFFICES ASSUME NEW k \in Keys, series[k] # NoSeries PROVE series[k] <= moved[k]
      BY DEF CounterFollowsMeter, Keys
    <3>1. PICK m \in Machines, f \in PrometheusFields : k = <<f, LabelOf[m]>>
      BY KeyIsOf
    <3>2. Accounted(k, meter[m][f])
      BY <3>1 DEF PrometheusInv, CounterInv
    <3>3. meter[m][f] \in Nat /\ series[k] \in Nat /\ moved[k] \in Nat /\ lastValue[k] \in Nat
      BY PrometheusNumbers DEF PrometheusInv, PrometheusTypeOK, Keys
    <3> QED BY <3>2, <3>3 DEF Accounted, Since
  <2>2. FailuresAreGaps
    BY DEF FailuresAreGaps, PrometheusInv, GapInv
  <2> QED BY <2>1, <2>2 DEF CountersAreTrue
<1>2. PrometheusInv /\ [PrometheusNext]_prometheusVars => PrometheusInv'
  BY PrometheusKeeps
<1> QED BY PrometheusStart, <1>1, <1>2, PTL DEF PrometheusSpec

----------------------------------------------------------------------------
(* The notices. What will have been said once the queue is empty says what *)
(* the connection is, and a marker waits for what is owed.                 *)

OneSetter == \A s, t \in Setters : s = t

LastNotice == IF pendingNotices = <<>> THEN told ELSE pendingNotices[Len(pendingNotices)]
Owing == IF pendingNotices = <<>> THEN owed ELSE pendingNotices[Len(pendingNotices)] = "lost"

\* It has changed the connection and not yet queued the notice; it has still to
\* write the marker.
ToQueue(s) == setter[s] = "notice"
ToMark(s) == setter[s] = "mark" \/ (setter[s] = "deliver" /\ noticing[s] = "lost" /\ ~holding[s])

NoticeShape == NoticesTypeOK /\ pendingNotices \in Seq(Notices)

SetterInv(s) ==
    /\ setter[s] # "idle" => everUp /\ noticing[s] = IF link THEN "restored" ELSE "lost"
    /\ setter[s] = "idle" => pendingNotices = <<>>
    /\ setter[s] = "mark" => ~link /\ (~holding[s] => pendingNotices = <<>>)
    /\ ToQueue(s) =>
          /\ Len(pendingNotices) < changes
          /\ ~wasEverUp[s] => link /\ pendingNotices = <<>> /\ told = "none" /\ (owed => marker)

Current == (link => LastNotice # "lost" /\ ~Owing) /\ (~link /\ everUp => LastNotice # "restored")
Marked == (link => ~marker) /\ (Owing => marker)

NoticeInv ==
    /\ NoticeShape
    /\ \A s \in Setters : SetterInv(s)
    /\ NobodySets => pendingNotices = <<>>
    /\ ~everUp => ~link /\ told = "none" /\ NobodySets
    /\ (\A s \in Setters : ~ToQueue(s)) => Current
    /\ (\A s \in Setters : ~ToQueue(s) /\ ~ToMark(s)) => Marked

LEMMA NoticeAppended ==
  ASSUME NEW q \in Seq(Notices), NEW n \in Notices
  PROVE  /\ Append(q, n) \in Seq(Notices) /\ Append(q, n) # <<>> /\ Len(Append(q, n)) = Len(q) + 1
         /\ Append(q, n)[Len(Append(q, n))] = n
  OBVIOUS

LEMMA NoticeTaken ==
  ASSUME NEW q \in Seq(Notices), q # <<>>
  PROVE  /\ Tail(q) \in Seq(Notices) /\ Head(q) \in Notices /\ Len(Tail(q)) = Len(q) - 1 /\ Len(q) > 0
         /\ Tail(q) = <<>> => q[Len(q)] = Head(q)
         /\ Tail(q) # <<>> => Tail(q)[Len(Tail(q))] = q[Len(q)]
<1>1. Len(q) \in Nat /\ Len(q) > 0 /\ Tail(q) \in Seq(Notices) /\ Head(q) \in Notices /\ Head(q) = q[1]
      /\ Len(Tail(q)) = Len(q) - 1
  OBVIOUS
<1>2. Tail(q) = <<>> => Len(q) = 1
  <2>1. Len(<<>>) = 0
    OBVIOUS
  <2>2. Tail(q) = <<>> => Len(Tail(q)) = 0
    BY <2>1
  <2> QED BY <1>1, <2>2
<1>3. Tail(q) # <<>> => Len(Tail(q)) \in 1..Len(Tail(q))
  BY <1>1
<1>4. \A j \in 1..Len(Tail(q)) : Tail(q)[j] = q[j + 1]
  OBVIOUS
<1>5. Tail(q) # <<>> => Tail(q)[Len(Tail(q))] = q[Len(q)]
  BY <1>1, <1>3, <1>4
<1> QED BY <1>1, <1>2, <1>5

LEMMA NoticeRange == ASSUME NEW q \in Seq(Notices) PROVE ToSet(q) \subseteq Notices
  BY DEF ToSet

LEMMA NoticeStart == NoticesInit => NoticeInv
<1> SUFFICES ASSUME NoticesInit PROVE NoticeInv
  OBVIOUS
<1> USE NoticesAssumption DEF NoticesInit
<1>1. <<>> \in Seq(Notices) /\ ToSet(<<>>) \subseteq Notices /\ Len(<<>>) = 0
  BY DEF ToSet
<1>2. NoticeShape
  <2>1. {link, everUp, marker, owed} \subseteq BOOLEAN
    BY Zenon
  <2>2. {wasEverUp, holding} \subseteq [Setters -> BOOLEAN]
    OBVIOUS
  <2>3. setter \in [Setters -> {"idle", "notice", "deliver", "mark", "release"}] /\ noticing \in [Setters -> Notices]
    BY DEF Notices
  <2>4. pendingNotices \in Seq(Notices) /\ ToSet(pendingNotices) \subseteq Notices /\ Len(pendingNotices) <= changes
    BY <1>1
  <2> QED BY <2>1, <2>2, <2>3, <2>4 DEF NoticeShape, NoticesTypeOK
<1>3. (\A s \in Setters : SetterInv(s)) /\ NobodySets /\ Current /\ Marked
  BY DEF SetterInv, NobodySets, ToQueue, Current, Marked, LastNotice, Owing
<1> QED BY <1>2, <1>3 DEF NoticeInv

\* The one setter that moves decides all of the invariant.
LEMMA OneSetterMoves ==
  ASSUME OneSetter, NEW s \in Setters,
         NoticeShape', SetterInv(s)', setter'[s] # "idle" \/ everUp' \/ (~link' /\ told' = "none"), link' => everUp',
         setter'[s] # "idle" \/ pendingNotices' = <<>>,
         ~ToQueue(s)' => Current', ~ToQueue(s)' /\ ~ToMark(s)' => Marked'
  PROVE  NoticeInv'
<1>1. \A r \in Setters : r = s
  BY DEF OneSetter
<1>2. \A r \in Setters : SetterInv(r)'
  BY <1>1
<1>3. NobodySets' <=> setter'[s] = "idle"
  BY <1>1 DEF NobodySets
<1>4. ~everUp' => ~link' /\ told' = "none" /\ NobodySets'
  BY <1>3 DEF SetterInv
<1>5. (\A r \in Setters : ~ToQueue(r)') => Current'
  BY <1>1
<1>6. (\A r \in Setters : ~ToQueue(r)' /\ ~ToMark(r)') => Marked'
  BY <1>1
<1> QED BY <1>2, <1>3, <1>4, <1>5, <1>6 DEF NoticeInv

LEMMA NoticeParts ==
  NoticeShape <=>
    /\ link \in BOOLEAN /\ everUp \in BOOLEAN /\ marker \in BOOLEAN /\ owed \in BOOLEAN
    /\ setter \in [Setters -> {"idle", "notice", "deliver", "mark", "release"}]
    /\ noticing \in [Setters -> Notices]
    /\ wasEverUp \in [Setters -> BOOLEAN] /\ holding \in [Setters -> BOOLEAN]
    /\ pendingNotices \in Seq(Notices) /\ Len(pendingNotices) <= changes
    /\ told \in Notices \cup {"none"} /\ changes \in 0..MaxChanges
  BY NoticeRange DEF NoticeShape, NoticesTypeOK

LEMMA NoticePartsNext ==
  NoticeShape' <=>
    /\ link' \in BOOLEAN /\ everUp' \in BOOLEAN /\ marker' \in BOOLEAN /\ owed' \in BOOLEAN
    /\ setter' \in [Setters -> {"idle", "notice", "deliver", "mark", "release"}]
    /\ noticing' \in [Setters -> Notices]
    /\ wasEverUp' \in [Setters -> BOOLEAN] /\ holding' \in [Setters -> BOOLEAN]
    /\ pendingNotices' \in Seq(Notices) /\ Len(pendingNotices') <= changes'
    /\ told' \in Notices \cup {"none"} /\ changes' \in 0..MaxChanges
  BY NoticeRange DEF NoticeShape, NoticesTypeOK, ToSet

LEMMA ChangeShape ==
  ASSUME NoticeShape, NEW s \in Setters, Change(s)
  PROVE  /\ link' \in BOOLEAN /\ everUp' \in BOOLEAN /\ link' # link /\ everUp' = TRUE
         /\ wasEverUp' \in [Setters -> BOOLEAN] /\ (wasEverUp'[s] <=> everUp)
         /\ noticing' \in [Setters -> Notices] /\ noticing'[s] = IF link' THEN "restored" ELSE "lost"
         /\ changes' \in 0..MaxChanges /\ changes' = changes + 1
<1> USE NoticesAssumption, NoticeParts DEF Change, Notices
<1>1. link' \in BOOLEAN /\ everUp' \in BOOLEAN /\ link' # link /\ everUp' = TRUE
  OBVIOUS
<1>2. wasEverUp' \in [Setters -> BOOLEAN] /\ (wasEverUp'[s] <=> everUp)
  OBVIOUS
<1>3. noticing' \in [Setters -> Notices] /\ noticing'[s] = IF link' THEN "restored" ELSE "lost"
  OBVIOUS
<1>4. changes' \in 0..MaxChanges /\ changes' = changes + 1
  OBVIOUS
<1> QED BY <1>1, <1>2, <1>3, <1>4

\* A change from rest, or from within a region that holds its notices.
LEMMA ChangeKeeps ==
  ASSUME NoticeInv, OneSetter, NEW s \in Setters, setter[s] \in {"idle", "release"}, Change(s),
         setter' = [setter EXCEPT ![s] = "notice"], holding' \in [Setters -> BOOLEAN],
         UNCHANGED <<pendingNotices, marker, told, owed>>
  PROVE  NoticeInv'
<1>1. NoticeShape /\ SetterInv(s)
  BY DEF NoticeInv
<1>2. /\ link' \in BOOLEAN /\ everUp' \in BOOLEAN /\ link' # link /\ everUp' = TRUE
      /\ wasEverUp' \in [Setters -> BOOLEAN] /\ (wasEverUp'[s] <=> everUp)
      /\ noticing' \in [Setters -> Notices] /\ noticing'[s] = IF link' THEN "restored" ELSE "lost"
      /\ changes' \in 0..MaxChanges /\ changes' = changes + 1
  BY <1>1, ChangeShape
<1>3. setter'[s] = "notice" /\ setter' \in [Setters -> {"idle", "notice", "deliver", "mark", "release"}]
  BY <1>1, NoticeParts
<1>4. Len(pendingNotices) \in Nat /\ Len(pendingNotices) <= changes /\ changes \in Nat
  BY <1>1, NoticeParts, NoticesAssumption
<1>5. NoticeShape'
  BY <1>1, <1>2, <1>3, <1>4, NoticeParts, NoticePartsNext
<1>6. ~everUp => /\ ~link /\ told = "none" /\ pendingNotices = <<>> /\ (owed => marker)
  <2>1. ~everUp => ~link /\ told = "none" /\ NobodySets /\ pendingNotices = <<>>
    BY DEF NoticeInv
  <2>2. NobodySets => Marked
    BY DEF NoticeInv, NobodySets, ToQueue, ToMark
  <2> QED BY <2>1, <2>2 DEF Marked, Owing
<1>7. SetterInv(s)'
  <2>1. Len(pendingNotices') < changes'
    BY <1>2, <1>4
  <2>2. ~wasEverUp'[s] => link' /\ pendingNotices' = <<>> /\ told' = "none" /\ (owed' => marker')
    BY <1>1, <1>2, <1>6, NoticeParts
  <2> QED BY <1>2, <1>3, <2>1, <2>2 DEF SetterInv, ToQueue
<1>8. ToQueue(s)' /\ setter'[s] # "idle"
  BY <1>3 DEF ToQueue
<1> QED BY <1>2, <1>5, <1>7, <1>8, OneSetterMoves

LEMMA QueueRestoredKeeps ==
  ASSUME NoticeInv, OneSetter, NEW s \in Setters, QueueRestored(s)
  PROVE  NoticeInv'
<1>1. NoticeShape /\ SetterInv(s) /\ setter[s] = "notice" /\ noticing[s] = "restored"
  BY DEF NoticeInv, QueueRestored, At
<1>2. UNCHANGED <<link, everUp, noticing, wasEverUp, holding, told, owed, changes>> /\ marker' = FALSE
  BY DEF QueueRestored
<1>3. link /\ everUp /\ Len(pendingNotices) < changes
  BY <1>1, NoticeParts DEF SetterInv, ToQueue
<1>4. changes \in Nat /\ Len(pendingNotices) \in Nat
  BY <1>1, NoticeParts, NoticesAssumption
<1>5. CASE /\ wasEverUp[s] \/ marker
           /\ setter' = [setter EXCEPT ![s] = IF holding[s] THEN "release" ELSE "deliver"]
           /\ pendingNotices' = Append(pendingNotices, "restored")
  <2>1. /\ pendingNotices' \in Seq(Notices) /\ pendingNotices' # <<>>
        /\ Len(pendingNotices') = Len(pendingNotices) + 1
        /\ pendingNotices'[Len(pendingNotices')] = "restored"
    BY <1>1, <1>5, NoticeParts, NoticeAppended DEF Notices
  <2>2. /\ setter'[s] \in {"release", "deliver"}
        /\ setter' \in [Setters -> {"idle", "notice", "deliver", "mark", "release"}]
    BY <1>1, <1>5, NoticeParts
  <2>3. NoticeShape'
    <3>1. marker' \in BOOLEAN
      BY <1>2
    <3>2. Len(pendingNotices') <= changes'
      <4>1. Len(pendingNotices) + 1 <= changes
        BY <1>3, <1>4
      <4> QED BY <1>2, <2>1, <4>1
    <3> QED BY <1>1, <1>2, <2>1, <2>2, <3>1, <3>2, NoticeParts, NoticePartsNext
  <2>4. LastNotice' = "restored" /\ ~Owing'
    BY <2>1 DEF LastNotice, Owing
  <2>5. Current' /\ Marked'
    BY <1>2, <1>3, <2>4 DEF Current, Marked
  <2>6. SetterInv(s)'
    BY <1>1, <1>2, <1>3, <2>2 DEF SetterInv, ToQueue
  <2> QED BY <1>2, <1>3, <2>2, <2>3, <2>5, <2>6, OneSetterMoves
<1>6. CASE /\ ~(wasEverUp[s] \/ marker)
           /\ setter' = [setter EXCEPT ![s] = IF holding[s] THEN "release" ELSE "idle"]
           /\ UNCHANGED pendingNotices
  <2>1. pendingNotices = <<>> /\ told = "none" /\ ~owed
    BY <1>1, <1>6 DEF SetterInv, ToQueue
  <2>2. /\ setter'[s] \in {"release", "idle"}
        /\ setter' \in [Setters -> {"idle", "notice", "deliver", "mark", "release"}]
    BY <1>1, <1>6, NoticeParts
  <2>3. NoticeShape'
    BY <1>1, <1>2, <1>6, <2>2, NoticeParts, NoticePartsNext
  <2>4. LastNotice' = "none" /\ ~Owing'
    BY <1>2, <1>6, <2>1 DEF LastNotice, Owing
  <2>5. Current' /\ Marked'
    BY <1>2, <1>3, <2>4 DEF Current, Marked
  <2>6. SetterInv(s)'
    BY <1>1, <1>2, <1>3, <1>6, <2>1, <2>2 DEF SetterInv, ToQueue
  <2> QED BY <1>2, <1>3, <1>6, <2>1, <2>3, <2>5, <2>6, OneSetterMoves
<1> QED BY <1>5, <1>6 DEF QueueRestored, At

LEMMA QueueLostKeeps ==
  ASSUME NoticeInv, OneSetter, NEW s \in Setters, QueueLost(s)
  PROVE  NoticeInv'
<1>1. /\ NoticeShape /\ SetterInv(s) /\ setter[s] = "notice" /\ noticing[s] = "lost"
      /\ setter' = [setter EXCEPT ![s] = IF holding[s] THEN "mark" ELSE "deliver"]
      /\ pendingNotices' = Append(pendingNotices, "lost")
      /\ UNCHANGED <<link, everUp, noticing, wasEverUp, holding, marker, told, owed, changes>>
  BY DEF NoticeInv, QueueLost, At
<1>2. ~link /\ everUp /\ Len(pendingNotices) < changes
  BY <1>1, NoticeParts DEF SetterInv, ToQueue
<1>3. changes \in Nat /\ Len(pendingNotices) \in Nat
  BY <1>1, NoticeParts, NoticesAssumption
<1>4. /\ pendingNotices' \in Seq(Notices) /\ pendingNotices' # <<>>
      /\ Len(pendingNotices') = Len(pendingNotices) + 1
      /\ pendingNotices'[Len(pendingNotices')] = "lost"
  BY <1>1, NoticeParts, NoticeAppended DEF Notices
<1>5. /\ setter'[s] = (IF holding[s] THEN "mark" ELSE "deliver")
      /\ setter' \in [Setters -> {"idle", "notice", "deliver", "mark", "release"}]
  BY <1>1, NoticeParts
<1>6. NoticeShape'
  BY <1>1, <1>2, <1>3, <1>4, <1>5, NoticeParts, NoticePartsNext
<1>7. LastNotice' = "lost"
  BY <1>4 DEF LastNotice
<1>8. Current'
  BY <1>1, <1>2, <1>7 DEF Current
<1>9. ToMark(s)' /\ setter'[s] # "idle"
  BY <1>1, <1>5 DEF ToMark
<1>10. SetterInv(s)'
  BY <1>1, <1>2, <1>5 DEF SetterInv, ToQueue
<1> QED BY <1>1, <1>2, <1>6, <1>8, <1>9, <1>10, OneSetterMoves

LEMMA DeliverKeeps ==
  ASSUME NoticeInv, OneSetter, NEW s \in Setters, Deliver(s)
  PROVE  NoticeInv'
<1>1. /\ NoticeShape /\ SetterInv(s) /\ setter[s] = "deliver"
      /\ UNCHANGED <<link, everUp, noticing, wasEverUp, holding, marker, changes>>
  BY DEF NoticeInv, Deliver
<1>2. everUp /\ noticing[s] = IF link THEN "restored" ELSE "lost"
  BY <1>1 DEF SetterInv
<1>3. \A r \in Setters : r = s
  BY DEF OneSetter
<1>4. Current /\ (~ToMark(s) => Marked)
  BY <1>1, <1>3 DEF NoticeInv, ToQueue
<1>5. CASE /\ pendingNotices = <<>>
           /\ setter' = [setter EXCEPT ![s] = IF noticing[s] = "lost" /\ ~holding[s] THEN "mark" ELSE "idle"]
           /\ UNCHANGED <<pendingNotices, told, owed>>
  <2>1. /\ setter'[s] = (IF noticing[s] = "lost" /\ ~holding[s] THEN "mark" ELSE "idle")
        /\ setter' \in [Setters -> {"idle", "notice", "deliver", "mark", "release"}]
    BY <1>1, <1>5, NoticeParts
  <2>2. NoticeShape'
    BY <1>1, <1>5, <2>1, NoticeParts, NoticePartsNext
  <2>3. Current' /\ (Marked => Marked')
    BY <1>1, <1>4, <1>5 DEF Current, Marked, LastNotice, Owing
  <2>4. ~ToMark(s)' => ~ToMark(s)
    BY <1>1, <2>1 DEF ToMark
  <2>5. SetterInv(s)'
    BY <1>1, <1>2, <1>5, <2>1 DEF SetterInv, ToQueue
  <2> QED BY <1>1, <1>2, <1>4, <1>5, <2>2, <2>3, <2>4, <2>5, OneSetterMoves
<1>6. CASE pendingNotices # <<>> /\ Sent /\ owed' = (told' = "lost") /\ UNCHANGED setter
  <2>1. /\ pendingNotices \in Seq(Notices) /\ pendingNotices' = Tail(pendingNotices)
        /\ told' = Head(pendingNotices)
    BY <1>1, <1>6, NoticeParts DEF Sent
  <2>2. /\ pendingNotices' \in Seq(Notices) /\ told' \in Notices
        /\ Len(pendingNotices') = Len(pendingNotices) - 1
        /\ pendingNotices' = <<>> => pendingNotices[Len(pendingNotices)] = told'
        /\ pendingNotices' # <<>> => pendingNotices'[Len(pendingNotices')] = pendingNotices[Len(pendingNotices)]
    BY <1>6, <2>1, NoticeTaken
  <2>3. owed' \in BOOLEAN /\ (owed' <=> told' = "lost")
    BY <1>6
  <2>4. NoticeShape'
    <3>1. Len(pendingNotices) \in Nat /\ changes \in Nat
      BY <1>1, NoticeParts, NoticesAssumption
    <3> QED BY <1>1, <1>6, <2>2, <2>3, <3>1, NoticeParts, NoticePartsNext
  <2>5. LastNotice' = LastNotice /\ (Owing' <=> Owing)
    <3>1. CASE pendingNotices' = <<>>
      BY <1>6, <2>2, <2>3, <3>1 DEF LastNotice, Owing
    <3>2. CASE pendingNotices' # <<>>
      BY <1>6, <2>2, <3>2 DEF LastNotice, Owing
    <3> QED BY <3>1, <3>2
  <2>6. Current' /\ (Marked => Marked')
    BY <1>1, <1>4, <2>5 DEF Current, Marked
  <2>7. SetterInv(s)'
    BY <1>1, <1>2, <1>6 DEF SetterInv, ToQueue
  <2>8. setter'[s] = "deliver" /\ (ToMark(s)' <=> ToMark(s))
    BY <1>1, <1>6 DEF ToMark
  <2> QED BY <1>1, <1>2, <1>4, <2>4, <2>6, <2>7, <2>8, OneSetterMoves
<1> QED BY <1>5, <1>6 DEF Deliver

LEMMA MarkKeeps ==
  ASSUME NoticeInv, OneSetter, NEW s \in Setters, Mark(s)
  PROVE  NoticeInv'
<1>1. /\ NoticeShape /\ SetterInv(s) /\ setter[s] = "mark" /\ marker' = TRUE
      /\ setter' = [setter EXCEPT ![s] = IF holding[s] THEN "release" ELSE "idle"]
      /\ UNCHANGED <<link, everUp, noticing, wasEverUp, holding, pendingNotices, told, owed, changes>>
  BY DEF NoticeInv, Mark, At
<1>2. ~link /\ everUp /\ noticing[s] = "lost" /\ (~holding[s] => pendingNotices = <<>>)
  BY <1>1 DEF SetterInv
<1>3. \A r \in Setters : r = s
  BY DEF OneSetter
<1>4. Current
  BY <1>1, <1>3 DEF NoticeInv, ToQueue
<1>5. /\ setter'[s] = (IF holding[s] THEN "release" ELSE "idle")
      /\ setter' \in [Setters -> {"idle", "notice", "deliver", "mark", "release"}]
  BY <1>1, NoticeParts
<1>6. NoticeShape'
  BY <1>1, <1>5, NoticeParts, NoticePartsNext
<1>7. Current' /\ Marked'
  BY <1>1, <1>2, <1>4 DEF Current, Marked, LastNotice, Owing
<1>8. SetterInv(s)'
  BY <1>1, <1>2, <1>5 DEF SetterInv, ToQueue
<1> QED BY <1>1, <1>2, <1>5, <1>6, <1>7, <1>8, OneSetterMoves

LEMMA ReleaseKeeps ==
  ASSUME NoticeInv, OneSetter, NEW s \in Setters, Release(s)
  PROVE  NoticeInv'
<1>1. /\ NoticeShape /\ SetterInv(s) /\ setter[s] = "release"
      /\ UNCHANGED <<holding, pendingNotices, marker, told, owed>>
  BY DEF NoticeInv, Release, At
<1>2. CASE setter' = [setter EXCEPT ![s] = "notice"] /\ Change(s)
  BY <1>1, <1>2, ChangeKeeps, NoticeParts
<1>3. CASE setter' = [setter EXCEPT ![s] = "deliver"] /\ UNCHANGED <<link, everUp, noticing, wasEverUp, changes>>
  <2>1. \A r \in Setters : r = s
    BY DEF OneSetter
  <2>2. Current /\ Marked
    BY <1>1, <2>1 DEF NoticeInv, ToQueue, ToMark
  <2>3. setter'[s] = "deliver" /\ setter' \in [Setters -> {"idle", "notice", "deliver", "mark", "release"}]
    BY <1>1, <1>3, NoticeParts
  <2>4. NoticeShape'
    BY <1>1, <1>3, <2>3, NoticeParts, NoticePartsNext
  <2>5. Current' /\ Marked'
    BY <1>1, <1>3, <2>2 DEF Current, Marked, LastNotice, Owing
  <2>6. SetterInv(s)' /\ everUp'
    BY <1>1, <1>3, <2>3 DEF SetterInv, ToQueue
  <2> QED BY <2>3, <2>4, <2>5, <2>6, OneSetterMoves
<1> QED BY <1>2, <1>3 DEF Release, At

LEMMA NoticesKeep ==
  ASSUME NoticeInv, OneSetter, ~CrashesMidway, [NoticesNext]_noticeVars
  PROVE  NoticeInv'
<1>1. ASSUME NEW s \in Setters, NEW held \in {MayHold, FALSE}, SetConnected(s, held) PROVE NoticeInv'
  <2>1. held \in BOOLEAN
    BY NoticesAssumption
  <2>2. /\ setter[s] = "idle" /\ setter' = [setter EXCEPT ![s] = "notice"] /\ Change(s)
        /\ holding' = [holding EXCEPT ![s] = held] /\ UNCHANGED <<pendingNotices, marker, told, owed>>
    BY <1>1 DEF SetConnected, At
  <2>3. holding' \in [Setters -> BOOLEAN]
    BY <2>1, <2>2, NoticeParts DEF NoticeInv
  <2> QED BY <2>2, <2>3, ChangeKeeps
<1>2. CASE Reload
  <2>1. /\ NobodySets /\ ~link /\ ~everUp /\ everUp' = TRUE
        /\ UNCHANGED <<link, setter, noticing, wasEverUp, holding, pendingNotices, marker, told, owed, changes>>
    BY <1>2 DEF Reload
  <2>2. pendingNotices = <<>> /\ told = "none" /\ Marked /\ NobodySets'
    BY <2>1 DEF NoticeInv, NobodySets, ToQueue, ToMark
  <2>3. NoticeShape'
    BY <2>1, NoticeParts, NoticePartsNext DEF NoticeInv
  <2>4. Current' /\ Marked'
    BY <2>1, <2>2 DEF Current, Marked, LastNotice, Owing
  <2>5. \A s \in Setters : SetterInv(s)'
    BY <2>1, <2>2 DEF SetterInv, NobodySets, ToQueue
  <2> QED BY <2>1, <2>2, <2>3, <2>4, <2>5 DEF NoticeInv
<1>3. CASE Restart
  <2>1. /\ NobodySets /\ link' = FALSE /\ everUp' = FALSE /\ pendingNotices' = <<>> /\ told' = "none"
        /\ setter' = [s \in Setters |-> "idle"] /\ noticing' = [s \in Setters |-> "lost"]
        /\ wasEverUp' = [s \in Setters |-> FALSE] /\ holding' = [s \in Setters |-> FALSE]
        /\ UNCHANGED <<marker, owed, changes>>
    BY <1>3 DEF Restart
  <2>2. pendingNotices = <<>> /\ Marked /\ NobodySets'
    BY <2>1 DEF NoticeInv, NobodySets, ToQueue, ToMark
  <2>3. <<>> \in Seq(Notices) /\ Len(<<>>) = 0 /\ changes \in Nat /\ changes \in 0..MaxChanges
    BY NoticeParts, NoticesAssumption DEF NoticeInv
  <2>4. NoticeShape'
    <3>1. link' \in BOOLEAN /\ everUp' \in BOOLEAN /\ marker' \in BOOLEAN /\ owed' \in BOOLEAN
      BY <2>1, NoticeParts DEF NoticeInv
    <3>2. pendingNotices' \in Seq(Notices) /\ Len(pendingNotices') <= changes' /\ changes' \in 0..MaxChanges
      BY <2>1, <2>3
    <3> QED BY <2>1, <3>1, <3>2, NoticePartsNext DEF Notices
  <2>5. Current' /\ Marked'
    BY <2>1, <2>2 DEF Current, Marked, LastNotice, Owing
  <2>6. \A s \in Setters : SetterInv(s)'
    BY <2>1 DEF SetterInv, ToQueue
  <2> QED BY <2>1, <2>2, <2>4, <2>5, <2>6 DEF NoticeInv
<1>4. CASE UNCHANGED noticeVars
  <2>1. UNCHANGED <<link, everUp, setter, noticing, wasEverUp, holding, pendingNotices, marker, told, owed, changes>>
    BY <1>4 DEF noticeVars
  <2>2. NoticeShape'
    BY <2>1, NoticeParts, NoticePartsNext DEF NoticeInv
  <2> QED BY <2>1, <2>2 DEF NoticeInv, SetterInv, NobodySets, ToQueue, ToMark, Current, Marked, LastNotice, Owing
<1> QED BY <1>1, <1>2, <1>3, <1>4, QueueRestoredKeeps, QueueLostKeeps, DeliverKeeps, MarkKeeps, ReleaseKeeps
        DEF NoticesNext

\* For any number of changes, reloads, restarts and regions that hold their
\* notices: when nothing is on its way, the last notice the operator got says
\* what the connection is, and a reported outage was answered once the
\* connection was back, by this run or by one before. Of a transport one thread
\* connects, in a process that does not die with a notice on its way.
THEOREM NoticesStayTrue ==
  OneSetter /\ ~CrashesMidway => (NoticesSpec => [](NoticesTypeOK /\ NoticesAreTrue))
<1> SUFFICES ASSUME OneSetter, ~CrashesMidway PROVE NoticesSpec => [](NoticesTypeOK /\ NoticesAreTrue)
  OBVIOUS
<1>1. NoticeInv => NoticesTypeOK /\ NoticesAreTrue
  <2> SUFFICES ASSUME NoticeInv PROVE NoticesTypeOK /\ NoticesAreTrue
    OBVIOUS
  <2>1. Quiet => Current /\ Marked
    BY DEF NoticeInv, Quiet, NobodySets, ToQueue, ToMark
  <2>2. Quiet => LastNotice = told /\ (Owing <=> owed)
    BY DEF Quiet, LastNotice, Owing
  <2>3. LastNoticeIsTrue /\ OutageIsAnswered
    BY <2>1, <2>2 DEF LastNoticeIsTrue, OutageIsAnswered, Current, Marked
  <2> QED BY <2>3 DEF NoticesAreTrue, NoticeInv, NoticeShape
<1>2. NoticeInv /\ [NoticesNext]_noticeVars => NoticeInv'
  BY NoticesKeep
<1> QED BY NoticeStart, <1>1, <1>2, PTL DEF NoticesSpec

----------------------------------------------------------------------------
(* Commands. A device's topics at a gateway change once, when its          *)
(* init_bridge() is called and before anything of it is announced there.   *)

Ready(d) == d \notin ToSet(toInit)
IsControl(c) == c[3] \in Controls

\* The devices that a gateway knows are initialised, and only these have topics or
\* announcements; a gateway that is not built yet knows none.
KnownInv ==
    /\ toInit \in Seq(MqttBridged) /\ IsInjective(toInit)
    /\ starts = 0 => toInit = <<>>
    /\ \A g \in Gateways : g > starts => known[g] = {}
    /\ \A g \in Gateways : \A t \in topics[g] : t[1] \in known[g]
    /\ \A a \in toAnnounce : a.of[1] \in known[a.by]
    /\ starts > 0 => \A d \in known[starts] : Ready(d)

\* Unless the selections changed meanwhile, the topics of the initialised devices are theirs.
TopicsInv ==
    starts > 0 /\ ~reselected =>
        /\ topics[starts] \subseteq selected
        /\ \A t \in selected : Ready(t[1]) => t \in topics[starts]

\* A control was accepted by a gateway that knew its device, and so it stays.
ControlsInv ==
    \A c \in configs : IsControl(c) =>
        \E g \in 1..starts : <<c[1], c[2]>> \in topics[g] /\ c[1] \in known[g]

RoutedInv ==
    \A r \in routed :
        r.by \in listening /\ r.for \in topics[r.by] /\ (r.by = starts \/ r.for[2] \in Switches)

\* Alone, the current gateway makes all announcements, and what it has announced of a
\* device is as planned.
AnnouncedInv ==
    /\ starts > 0 => starts \in listening
    /\ listening = {starts} =>
        /\ \A a \in toAnnounce : a.by = starts
        /\ \A t \in MqttBridged \X Entities :
              Ready(t[1]) /\ [by |-> starts, of |-> t] \notin toAnnounce =>
                  Platforms(t) \cap {"sensor", Native(starts, t)} = Planned(starts, t)

CommandInv ==
    CommandTypeOK /\ KnownInv /\ TopicsInv /\ ControlsInv /\ RoutedInv /\ AnnouncedInv

LEMMA CommandNumbers ==
  /\ MaxStarts \in Nat /\ MaxStarts > 0 /\ DeviceOrder \in Seq(MqttBridged) /\ Writables \subseteq Entities
  /\ Switches \subseteq Writables /\ Numbers \subseteq Writables /\ Numbers \cap Switches = {}
  /\ IsInjective(DeviceOrder) /\ DeviceOrder[1] \in MqttBridged
  BY MqttCommandsAssumption DEF MqttBridged, Writables, Entities

\* What is announced of an entity is its one native platform, "sensor", or nothing.
LEMMA PlannedIsNative ==
  ASSUME NEW g \in Gateways, NEW t \in MqttBridged \X Entities, topics[g] \subseteq Topic
  PROVE  /\ Native(g, t) \in Components /\ Planned(g, t) \subseteq {"sensor", Native(g, t)}
         /\ StaleComponents(g, t) = {"sensor", Native(g, t)} \ Planned(g, t)
         /\ Planned(g, t) \subseteq Components
         /\ \A c \in Planned(g, t) : c \in Controls => t \in topics[g]
<1> USE CommandNumbers
<1>1. t \in topics[g] => t[2] \in Writables
  BY DEF Topic
<1>2. Native(g, t) \in Components /\ (Native(g, t) \in Controls => t \in topics[g])
  BY <1>1 DEF Native, Components, Controls, Writables
<1>3. Planned(g, t) \subseteq {"sensor", Native(g, t)}
  BY DEF Planned
<1> QED BY <1>2, <1>3 DEF StaleComponents, Components, Controls

LEMMA CommandStart == CommandInit => CommandInv
<1> SUFFICES ASSUME CommandInit PROVE CommandInv
  OBVIOUS
<1> USE CommandNumbers DEF CommandInit
<1>1. <<>> \in Seq(MqttBridged) /\ ToSet(<<>>) = {} /\ IsInjective(<<>>)
  BY DEF ToSet, IsInjective
<1>2. CommandTypeOK
  BY <1>1 DEF CommandTypeOK, Gateways
<1>3. KnownInv
  BY <1>1 DEF KnownInv
<1>4. TopicsInv /\ ControlsInv /\ RoutedInv
  BY DEF TopicsInv, ControlsInv, RoutedInv
<1>5. AnnouncedInv
  BY DEF AnnouncedInv
<1> QED BY <1>2, <1>3, <1>4, <1>5 DEF CommandInv

LEMMA SelectKeeps ==
  ASSUME CommandInv, SelectWrites
  PROVE  CommandInv'
<1> USE DEF CommandInv
<1>1. /\ selected' \subseteq Topic /\ reselected' = TRUE
      /\ UNCHANGED <<types, starts, topics, known, listening, toInit, toAnnounce, configs, routed>>
  BY DEF SelectWrites
<1>2. CommandTypeOK'
  BY <1>1 DEF CommandTypeOK
<1>3. KnownInv' /\ TopicsInv'
  BY <1>1 DEF KnownInv, TopicsInv, Ready
<1>4. ControlsInv' /\ RoutedInv'
  BY <1>1 DEF ControlsInv, RoutedInv, IsControl
<1>5. AnnouncedInv'
  BY <1>1 DEF AnnouncedInv, Ready, Platforms, Native, Planned
<1> QED BY <1>2, <1>3, <1>4, <1>5

\* The next gateway has no topics, and every device still to initialise.
LEMMA StartKeeps ==
  ASSUME CommandInv, StartGateway
  PROVE  CommandInv'
<1> USE CommandNumbers DEF CommandInv
<1>1. /\ starts < MaxStarts /\ starts' = starts + 1 /\ toInit' = DeviceOrder
      /\ \/ listening' = {starts'} /\ toAnnounce' = {}
         \/ listening' = listening \cup {starts'} /\ toAnnounce' = toAnnounce
      /\ reselected' = FALSE /\ routed' = {} /\ UNCHANGED <<selected, topics, known, configs>>
  BY DEF StartGateway
<1>2. starts \in Nat /\ starts' \in Gateways /\ starts' > starts /\ 1..starts \subseteq 1..starts' /\ starts' \in 1..starts'
  BY <1>1 DEF CommandTypeOK, Gateways
<1>3. ToSet(toInit') = MqttBridged
  BY <1>1 DEF MqttBridged
<1>4. \A d \in MqttBridged : ~Ready(d)'
  BY <1>1, <1>3 DEF Ready, ToSet
<1>5. CommandTypeOK'
  <2>1. PICK type \in DiscoveryTypes : types' = [types EXCEPT ![starts'] = type]
    BY DEF StartGateway
  <2>2. types' \in [Gateways -> DiscoveryTypes]
    BY <2>1 DEF CommandTypeOK
  <2>3. listening' \subseteq 1..starts' /\ toAnnounce' \subseteq [by : 1..starts', of : MqttBridged \X Entities]
    BY <1>1, <1>2 DEF CommandTypeOK
  <2>4. starts' \in 0..MaxStarts
    BY <1>2 DEF Gateways
  <2>5. ToSet(toInit)' \subseteq MqttBridged
    BY <1>1, <1>3 DEF ToSet
  <2> QED BY <1>1, <2>2, <2>3, <2>4, <2>5 DEF CommandTypeOK
<1>6. KnownInv'
  <2>1. known[starts'] = {}
    BY <1>2 DEF KnownInv
  <2>2. \A a \in toAnnounce' : a.of[1] \in known[a.by]
    BY <1>1 DEF KnownInv
  <2>3. \A g \in Gateways : g > starts' => known[g] = {}
    BY <1>1, <1>2 DEF KnownInv, Gateways
  <2>4. starts' # 0
    BY <1>2
  <2> QED BY <1>1, <2>1, <2>2, <2>3, <2>4 DEF KnownInv
<1>7. TopicsInv'
  <2>1. topics[starts'] = {}
    <3>1. \A t \in topics[starts'] : t[1] \in known[starts'] /\ known[starts'] = {}
      BY <1>2 DEF KnownInv
    <3> QED BY <3>1
  <2>2. \A t \in selected : t[1] \in MqttBridged
    BY DEF CommandTypeOK, Topic
  <2> QED BY <1>1, <1>4, <2>1, <2>2 DEF TopicsInv
<1>8. ControlsInv'
  BY <1>1, <1>2 DEF ControlsInv, IsControl
<1>9. RoutedInv'
  BY <1>1 DEF RoutedInv
<1>10. AnnouncedInv'
  <2>1. starts' \in listening'
    BY <1>1
  <2>2. ASSUME listening' = {starts'} PROVE \A a \in toAnnounce' : a.by = starts'
    <3>1. CASE toAnnounce' = {}
      BY <3>1
    <3>2. CASE toAnnounce' = toAnnounce /\ listening' = listening \cup {starts'}
      <4>1. starts = 0
        BY <1>2, <2>2, <3>2 DEF AnnouncedInv
      <4>2. 1..starts = {}
        BY <4>1
      <4> QED BY <3>2, <4>2 DEF CommandTypeOK
    <3> QED BY <1>1, <3>1, <3>2
  <2>3. \A t \in MqttBridged \X Entities : ~Ready(t[1])'
    BY <1>4
  <2> QED BY <2>1, <2>2, <2>3 DEF AnnouncedInv
<1> QED BY <1>5, <1>6, <1>7, <1>8, <1>9, <1>10

LEMMA HeadOfDevices ==
  ASSUME NEW q \in Seq(MqttBridged), q # <<>>
  PROVE  /\ Head(q) \in MqttBridged /\ Tail(q) \in Seq(MqttBridged)
         /\ ToSet(q) = {Head(q)} \cup ToSet(Tail(q)) /\ ToSet(q) \subseteq MqttBridged
<1>1. Len(q) \in Nat /\ Len(q) > 0 /\ Head(q) = q[1] /\ Len(Tail(q)) = Len(q) - 1 /\ Head(q) \in MqttBridged
  OBVIOUS
<1>2. \A j \in 1..Len(Tail(q)) : Tail(q)[j] = q[j + 1]
  OBVIOUS
<1>3. Tail(q) \in Seq(MqttBridged) /\ DOMAIN q = 1..Len(q) /\ DOMAIN Tail(q) = 1..Len(Tail(q))
  OBVIOUS
<1>4. ASSUME NEW x \in ToSet(q) PROVE x \in {Head(q)} \cup ToSet(Tail(q))
  <2>1. PICK i \in 1..Len(q) : x = q[i]
    BY <1>3, <1>4 DEF ToSet
  <2>2. CASE i = 1
    BY <1>1, <2>1, <2>2
  <2>3. CASE i # 1
    <3>1. i - 1 \in 1..Len(Tail(q)) /\ (i - 1) + 1 = i
      BY <1>1, <2>3
    <3>2. Tail(q)[i - 1] = q[i]
      BY <1>2, <3>1
    <3> QED BY <1>3, <2>1, <3>1, <3>2 DEF ToSet
  <2> QED BY <2>2, <2>3
<1>5. ASSUME NEW x \in {Head(q)} \cup ToSet(Tail(q)) PROVE x \in ToSet(q)
  <2>1. CASE x = Head(q)
    <3>1. 1 \in DOMAIN q
      BY <1>1, <1>3
    <3> QED BY <1>1, <2>1, <3>1 DEF ToSet
  <2>2. CASE x \in ToSet(Tail(q))
    <3>1. PICK j \in 1..Len(Tail(q)) : x = Tail(q)[j]
      BY <1>3, <2>2 DEF ToSet
    <3>2. j + 1 \in DOMAIN q
      BY <1>1, <1>3
    <3> QED BY <1>2, <3>1, <3>2 DEF ToSet
  <2> QED BY <1>5, <2>1, <2>2
<1>6. ToSet(q) \subseteq MqttBridged
  BY DEF ToSet
<1> QED BY <1>1, <1>3, <1>4, <1>5, <1>6


\* The tail of a sequence without repetitions has none, and not its head.
LEMMA TailOfDevices ==
  ASSUME NEW q \in Seq(MqttBridged), q # <<>>, IsInjective(q)
  PROVE  IsInjective(Tail(q)) /\ Head(q) \notin ToSet(Tail(q))
<1>1. /\ Len(q) \in Nat /\ Len(q) > 0 /\ Head(q) = q[1] /\ Len(Tail(q)) = Len(q) - 1
      /\ DOMAIN q = 1..Len(q) /\ DOMAIN Tail(q) = 1..Len(Tail(q))
  OBVIOUS
<1>2. \A i \in DOMAIN Tail(q) : Tail(q)[i] = q[i + 1] /\ i + 1 \in DOMAIN q /\ i + 1 # 1
  BY <1>1
<1>3. \A i \in DOMAIN q, j \in DOMAIN q : q[i] = q[j] => i = j
  BY DEF IsInjective
<1>4. IsInjective(Tail(q))
  <2> SUFFICES ASSUME NEW i \in DOMAIN Tail(q), NEW j \in DOMAIN Tail(q), Tail(q)[i] = Tail(q)[j] PROVE i = j
    BY DEF IsInjective
  <2>1. i + 1 = j + 1
    BY <1>2, <1>3
  <2>2. i \in Nat /\ j \in Nat
    BY <1>1
  <2> QED BY <2>1, <2>2
<1>5. Head(q) \notin ToSet(Tail(q))
  <2> SUFFICES ASSUME Head(q) \in ToSet(Tail(q)) PROVE FALSE
    OBVIOUS
  <2>1. PICK i \in DOMAIN Tail(q) : Tail(q)[i] = Head(q)
    BY DEF ToSet
  <2>2. 1 \in DOMAIN q
    BY <1>1
  <2> QED BY <1>1, <1>2, <1>3, <2>1, <2>2
<1> QED BY <1>4, <1>5

LEMMA InitBridgeKeeps ==
  ASSUME CommandInv, InitBridge
  PROVE  CommandInv'
<1> USE CommandNumbers DEF CommandInv
<1>1. PICK d : d = Head(toInit)
  OBVIOUS
<1>2. /\ toInit # <<>> /\ toInit' = Tail(toInit)
      /\ topics' = [topics EXCEPT ![starts] = {t \in topics[starts] : t[1] # d} \cup Allowed(d)]
      /\ known' = [known EXCEPT ![starts] = known[starts] \cup {d}]
      /\ toAnnounce' = toAnnounce \cup Announcements(starts, {d})
      /\ UNCHANGED <<types, selected, starts, listening, configs, routed, reselected>>
  BY <1>1 DEF InitBridge
<1>3. /\ d \in MqttBridged /\ toInit' \in Seq(MqttBridged) /\ ToSet(toInit) = {d} \cup ToSet(toInit')
      /\ ToSet(toInit') \subseteq MqttBridged /\ IsInjective(toInit') /\ d \notin ToSet(toInit')
  BY <1>1, <1>2, HeadOfDevices, TailOfDevices DEF KnownInv
<1>4. starts > 0 /\ starts \in Gateways /\ starts \in 1..starts
  BY <1>2 DEF KnownInv, CommandTypeOK, Gateways
<1>5. Allowed(d) = {t \in selected : t[1] = d} /\ Allowed(d) \subseteq Topic
  BY DEF Allowed, CommandTypeOK, Topic
<1>6. /\ topics' \in [Gateways -> SUBSET Topic] /\ \A g \in Gateways : g # starts => topics'[g] = topics[g]
      /\ topics'[starts] = {t \in topics[starts] : t[1] # d} \cup {t \in selected : t[1] = d}
  BY <1>2, <1>4, <1>5 DEF CommandTypeOK
<1>7. /\ known' \in [Gateways -> SUBSET MqttBridged] /\ \A g \in Gateways : g # starts => known'[g] = known[g]
      /\ known'[starts] = known[starts] \cup {d}
  BY <1>2, <1>3, <1>4 DEF CommandTypeOK
\* d is new to the gateway, so none of its topics is replaced.
<1>8. d \notin known[starts] /\ \A t \in topics[starts] : t[1] # d /\ t \in topics'[starts]
  BY <1>3, <1>4, <1>6 DEF KnownInv, Ready
<1>9. \A g \in Gateways : topics[g] \subseteq topics'[g] /\ known[g] \subseteq known'[g]
  BY <1>6, <1>7, <1>8
<1>10. toAnnounce' = toAnnounce \cup {[by |-> starts, of |-> t] : t \in {d} \X Entities}
  BY <1>2 DEF Announcements
<1>11. CommandTypeOK'
  <2>1. toAnnounce' \subseteq [by : 1..starts, of : MqttBridged \X Entities]
    BY <1>3, <1>4, <1>10 DEF CommandTypeOK
  <2>2. ToSet(toInit)' \subseteq MqttBridged
    BY <1>2, <1>3
  <2> QED BY <1>2, <1>6, <1>7, <2>1, <2>2 DEF CommandTypeOK
<1>12. KnownInv'
  <2>1. \A g \in Gateways : g > starts => known'[g] = {}
    BY <1>4, <1>7 DEF KnownInv, Gateways
  <2>2. \A g \in Gateways : \A t \in topics'[g] : t[1] \in known'[g]
    BY <1>6, <1>7, <1>8 DEF KnownInv
  <2>3. \A a \in toAnnounce' : a.of[1] \in known'[a.by]
    <3>1. ASSUME NEW a \in toAnnounce PROVE a.of[1] \in known'[a.by]
      <4>1. a.by \in Gateways /\ a.of[1] \in known[a.by]
        BY DEF KnownInv, CommandTypeOK, Gateways
      <4> QED BY <1>9, <4>1
    <3>2. ASSUME NEW t \in {d} \X Entities PROVE d \in known'[starts] /\ t[1] = d
      BY <1>7
    <3> QED BY <1>10, <3>1, <3>2
  <2>4. \A e \in known'[starts] : e \notin ToSet(toInit')
    BY <1>3, <1>4, <1>7 DEF KnownInv, Ready
  <2>5. /\ starts' = starts /\ starts # 0 /\ toInit' \in Seq(MqttBridged) /\ IsInjective(toInit')
        /\ \A e \in known'[starts'] : Ready(e)'
    BY <1>2, <1>3, <1>4, <2>4 DEF Ready
  <2> QED BY <2>1, <2>2, <2>3, <2>5 DEF KnownInv
<1>13. \A e : Ready(e)' => e = d \/ Ready(e)
  BY <1>3 DEF Ready
<1>14. TopicsInv'
  <2> SUFFICES ASSUME ~reselected
               PROVE  topics'[starts] \subseteq selected /\ \A t \in selected : Ready(t[1])' => t \in topics'[starts]
    BY <1>2 DEF TopicsInv
  <2>1. topics'[starts] \subseteq selected
    BY <1>4, <1>6 DEF TopicsInv
  <2>2. ASSUME NEW t \in selected, Ready(t[1])' PROVE t \in topics'[starts]
    BY <1>4, <1>6, <1>13, <2>2 DEF TopicsInv
  <2> QED BY <2>1, <2>2
<1>15. ControlsInv'
  <2> SUFFICES ASSUME NEW c \in configs, IsControl(c)
               PROVE  \E g \in 1..starts : <<c[1], c[2]>> \in topics'[g] /\ c[1] \in known'[g]
    BY <1>2 DEF ControlsInv, IsControl
  <2>1. PICK g \in 1..starts : <<c[1], c[2]>> \in topics[g] /\ c[1] \in known[g]
    BY DEF ControlsInv
  <2>2. g \in Gateways
    BY DEF CommandTypeOK, Gateways
  <2> QED BY <1>9, <2>1, <2>2
<1>16. RoutedInv'
  <2> SUFFICES ASSUME NEW r \in routed
               PROVE  r.by \in listening /\ r.for \in topics'[r.by] /\ (r.by = starts \/ r.for[2] \in Switches)
    BY <1>2 DEF RoutedInv
  <2>1. r.by \in Gateways
    BY DEF CommandTypeOK, Gateways
  <2> QED BY <1>9, <2>1 DEF RoutedInv
<1>17. AnnouncedInv'
  <2>1. starts' = starts /\ listening' = listening /\ configs' = configs /\ types' = types
    BY <1>2
  <2>2. starts \in listening
    BY <1>4 DEF AnnouncedInv
  <2>3. ASSUME listening = {starts} PROVE \A a \in toAnnounce' : a.by = starts
    BY <1>10, <2>3 DEF AnnouncedInv
  <2>4. ASSUME listening = {starts}, NEW t \in MqttBridged \X Entities, Ready(t[1])',
               [by |-> starts, of |-> t] \notin toAnnounce'
        PROVE  (Platforms(t) \cap {"sensor", Native(starts, t)} = Planned(starts, t))'
    <3>1. t[1] # d
      <4>1. t[1] = d => t \in {d} \X Entities
        OBVIOUS
      <4> QED BY <1>10, <2>4, <4>1
    <3>2. Platforms(t) \cap {"sensor", Native(starts, t)} = Planned(starts, t)
      BY <1>10, <1>13, <2>4, <3>1 DEF AnnouncedInv
    <3>3. t \in topics[starts] <=> t \in topics'[starts]
      BY <1>6, <3>1
    <3>4. Native(starts, t)' = Native(starts, t)
      BY <2>1, <3>3 DEF Native
    <3>5. Platforms(t)' = Platforms(t)
      BY <2>1 DEF Platforms
    <3>6. Planned(starts, t)' = Planned(starts, t)
      BY <2>1, <3>4 DEF Planned
    <3> QED BY <3>2, <3>4, <3>5, <3>6
  <2> QED BY <2>1, <2>2, <2>3, <2>4 DEF AnnouncedInv
<1> QED BY <1>11, <1>12, <1>14, <1>15, <1>16, <1>17

LEMMA AnnounceKeeps ==
  ASSUME CommandInv, Announce
  PROVE  CommandInv'
<1> USE CommandNumbers DEF CommandInv
<1>1. PICK a \in toAnnounce :
        /\ configs' = {c \in configs : ~(<<c[1], c[2]>> = a.of /\ c[3] \in StaleComponents(a.by, a.of))}
                         \cup {<<a.of[1], a.of[2], c>> : c \in Planned(a.by, a.of)}
        /\ toAnnounce' = toAnnounce \ {a}
        /\ UNCHANGED <<types, selected, starts, topics, known, listening, toInit, routed, reselected>>
  BY DEF Announce
<1>2. PICK g, u : g = a.by /\ u = a.of
  OBVIOUS
<1>3. /\ a = [by |-> g, of |-> u] /\ g \in 1..starts /\ g \in Gateways /\ starts \in Nat
      /\ u \in MqttBridged \X Entities /\ u[1] \in known[g]
  BY <1>2 DEF CommandTypeOK, KnownInv, Gateways
<1>4. u = <<u[1], u[2]>> /\ u[1] \in MqttBridged /\ u[2] \in Entities
  BY <1>3
<1>5. topics[g] \subseteq Topic
  BY <1>3 DEF CommandTypeOK
<1>6. /\ Planned(g, u) \subseteq {"sensor", Native(g, u)} /\ Planned(g, u) \subseteq Components
      /\ StaleComponents(g, u) = {"sensor", Native(g, u)} \ Planned(g, u)
      /\ \A c \in Planned(g, u) : c \in Controls => u \in topics[g]
  BY <1>3, <1>5, PlannedIsNative
<1>7. configs' = {c \in configs : ~(<<c[1], c[2]>> = u /\ c[3] \in StaleComponents(g, u))}
                    \cup {<<u[1], u[2], c>> : c \in Planned(g, u)}
  BY <1>1, <1>2
<1>8. configs \subseteq MqttBridged \X Entities \X Components
  BY DEF CommandTypeOK
<1>9. CommandTypeOK'
  <2>1. configs' \subseteq MqttBridged \X Entities \X Components
    BY <1>4, <1>6, <1>7, <1>8
  <2> QED BY <1>1, <2>1 DEF CommandTypeOK
<1>10. KnownInv'
  BY <1>1 DEF KnownInv, Ready
<1>11. TopicsInv' /\ RoutedInv'
  BY <1>1 DEF TopicsInv, RoutedInv, Ready
<1>12. ControlsInv'
  <2> SUFFICES ASSUME NEW c \in configs', IsControl(c)
               PROVE  \E h \in 1..starts : <<c[1], c[2]>> \in topics[h] /\ c[1] \in known[h]
    BY <1>1 DEF ControlsInv, IsControl
  <2>1. CASE c \in configs
    BY <2>1 DEF ControlsInv
  <2>2. CASE c \in {<<u[1], u[2], x>> : x \in Planned(g, u)}
    <3>1. c[1] = u[1] /\ <<c[1], c[2]>> = u /\ c[3] \in Planned(g, u)
      BY <1>4, <2>2
    <3>2. u \in topics[g]
      BY <1>6, <3>1 DEF IsControl
    <3> QED BY <1>3, <3>1, <3>2
  <2> QED BY <1>7, <2>1, <2>2
<1>13. AnnouncedInv'
  <2>1. /\ starts' = starts /\ listening' = listening /\ types' = types /\ topics' = topics /\ toInit' = toInit
        /\ (starts > 0 => starts \in listening)
    BY <1>1 DEF AnnouncedInv
  <2>2. ASSUME listening = {starts} PROVE \A b \in toAnnounce' : b.by = starts
    BY <1>1, <2>2 DEF AnnouncedInv
  <2>3. ASSUME listening = {starts}, NEW t \in MqttBridged \X Entities, Ready(t[1]),
               [by |-> starts, of |-> t] \notin toAnnounce'
        PROVE  Platforms(t)' \cap {"sensor", Native(starts, t)} = Planned(starts, t)
    <3>1. g = starts
      BY <1>2, <2>3 DEF AnnouncedInv
    <3>2. CASE t = u
      <4>1. \A c \in Components : <<t[1], t[2], c>> \in configs' <=>
              (<<t[1], t[2], c>> \in configs /\ c \notin StaleComponents(starts, t)) \/ c \in Planned(starts, t)
        BY <1>4, <1>7, <3>1, <3>2
      <4>2. \A c \in Components : c \in Platforms(t)' <=>
              (c \in Platforms(t) /\ c \notin StaleComponents(starts, t)) \/ c \in Planned(starts, t)
        BY <4>1 DEF Platforms
      <4>3. Platforms(t)' \subseteq Components
        BY DEF Platforms
      <4> QED BY <1>6, <3>1, <3>2, <4>2, <4>3
    <3>3. CASE t # u
      <4>1. [by |-> starts, of |-> t] \notin toAnnounce
        BY <1>1, <1>3, <2>3, <3>3
      <4>2. t = <<t[1], t[2]>> /\ <<t[1], t[2]>> # u
        BY <3>3
      <4>3. \A c \in Components : <<t[1], t[2], c>> \in configs' <=> <<t[1], t[2], c>> \in configs
        BY <1>4, <1>7, <4>2
      <4>4. Platforms(t)' = Platforms(t)
        BY <4>3 DEF Platforms
      <4> QED BY <2>3, <4>1, <4>4 DEF AnnouncedInv
    <3> QED BY <3>2, <3>3
  <2>4. \A t : Native(starts, t)' = Native(starts, t) /\ Planned(starts, t)' = Planned(starts, t)
    BY <2>1 DEF Native, Planned
  <2> QED BY <2>1, <2>2, <2>3, <2>4 DEF AnnouncedInv, Ready
<1> QED BY <1>9, <1>10, <1>11, <1>12, <1>13

LEMMA HomeAssistantKeeps ==
  ASSUME CommandInv, HomeAssistantStarts
  PROVE  CommandInv'
<1> USE CommandNumbers DEF CommandInv
<1>1. PICK g \in listening :
        /\ toAnnounce' = toAnnounce \cup Announcements(g, known[g])
        /\ UNCHANGED <<types, selected, starts, topics, known, listening, toInit, configs, routed, reselected>>
  BY DEF HomeAssistantStarts
<1>2. g \in 1..starts /\ g \in Gateways /\ known[g] \subseteq MqttBridged
  BY DEF CommandTypeOK, Gateways
<1>3. toAnnounce' = toAnnounce \cup {[by |-> g, of |-> t] : t \in known[g] \X Entities}
  BY <1>1 DEF Announcements
<1>4. CommandTypeOK'
  <2>1. toAnnounce' \subseteq [by : 1..starts, of : MqttBridged \X Entities]
    BY <1>2, <1>3 DEF CommandTypeOK
  <2> QED BY <1>1, <2>1 DEF CommandTypeOK
<1>5. KnownInv'
  <2>1. \A a \in toAnnounce' : a.of[1] \in known[a.by]
    BY <1>3 DEF KnownInv
  <2> QED BY <1>1, <2>1 DEF KnownInv, Ready
<1>6. TopicsInv' /\ ControlsInv' /\ RoutedInv'
  BY <1>1 DEF TopicsInv, ControlsInv, RoutedInv, Ready, IsControl
<1>7. AnnouncedInv'
  <2>1. listening = {starts} => \A a \in toAnnounce' : a.by = starts
    BY <1>3 DEF AnnouncedInv
  <2>2. toAnnounce \subseteq toAnnounce'
    BY <1>3
  <2>3. \A t : /\ Native(starts, t)' = Native(starts, t) /\ Planned(starts, t)' = Planned(starts, t)
               /\ Platforms(t)' = Platforms(t)
    BY <1>1 DEF Native, Planned, Platforms
  <2> QED BY <1>1, <2>1, <2>2, <2>3 DEF AnnouncedInv, Ready
<1> QED BY <1>4, <1>5, <1>6, <1>7

LEMMA CommandKeeps ==
  ASSUME CommandInv, Command
  PROVE  CommandInv'
<1> USE CommandNumbers DEF CommandInv
<1>1. PICK t \in Topic :
        /\ routed' = {[for |-> t, to |-> w, by |-> g] : w \in RouteTo(t), g \in {h \in listening : Obeys(h, t)}}
        /\ UNCHANGED <<types, selected, starts, topics, known, listening, toInit, toAnnounce, configs, reselected>>
  BY DEF Command
<1>2. <<DeviceOrder[1], t[2]>> \in Topic
  BY DEF Topic
<1>3. \A r \in routed' : \E h \in listening :
        r = [for |-> t, to |-> <<DeviceOrder[1], t[2]>>, by |-> h] /\ Obeys(h, t)
  BY <1>1 DEF RouteTo
<1>4. CommandTypeOK'
  <2>1. routed' \subseteq [for : Topic, to : Topic, by : 1..starts]
    BY <1>2, <1>3 DEF CommandTypeOK
  <2> QED BY <1>1, <2>1 DEF CommandTypeOK
<1>5. RoutedInv'
  <2>1. \A r \in routed' :
          r.by \in listening /\ r.for \in topics[r.by] /\ (r.by = starts \/ r.for[2] \in Switches)
    BY <1>3 DEF Obeys
  <2> QED BY <1>1, <2>1 DEF RoutedInv
<1>6. KnownInv' /\ TopicsInv' /\ ControlsInv'
  BY <1>1 DEF KnownInv, TopicsInv, ControlsInv, Ready, IsControl
<1>7. AnnouncedInv'
  BY <1>1 DEF AnnouncedInv, Ready, Platforms, Native, Planned
<1> QED BY <1>4, <1>5, <1>6, <1>7

LEMMA CommandsKeep ==
  ASSUME CommandInv, [CommandNext]_commandVars
  PROVE  CommandInv'
<1>1. CASE UNCHANGED commandVars
  BY <1>1 DEF commandVars, CommandInv, CommandTypeOK, KnownInv, TopicsInv, ControlsInv, RoutedInv, AnnouncedInv,
              Ready, IsControl, Platforms, Native, Planned
<1> QED BY <1>1, SelectKeeps, StartKeeps, InitBridgeKeeps, AnnounceKeeps, HomeAssistantKeeps, CommandKeeps
        DEF CommandNext

\* For any devices and entities, through selections made and taken back, starts and
\* reloads, discoveries and commands: a gateway started with unchanged selections accepts
\* those on every device and no others; what was taken back is not carried out for its
\* topic, but for a coil's by a stopped gateway that listens on; a control that was
\* announced was accepted by the gateway that did; and one that listens alone announces
\* every entity as it plans to.
THEOREM CommandsStaySelected == CommandSpec => [](CommandTypeOK /\ CommandsAreSelected)
<1>1. CommandInv => CommandTypeOK /\ CommandsAreSelected
  <2> SUFFICES ASSUME CommandInv PROVE CommandTypeOK /\ CommandsAreSelected
    OBVIOUS
  <2> USE DEF CommandInv
  <2>1. Started => \A d : Ready(d)
    BY DEF Started, Ready, ToSet
  <2>2. TopicsAreTheSelection
    BY <2>1 DEF TopicsAreTheSelection, Settled, Started, TopicsInv
  <2>3. WithdrawalTakesEffect
    BY <2>2 DEF WithdrawalTakesEffect, TopicsAreTheSelection, RoutedInv
  <2>4. OffersWereAccepted
    BY DEF OffersWereAccepted, ControlsInv, IsControl
  <2>5. AnnouncedAsPlanned
    <3> SUFFICES ASSUME Started, listening = {starts}, NEW t \in MqttBridged \X Entities
                 PROVE  Platforms(t) \cap {"sensor", Native(starts, t)} = Planned(starts, t)
      BY DEF AnnouncedAsPlanned
    <3>1. [by |-> starts, of |-> t] \notin toAnnounce
      BY DEF Started, Announcing
    <3> QED BY <2>1, <3>1 DEF AnnouncedInv
  <2> QED BY <2>2, <2>3, <2>4, <2>5 DEF CommandsAreSelected
<1>2. CommandInv /\ [CommandNext]_commandVars => CommandInv'
  BY CommandsKeep
<1> QED BY CommandStart, <1>1, <1>2, PTL DEF CommandSpec

----------------------------------------------------------------------------
(* The watch on frozen devices.                                            *)

\* A scraper reports the same fields in every reading, and some.
SameFields == {} \notin Reports /\ \A S, T \in Reports : S = T

\* Between readings the record holds what was reported last, counts as many requests
\* as were made since it changed, and is at least as patient as it should be.
WatchInv ==
    /\ WatchTypeOK /\ reported = lastRow
    /\ lastRow # NoRow => DOMAIN lastRow \in Reports /\ startAge <= quietAge
    /\ asked = staleEvents /\ askAge = eventAge
    /\ staleEvents # 0 \/ eventAge # Never => lastRow # NoRow /\ startAge > StaleTimeout
    /\ kind = "influx" /\ steadyAge # Never => lastRow = device /\ lastRow # NoRow /\ steadyAge <= startAge

LEMMA WatchConstants ==
    /\ StaleTimeout \in Nat /\ StaleTimeout >= 1 /\ RetryDelay \in Nat /\ MaxStaleAttempts \in Nat
    /\ Reports \subseteq SUBSET Metrics /\ WatchKinds \subseteq {"influx", "timescale"}
    /\ Horizon \in Nat /\ Horizon > StaleTimeout /\ Horizon > RetryDelay /\ Never = Horizon + 1
  BY WatchAssumption DEF Horizon, Never

LEMMA EmptyRow ==
    /\ DOMAIN NoRow = {} /\ NoRow \in Rows /\ NoRow \in UNION {[S -> MetricValues] : S \in SUBSET Metrics}
    /\ \A f \in Rows : DOMAIN f = {} <=> f = NoRow
<1>1. NoRow = [m \in {} |-> 0] /\ DOMAIN NoRow = {} /\ NoRow \in Rows
  BY DEF NoRow, Rows
<1>2. NoRow \in [{} -> MetricValues]
  BY DEF NoRow
<1>3. {} \in SUBSET Metrics
  OBVIOUS
<1>4. NoRow \in UNION {[S -> MetricValues] : S \in SUBSET Metrics}
  BY <1>2, <1>3
<1>5. ASSUME NEW f \in Rows, DOMAIN f = {} PROVE f = NoRow
  <2>1. CASE f = NoRow
    BY <2>1
  <2>2. CASE f # NoRow
    <3>1. PICK S \in Reports : f \in [S -> MetricValues]
      BY <2>2 DEF Rows
    <3>2. f = [m \in DOMAIN f |-> f[m]]
      BY <3>1
    <3> QED
      BY <3>2, <1>5 DEF NoRow
  <2> QED
    BY <2>1, <2>2
<1> QED
  BY <1>1, <1>4, <1>5

LEMMA OlderAge ==
  ASSUME NEW a \in Ages
  PROVE  /\ Older(a) \in Ages /\ a <= Older(a) /\ Older(a) >= 1
         /\ \A b \in Ages : a <= b => Older(a) <= Older(b)
  BY WatchConstants DEF Older, Ages

LEMMA WatchInitially == WatchInit => WatchInv
<1> SUFFICES ASSUME WatchInit PROVE WatchInv
  OBVIOUS
<1> USE DEF WatchInit
<1>1. {startAge, quietAge} \subseteq Ages /\ {eventAge, askAge, steadyAge} \subseteq Ages \cup {Never}
  BY WatchConstants DEF Ages
<1>2. staleEvents \in 0..MaxStaleAttempts /\ asked \in Nat
  BY WatchConstants
<1>5. staleNow \in BOOLEAN
  OBVIOUS
<1>3. lastRow \in Rows /\ reported \in UNION {[S -> MetricValues] : S \in SUBSET Metrics}
  BY EmptyRow
<1>4. WatchTypeOK
  BY <1>1, <1>2, <1>3, <1>5 DEF WatchTypeOK
<1> QED
  BY <1>4 DEF WatchInv

\* What write_data() makes of a reading, of a scraper whose fields are always the same.
LEMMA ReadingIs ==
  ASSUME WatchInv, SameFields, NEW S \in Reports
  PROVE  LET row == [m \in S |-> device[m]]
         IN /\ row \in Rows /\ row # NoRow /\ DOMAIN row = S
            /\ row \in UNION {[D -> MetricValues] : D \in SUBSET Metrics}
            /\ RowChanged(row) <=> lastRow # row
            /\ [m \in DOMAIN reported \cup DOMAIN row |->
                   IF m \in DOMAIN row THEN row[m] ELSE reported[m]] = row
            /\ (\E m \in DOMAIN row : m \in DOMAIN reported /\ row[m] # reported[m])
                  <=> lastRow # NoRow /\ lastRow # row
<1> DEFINE row == [m \in S |-> device[m]]
<1> HIDE DEF row
<1>1. S \subseteq Metrics /\ S # {} /\ device \in [Metrics -> MetricValues]
  BY WatchConstants DEF SameFields, WatchInv, WatchTypeOK
<1>2. row \in [S -> MetricValues]
  BY <1>1 DEF row
<1>3. row \in Rows /\ DOMAIN row = S /\ row # NoRow
  BY <1>1, <1>2, EmptyRow DEF Rows
<1>4. row \in UNION {[D -> MetricValues] : D \in SUBSET Metrics}
  BY <1>1, <1>2
<1>5. lastRow # NoRow => lastRow \in [S -> MetricValues]
  <2> SUFFICES ASSUME lastRow # NoRow PROVE lastRow \in [S -> MetricValues]
    OBVIOUS
  <2>1. PICK D \in Reports : lastRow \in [D -> MetricValues]
    BY DEF WatchInv, WatchTypeOK, Rows
  <2> QED
    BY <2>1 DEF SameFields
<1>6. reported = lastRow /\ (lastRow = NoRow => DOMAIN lastRow = {})
  BY EmptyRow DEF WatchInv
<1>7. lastRow # NoRow => (lastRow = row <=> \A m \in S : row[m] = lastRow[m])
  BY <1>2, <1>5
<1>8. RowChanged(row) <=> lastRow # row
  BY <1>1, <1>3, <1>5, <1>6, <1>7 DEF RowChanged
<1>9. DOMAIN reported \cup DOMAIN row = S
  BY <1>3, <1>5, <1>6
<1>10. [m \in DOMAIN reported \cup DOMAIN row |-> IF m \in DOMAIN row THEN row[m] ELSE reported[m]] = row
  BY <1>2, <1>3, <1>9
<1>11. (\E m \in DOMAIN row : m \in DOMAIN reported /\ row[m] # reported[m])
          <=> lastRow # NoRow /\ lastRow # row
  BY <1>3, <1>5, <1>6, <1>7
<1> QED
  BY <1>3, <1>4, <1>8, <1>10, <1>11 DEF row

\* What a reconnect may be asked for.
Due ==
    /\ quietAge > StaleTimeout
    /\ askAge = Never \/ askAge >= RetryDelay
    /\ asked' <= MaxStaleAttempts

LEMMA JudgeKeeps ==
  ASSUME WatchInv, SameFields, JudgeReading
  PROVE  /\ WatchInv'
         /\ asked' > asked \/ (asked' # 0 /\ askAge' = 0 /\ askAge # 0) => Due
         /\ kind = "influx" /\ steadyAge # Never /\ steadyAge > StaleTimeout => staleNow'
<1>1. PICK S \in Reports :
        LET row == [m \in S |-> device[m]]
        IN /\ staleNow' = CheckIsStale(row)
           /\ IF StartsPeriod(row)
                 THEN lastRow' = row /\ startAge' = 0 /\ staleEvents' = 0 /\ eventAge' = Never
                 ELSE /\ staleEvents' = IF Asks(row) THEN staleEvents + 1 ELSE staleEvents
                      /\ eventAge' = IF Asks(row) THEN 0 ELSE eventAge
                      /\ UNCHANGED <<lastRow, startAge>>
           /\ Observe(row) /\ UNCHANGED <<kind, device>>
  BY DEF JudgeReading
<1> DEFINE row == [m \in S |-> device[m]]
           same == lastRow = row
           stale == same /\ startAge > StaleTimeout
           differs == lastRow # NoRow /\ ~same
           ask == stale /\ MayAsk
           anew == IF kind = "influx" THEN ~same ELSE ~stale
<1>2. /\ row \in Rows /\ row # NoRow /\ DOMAIN row = S
      /\ row \in UNION {[D -> MetricValues] : D \in SUBSET Metrics}
      /\ RowChanged(row) <=> ~same
      /\ [m \in DOMAIN reported \cup DOMAIN row |->
             IF m \in DOMAIN row THEN row[m] ELSE reported[m]] = row
      /\ (\E m \in DOMAIN row : m \in DOMAIN reported /\ row[m] # reported[m]) <=> differs
  BY ReadingIs
<1>3. device \in [Metrics -> MetricValues] /\ (S = Metrics => row = device)
  BY DEF WatchInv, WatchTypeOK
<1> HIDE DEF row
<1>4. (CheckIsStale(row) <=> stale) /\ (Asks(row) <=> ask) /\ (StartsPeriod(row) <=> anew)
  BY <1>2 DEF CheckIsStale, Asks, StartsPeriod
<1>5. /\ IF anew THEN lastRow' = row /\ startAge' = 0 /\ staleEvents' = 0 /\ eventAge' = Never
         ELSE /\ staleEvents' = IF ask THEN staleEvents + 1 ELSE staleEvents
              /\ eventAge' = IF ask THEN 0 ELSE eventAge
              /\ lastRow' = lastRow /\ startAge' = startAge
      /\ kind' = kind /\ device' = device
  BY <1>1, <1>4 DEF row
<1>6. staleNow' = CheckIsStale(row) /\ Observe(row)
  BY <1>1 DEF row
<1>7. staleNow' \in BOOLEAN /\ (staleNow' <=> stale)
  BY <1>4, <1>6 DEF CheckIsStale
<1>8. /\ reported' = row
      /\ quietAge' = IF differs \/ lastRow = NoRow THEN 0 ELSE quietAge
      /\ steadyAge' = IF steadyAge = Never /\ S = Metrics THEN 0 ELSE steadyAge
      /\ asked' = (IF differs THEN 0 ELSE asked) + (IF ask THEN 1 ELSE 0)
      /\ askAge' = IF ask THEN 0 ELSE IF differs THEN Never ELSE askAge
  <2>1. reported = lastRow
    BY DEF WatchInv
  <2> QED
    BY <1>2, <1>4, <1>6, <2>1 DEF Observe
<1>9. /\ lastRow \in Rows /\ startAge \in Ages /\ quietAge \in Ages /\ staleEvents \in 0..MaxStaleAttempts
      /\ eventAge \in Ages \cup {Never} /\ askAge \in Ages \cup {Never} /\ steadyAge \in Ages \cup {Never}
      /\ kind \in {"influx", "timescale"} /\ kind \in WatchKinds
  BY WatchConstants DEF WatchInv, WatchTypeOK
<1>10. lastRow' = row
  BY <1>5, <1>9
<1>11. DOMAIN lastRow' \in Reports /\ lastRow' # NoRow
  BY <1>2, <1>10
<1>12. kind = "influx" /\ steadyAge # Never => same /\ S = Metrics /\ steadyAge <= startAge /\ lastRow # NoRow
  <2> SUFFICES ASSUME kind = "influx", steadyAge # Never
               PROVE  same /\ S = Metrics /\ steadyAge <= startAge /\ lastRow # NoRow
    OBVIOUS
  <2>1. lastRow = device /\ lastRow # NoRow /\ steadyAge <= startAge /\ DOMAIN lastRow \in Reports
    BY DEF WatchInv
  <2>2. S = Metrics
    BY <1>3, <2>1 DEF SameFields
  <2> QED
    BY <1>3, <2>1, <2>2
<1> DEFINE
      Counted == /\ startAge' \in Ages /\ quietAge' \in Ages /\ startAge' <= quietAge'
                 /\ staleEvents' \in 0..MaxStaleAttempts /\ eventAge' \in Ages \cup {Never}
                 /\ asked' = staleEvents' /\ askAge' = eventAge'
                 /\ staleEvents' # 0 \/ eventAge' # Never => startAge' > StaleTimeout
      Asked == asked' > asked \/ (asked' # 0 /\ askAge' = 0 /\ askAge # 0) => Due
<1>13. ASSUME stale PROVE Counted /\ Asked
  <2>1. /\ startAge > StaleTimeout /\ lastRow # NoRow /\ ~differs /\ ~anew
        /\ startAge <= quietAge /\ asked = staleEvents /\ askAge = eventAge
    BY <1>2, <1>9, <1>13 DEF WatchInv
  <2>2. startAge' = startAge /\ quietAge' = quietAge
    BY <1>5, <1>8, <2>1
  <2>3. CASE MayAsk
    <3>1. staleEvents' = staleEvents + 1 /\ asked' = staleEvents + 1 /\ eventAge' = 0 /\ askAge' = 0
      BY <1>5, <1>8, <1>9, <1>13, <2>1, <2>3, WatchConstants
    <3>2. staleEvents < MaxStaleAttempts /\ (eventAge = Never \/ eventAge >= RetryDelay)
      BY <2>3 DEF MayAsk
    <3> QED
      BY <1>9, <2>1, <2>2, <3>1, <3>2, WatchConstants DEF Ages, Due
  <2>4. CASE ~MayAsk
    <3>1. staleEvents' = staleEvents /\ asked' = asked /\ eventAge' = eventAge /\ askAge' = askAge
      BY <1>5, <1>8, <1>9, <1>13, <2>1, <2>4, WatchConstants
    <3> QED
      BY <1>9, <2>1, <2>2, <3>1, WatchConstants DEF Ages
  <2>5. Counted /\ Asked
    BY <2>3, <2>4
  <2> QED
    BY <2>5
<1>14. ASSUME ~stale /\ same PROVE Counted /\ Asked
  <2>1. /\ ~(startAge > StaleTimeout) /\ lastRow # NoRow /\ ~differs /\ ~ask
        /\ startAge <= quietAge /\ asked = 0 /\ askAge = Never /\ staleEvents = 0 /\ eventAge = Never
    BY <1>2, <1>14 DEF WatchInv
  <2>2. startAge' \in {0, startAge} /\ quietAge' = quietAge
    BY <1>5, <1>8, <2>1
  <2>3. staleEvents' = 0 /\ asked' = 0 /\ eventAge' = Never /\ askAge' = Never
    BY <1>5, <1>8, <2>1
  <2> QED
    BY <1>9, <2>1, <2>2, <2>3, WatchConstants DEF Ages
<1>15. ASSUME ~same PROVE Counted /\ Asked
  <2>1. lastRow = NoRow => asked = 0 /\ askAge = Never
    BY DEF WatchInv
  <2>2. ~stale /\ ~ask /\ anew /\ (differs <=> lastRow # NoRow)
    BY <1>9, <1>15
  <2>3. startAge' = 0 /\ quietAge' = 0 /\ staleEvents' = 0 /\ eventAge' = Never
    BY <1>5, <1>8, <2>2
  <2>4. asked' = 0 /\ askAge' = Never
    <3>1. CASE differs
      BY <1>8, <2>2, <3>1
    <3>2. CASE lastRow = NoRow
      BY <1>8, <2>1, <2>2, <3>2
    <3> QED
      BY <2>2, <3>1, <3>2
  <2>5. asked \in Nat
    BY DEF WatchInv, WatchTypeOK
  <2>6. Counted
    BY <2>3, <2>4, WatchConstants DEF Ages
  <2>7. Asked
    BY <2>3, <2>4, <2>5, WatchConstants
  <2> QED
    BY <2>6, <2>7
<1>16. Counted /\ Asked
  BY <1>13, <1>14, <1>15
<1>17. steadyAge' \in Ages \cup {Never}
  BY <1>8, <1>9, WatchConstants DEF Ages
<1>18. kind' = "influx" /\ steadyAge' # Never => lastRow' = device' /\ steadyAge' <= startAge'
  <2> SUFFICES ASSUME kind = "influx", steadyAge' # Never PROVE lastRow' = device /\ steadyAge' <= startAge'
    BY <1>5
  <2>1. CASE steadyAge = Never
    BY <1>3, <1>8, <1>10, <1>16, <2>1 DEF Ages
  <2>2. CASE steadyAge # Never
    BY <1>3, <1>5, <1>8, <1>10, <1>12, <2>2
  <2> QED
    BY <2>1, <2>2
<1>19. WatchTypeOK'
  <2>1. kind' \in WatchKinds /\ device' \in [Metrics -> MetricValues] /\ lastRow' \in Rows
        /\ reported' \in UNION {[D -> MetricValues] : D \in SUBSET Metrics}
    BY <1>2, <1>3, <1>5, <1>8, <1>9, <1>10
  <2>2. {startAge', quietAge'} \subseteq Ages /\ {eventAge', askAge', steadyAge'} \subseteq Ages \cup {Never}
        /\ staleEvents' \in 0..MaxStaleAttempts /\ asked' \in Nat
    BY <1>16, <1>17, WatchConstants
  <2> QED
    BY <1>7, <2>1, <2>2 DEF WatchTypeOK
<1>20. WatchInv'
  BY <1>8, <1>10, <1>11, <1>16, <1>18, <1>19 DEF WatchInv
<1>21. kind = "influx" /\ steadyAge # Never /\ steadyAge > StaleTimeout => staleNow'
  BY <1>7, <1>9, <1>12, WatchConstants DEF Ages
<1> QED
  BY <1>16, <1>20, <1>21

LEMMA TimeKeeps ==
  ASSUME WatchInv, TimePasses
  PROVE  /\ WatchInv'
         /\ ~(asked' > asked) /\ askAge' # 0
<1>1. /\ startAge \in Ages /\ quietAge \in Ages /\ asked \in Nat
      /\ eventAge \in Ages \cup {Never} /\ askAge \in Ages \cup {Never} /\ steadyAge \in Ages \cup {Never}
  BY DEF WatchInv, WatchTypeOK
<1>2. /\ startAge' \in Ages /\ quietAge' \in Ages
      /\ startAge <= startAge' /\ (startAge <= quietAge => startAge' <= quietAge')
  BY <1>1, OlderAge DEF TimePasses
<1>3. /\ eventAge' \in Ages \cup {Never} /\ askAge' \in Ages \cup {Never} /\ steadyAge' \in Ages \cup {Never}
      /\ askAge' # 0 /\ (eventAge' # Never => eventAge # Never)
  BY <1>1, OlderAge, WatchConstants DEF TimePasses, Ages
<1>4. askAge = eventAge => askAge' = eventAge'
  BY DEF TimePasses
<1>5. steadyAge' # Never => steadyAge # Never /\ (steadyAge <= startAge => steadyAge' <= startAge')
  BY <1>1, OlderAge, WatchConstants DEF TimePasses, Ages
<1>6. UNCHANGED <<kind, device, lastRow, staleEvents, staleNow, reported, asked>>
  BY DEF TimePasses
<1>7. WatchTypeOK'
  BY <1>2, <1>3, <1>6 DEF WatchInv, WatchTypeOK
<1>8. staleEvents' # 0 \/ eventAge' # Never => lastRow' # NoRow /\ startAge' > StaleTimeout
  BY <1>1, <1>2, <1>3, <1>6, WatchConstants DEF WatchInv, Ages
<1>9. lastRow' # NoRow => DOMAIN lastRow' \in Reports /\ startAge' <= quietAge'
  BY <1>2, <1>6 DEF WatchInv
<1>10. kind' = "influx" /\ steadyAge' # Never => lastRow' = device' /\ lastRow' # NoRow /\ steadyAge' <= startAge'
  BY <1>5, <1>6 DEF WatchInv
<1> QED
  BY <1>1, <1>3, <1>4, <1>6, <1>7, <1>8, <1>9, <1>10 DEF WatchInv

LEMMA OthersKeep ==
  ASSUME WatchInv, DeviceChanges \/ ForgetTransport \/ UNCHANGED watchVars
  PROVE  /\ WatchInv'
         /\ ~(asked' > asked) /\ (askAge' = 0 => askAge = 0)
<1>1. CASE DeviceChanges
  <2>1. /\ device' \in [Metrics -> MetricValues] /\ steadyAge' = Never
        /\ UNCHANGED <<kind, lastRow, startAge, eventAge, staleEvents, staleNow, reported, quietAge,
                       asked, askAge>>
    BY <1>1 DEF DeviceChanges
  <2>2. WatchTypeOK'
    BY <2>1 DEF WatchInv, WatchTypeOK
  <2>3. asked \in Nat
    BY DEF WatchInv, WatchTypeOK
  <2> QED
    BY <2>1, <2>2, <2>3 DEF WatchInv
<1>2. CASE ForgetTransport
  <2>1. /\ kind = "timescale" /\ UNCHANGED <<kind, device>>
        /\ lastRow' = NoRow /\ startAge' = 0 /\ eventAge' = Never /\ staleEvents' = 0
        /\ reported' = NoRow /\ quietAge' = 0 /\ steadyAge' = Never /\ asked' = 0 /\ askAge' = Never
    BY <1>2 DEF ForgetTransport
  <2>2. staleNow' \in BOOLEAN
    BY <1>2 DEF ForgetTransport
  <2>3. /\ {startAge', quietAge'} \subseteq Ages /\ {eventAge', askAge', steadyAge'} \subseteq Ages \cup {Never}
        /\ staleEvents' \in 0..MaxStaleAttempts /\ asked' \in Nat
    BY <2>1, WatchConstants DEF Ages
  <2>4. lastRow' \in Rows /\ reported' \in UNION {[D -> MetricValues] : D \in SUBSET Metrics}
    BY <2>1, EmptyRow
  <2>5. WatchTypeOK'
    BY <2>1, <2>2, <2>3, <2>4 DEF WatchInv, WatchTypeOK
  <2>6. asked \in Nat /\ Never # 0
    BY WatchConstants DEF WatchInv, WatchTypeOK
  <2> QED
    BY <2>1, <2>5, <2>6 DEF WatchInv
<1>3. CASE UNCHANGED watchVars
  BY <1>3, WatchConstants DEF watchVars, WatchInv, WatchTypeOK, Ages
<1> QED
  BY <1>1, <1>2, <1>3

\* However values come, stay and change, requests are spaced and the registry is swept
\* (_commit_transport_state(), _handle_stale_event(), _cleanup_stale_registry()): a
\* scraper whose readings all have the same fields is reconnected only when nothing it
\* reported has changed for longer than stale_data_timeout, neither too often nor too
\* soon, and the Influx bridges judge a reading of a frozen device stale.
THEOREM FrozenScrapersAreAsked ==
    SameFields => (WatchSpec => []WatchTypeOK /\ FrozenIsAnswered)
<1> SUFFICES ASSUME SameFields PROVE WatchSpec => []WatchTypeOK /\ FrozenIsAnswered
  OBVIOUS
<1>1. WatchInv /\ [WatchNext]_watchVars => WatchInv'
  BY JudgeKeeps, TimeKeeps, OthersKeep DEF WatchNext
<1>2. WatchInv /\ [WatchNext]_watchVars =>
        [asked' > asked \/ (asked' # 0 /\ askAge' = 0 /\ askAge # 0) =>
            /\ quietAge > StaleTimeout
            /\ askAge = Never \/ askAge >= RetryDelay
            /\ asked' <= MaxStaleAttempts]_watchVars
  BY JudgeKeeps, TimeKeeps, OthersKeep DEF WatchNext, Due
<1>3. WatchInv /\ [WatchNext]_watchVars =>
        [kind = "influx" /\ JudgeReading /\ steadyAge # Never /\ steadyAge > StaleTimeout
            => staleNow']_watchVars
  BY JudgeKeeps
<1>4. WatchInv => WatchTypeOK
  BY DEF WatchInv
<1> QED
  BY WatchInitially, <1>1, <1>2, <1>3, <1>4, PTL
  DEF WatchSpec, FrozenIsAnswered, ReconnectIsDue, FrozenInfluxIsNoticed
----------------------------------------------------------------------------
(* The types of the parts, whatever devices, users and processes do: what   *)
(* the theorems above assume for more is not needed here, but for the       *)
(* labels, since the counter of a label two machines share has no bound.    *)

SerialCommands == {Hello} \cup ToSet(Polls)
SerialToken == {SOI, EOI} \cup {Body(q[1], q[2]) : q \in Requests}

LineTyped ==
    /\ SerialTypeOK /\ agenda \in [Sections -> Seq(SerialCommands)]
    /\ \A s \in Sections : agenda[s] = <<>> => work[s] = "idle"
    /\ coming \in Seq(SerialToken) /\ wire \in Seq(SerialToken) /\ mishaps + unplugs <= MaxFaults

LEMMA SerialConstants ==
    /\ MaxFrame \in Nat /\ MaxClients \in Nat /\ MaxFaults \in Nat
    /\ PollList \in Seq(SerialCommands) /\ (<<Hello>> \o PollList) \in Seq(SerialCommands)
<1>1. Polls \in Seq(Nat \ {0})
  BY SerialAssumption
<1>2. Polls \in [1 .. Len(Polls) -> SerialCommands] /\ Len(Polls) \in Nat
  BY <1>1 DEF SerialCommands, ToSet
<1>3. Polls \in Seq(SerialCommands) /\ <<Hello>> \in Seq(SerialCommands)
  BY <1>2 DEF SerialCommands
<1>4. PollList \in Seq(SerialCommands)
  BY <1>3 DEF PollList
<1> QED
  BY <1>3, <1>4, SerialAssumption

LEMMA QueueShortens ==
  ASSUME NEW T, NEW q \in Seq(T), q # <<>>
  PROVE  Head(q) \in T /\ Tail(q) \in Seq(T) /\ Len(Tail(q)) = Len(q) - 1 /\ Len(q) \in Nat
  OBVIOUS

LEMMA QueueGrows ==
  ASSUME NEW T, NEW q \in Seq(T), NEW x \in T
  PROVE  Append(q, x) \in Seq(T) /\ Len(Append(q, x)) = Len(q) + 1 /\ Len(q) \in Nat
  OBVIOUS

LEMMA FaultsFit ==
  ASSUME LineTyped
  PROVE  /\ mishaps \in Nat /\ unplugs \in Nat /\ mishaps + unplugs <= MaxFaults
         /\ \A m, u \in Nat : m + u <= MaxFaults => {m, u} \subseteq 0 .. MaxFaults
<1>1. mishaps \in 0 .. MaxFaults /\ unplugs \in 0 .. MaxFaults /\ mishaps + unplugs <= MaxFaults
  BY DEF LineTyped, SerialTypeOK
<1>2. ASSUME NEW m \in Nat, NEW u \in Nat, m + u <= MaxFaults PROVE {m, u} \subseteq 0 .. MaxFaults
  <2>1. m \in 0 .. MaxFaults /\ u \in 0 .. MaxFaults
    BY <1>2, SerialConstants
  <2> QED
    BY <2>1
<1> QED
  BY <1>1, <1>2, SerialConstants

LEMMA SerialInitTyped == SerialInit => LineTyped
<1> SUFFICES ASSUME SerialInit PROVE LineTyped
  OBVIOUS
<1> USE DEF SerialInit
<1>1. /\ gateway = "down" /\ plugged \in BOOLEAN /\ open = {} /\ shared = 0 /\ holder = Nobody /\ expected = {}
      /\ mishaps = 0 /\ unplugs = 0
  OBVIOUS
<1>2. linked \in [Sections -> BOOLEAN] /\ versed \in [Sections -> BOOLEAN] /\ failed \in [Sections -> BOOLEAN]
  OBVIOUS
<1>3. mine \in [Sections -> 0 .. MaxClients] /\ work \in [Sections -> {"idle", "sent", "reading"}]
  BY SerialConstants
<1>4. /\ agenda \in [Sections -> Seq(SerialCommands)] /\ \A s \in Sections : work[s] = "idle"
      /\ coming = <<>> /\ wire = <<>> /\ Len(<<>>) = 0
  OBVIOUS
<1> QED
  BY <1>1, <1>2, <1>3, <1>4, SerialConstants DEF LineTyped, SerialTypeOK

LEMMA AcquireTyped ==
  ASSUME LineTyped, NEW who \in SUBSET Sections, AcquireClient(who)
  PROVE  open' \subseteq Clients /\ shared' \in 0 .. MaxClients /\ mine' \in [Sections -> 0 .. MaxClients]
<1>1. open \subseteq Clients /\ shared \in 0 .. MaxClients /\ mine \in [Sections -> 0 .. MaxClients]
  BY DEF LineTyped, SerialTypeOK
<1>2. open' \subseteq Clients /\ shared' \in 0 .. MaxClients
  <2>1. CASE shared # 0
    BY <1>1, <2>1 DEF AcquireClient
  <2>2. CASE shared = 0
    <3>1. PICK c \in Unused : shared' = c /\ open' = open \cup {c}
      BY <2>2 DEF AcquireClient
    <3>2. c \in Clients
      BY <3>1 DEF Unused
    <3> QED
      BY <1>1, <3>1, <3>2, SerialConstants DEF Clients
  <2> QED
    BY <2>1, <2>2
<1>3. mine' = [s \in Sections |-> IF s \in who THEN shared' ELSE mine[s]]
  BY DEF AcquireClient
<1> QED
  BY <1>1, <1>2, <1>3

\* A request that is given up.
LEMMA BreaksTyped ==
  ASSUME LineTyped, NEW s \in Sections, Breaks(s)
  PROVE  LineTyped'
<1>1. /\ agenda' = [agenda EXCEPT ![s] = <<>>] /\ work' = [work EXCEPT ![s] = "idle"]
      /\ holder' \in {Nobody, holder} /\ expected' \subseteq expected
      /\ failed' = [failed EXCEPT ![s] = TRUE]
      /\ linked' \in {linked, [linked EXCEPT ![s] = FALSE]}
      /\ UNCHANGED <<open, shared, mine, versed, coming, wire, mishaps, style, gateway, plugged, unplugs>>
  BY DEF Breaks, lifeVars
<1>2. linked' \in [Sections -> BOOLEAN] /\ failed' \in [Sections -> BOOLEAN]
  BY <1>1, Zenon DEF LineTyped, SerialTypeOK
<1>3. /\ agenda' \in [Sections -> Seq(SerialCommands)] /\ work' \in [Sections -> {"idle", "sent", "reading"}]
      /\ \A t \in Sections : agenda'[t] = <<>> => work'[t] = "idle"
  BY <1>1 DEF LineTyped, SerialTypeOK
<1> QED
  BY <1>1, <1>2, <1>3 DEF LineTyped, SerialTypeOK

\* An exchange that is over.
LEMMA SettleTyped ==
  ASSUME LineTyped, NEW s \in Sections, NEW answered \in BOOLEAN, Settle(s, answered), work[s] = "reading",
         UNCHANGED <<open, shared, mine, coming, gateway, plugged, unplugs>>,
         mishaps' \in Nat, mishaps' + unplugs <= MaxFaults,
         wire' \in Seq(SerialToken), Len(wire') <= MaxFrame, expected' \subseteq expected
  PROVE  LineTyped'
<1>1. /\ work' = [work EXCEPT ![s] = "idle"] /\ holder' \in {Nobody, holder}
      /\ linked' \in {linked, [linked EXCEPT ![s] = TRUE]}
      /\ versed' \in {versed, [versed EXCEPT ![s] = TRUE]}
      /\ failed' \in {failed, [failed EXCEPT ![s] = TRUE]}
      /\ \E rest \in {Tail(agenda[s]), <<>>} : agenda' = [agenda EXCEPT ![s] = rest]
  BY DEF Settle
<1>2. PICK rest \in Seq(SerialCommands) : agenda' = [agenda EXCEPT ![s] = rest]
  <2>1. agenda[s] \in Seq(SerialCommands) /\ agenda[s] # <<>>
    BY DEF LineTyped
  <2>2. Tail(agenda[s]) \in Seq(SerialCommands) /\ <<>> \in Seq(SerialCommands)
    BY <2>1, QueueShortens
  <2> QED
    BY <1>1, <2>2
<1>3. /\ agenda' \in [Sections -> Seq(SerialCommands)] /\ work' \in [Sections -> {"idle", "sent", "reading"}]
      /\ \A t \in Sections : agenda'[t] = <<>> => work'[t] = "idle"
  BY <1>1, <1>2 DEF LineTyped, SerialTypeOK
<1>4. linked' \in [Sections -> BOOLEAN] /\ versed' \in [Sections -> BOOLEAN] /\ failed' \in [Sections -> BOOLEAN]
  BY <1>1, Zenon DEF LineTyped, SerialTypeOK
<1>5. {mishaps', unplugs'} \subseteq 0 .. MaxFaults /\ mishaps' + unplugs' <= MaxFaults
  BY SerialConstants DEF LineTyped, SerialTypeOK
<1>6. /\ gateway' \in {"down", "up", "stopping"} /\ plugged' \in BOOLEAN
      /\ open' \subseteq Clients /\ shared' \in 0 .. MaxClients /\ mine' \in [Sections -> 0 .. MaxClients]
      /\ holder' \in Sections \cup {Nobody} /\ expected' \subseteq Requests
      /\ Len(coming') <= 3 /\ coming' \in Seq(SerialToken)
  BY <1>1 DEF LineTyped, SerialTypeOK
<1> QED
  BY <1>3, <1>4, <1>5, <1>6 DEF LineTyped, SerialTypeOK
\* What the gateway does with the sections.
LEMMA SectionsTyped ==
  ASSUME LineTyped, PlugIn \/ Unplug \/ BuildSections \/ StopSections \/ SectionsGone
  PROVE  LineTyped'
<1> USE DEF sectionVars, lineVars, lifeVars
<1>1. CASE PlugIn \/ StopSections \/ SectionsGone
  BY <1>1 DEF PlugIn, StopSections, SectionsGone, LineTyped, SerialTypeOK
<1>2. CASE Unplug
  <2>1. /\ plugged' = FALSE /\ unplugs' = unplugs + 1 /\ mishaps + unplugs < MaxFaults
        /\ open' = {} /\ coming' = <<>> /\ wire' = <<>> /\ expected' = {}
        /\ UNCHANGED <<gateway, shared, mine, linked, versed, agenda, work, holder, failed, mishaps>>
    BY <1>2 DEF Unplug, MayFault
  <2>2. {mishaps', unplugs'} \subseteq 0 .. MaxFaults /\ mishaps' + unplugs' <= MaxFaults
    <3>1. mishaps' \in Nat /\ unplugs' \in Nat /\ mishaps' + unplugs' <= MaxFaults
      BY <2>1, FaultsFit, SerialConstants
    <3> QED
      BY <3>1, FaultsFit
  <2>3. /\ coming' = <<>> /\ coming' \in Seq(SerialToken) /\ wire' \in Seq(SerialToken)
        /\ Len(coming') <= 3 /\ Len(wire') <= MaxFrame
    BY <2>1, SerialConstants
  <2> QED
    BY <2>1, <2>2, <2>3 DEF LineTyped, SerialTypeOK
<1>3. CASE BuildSections
  <2>1. open' \subseteq Clients /\ shared' \in 0 .. MaxClients /\ mine' \in [Sections -> 0 .. MaxClients]
    <3>1. AcquireClient(Sections) \/ UNCHANGED <<open, shared, mine>>
      BY <1>3 DEF BuildSections
    <3> QED
      BY <3>1, AcquireTyped DEF LineTyped, SerialTypeOK
  <2>2. /\ gateway' = "up" /\ versed' = [s \in Sections |-> FALSE] /\ failed' = [s \in Sections |-> FALSE]
        /\ wire' = <<>>
        /\ UNCHANGED <<plugged, linked, agenda, work, holder, expected, coming, mishaps, unplugs>>
    BY <1>3 DEF BuildSections
  <2> QED
    BY <2>1, <2>2, SerialConstants DEF LineTyped, SerialTypeOK
<1> QED
  BY <1>1, <1>2, <1>3

\* What a section does.
LEMMA SectionTyped ==
  ASSUME LineTyped, NEW s \in Sections,
         CleanUp(s) \/ Poll(s) \/ Ask(s) \/ ResetBuffer(s) \/ ReadToken(s) \/ ReadTimesOut(s)
  PROVE  LineTyped'
<1> USE DEF sectionVars, lineVars, lifeVars
<1>1. CASE Breaks(s)
  BY <1>1, BreaksTyped
<1>2. CASE CleanUp(s)
  <2>1. /\ mine' = [mine EXCEPT ![s] = 0] /\ linked' = [linked EXCEPT ![s] = FALSE]
        /\ shared' \in {0, shared} /\ open' \subseteq open
        /\ UNCHANGED <<versed, agenda, work, holder, failed, gateway, plugged, unplugs>> /\ UNCHANGED lineVars
    BY <1>2 DEF CleanUp, Evicted
  <2>2. linked' \in [Sections -> BOOLEAN]
    BY <2>1, Zenon DEF LineTyped, SerialTypeOK
  <2>3. mine' \in [Sections -> 0 .. MaxClients] /\ shared' \in 0 .. MaxClients
    BY <2>1, SerialConstants DEF LineTyped, SerialTypeOK
  <2> QED
    BY <2>1, <2>2, <2>3 DEF LineTyped, SerialTypeOK
<1>3. CASE Poll(s)
  <2>1. /\ agenda[s] = <<>> /\ failed' = [failed EXCEPT ![s] = FALSE]
        /\ UNCHANGED <<versed, work, holder, gateway, plugged, unplugs>> /\ UNCHANGED lineVars
    BY <1>3 DEF Poll
  <2>2. UNCHANGED <<open, shared, mine>> \/ AcquireClient({s})
    BY <1>3 DEF Poll
  <2>3. open' \subseteq Clients /\ shared' \in 0 .. MaxClients /\ mine' \in [Sections -> 0 .. MaxClients]
    BY <2>2, AcquireTyped DEF LineTyped, SerialTypeOK
  <2>4. PICK b \in BOOLEAN : linked' \in {linked, [linked EXCEPT ![s] = b]}
    <3>1. (style = "listen" \/ versed[s]) \in BOOLEAN
      OBVIOUS
    <3>2. linked' = linked \/ linked' = [linked EXCEPT ![s] = (style = "listen" \/ versed[s])]
      BY <1>3 DEF Poll
    <3> QED
      BY <3>1, <3>2, Zenon
  <2>5. linked' \in [Sections -> BOOLEAN] /\ failed' \in [Sections -> BOOLEAN]
    BY <2>1, <2>4, Zenon DEF LineTyped, SerialTypeOK
  <2>6. PICK list \in Seq(SerialCommands) : agenda' = [agenda EXCEPT ![s] = list]
    BY <1>3, SerialConstants DEF Poll
  <2>7. work[s] = "idle"
    BY <2>1 DEF LineTyped
  <2>8. agenda' \in [Sections -> Seq(SerialCommands)] /\ \A t \in Sections : agenda'[t] = <<>> => work'[t] = "idle"
    BY <2>1, <2>6, <2>7 DEF LineTyped
  <2> QED
    BY <2>1, <2>3, <2>5, <2>8 DEF LineTyped, SerialTypeOK
<1>4. CASE Ask(s) /\ ~Breaks(s)
  <2>1. /\ agenda[s] # <<>> /\ holder' = s /\ work' = [work EXCEPT ![s] = "sent"]
        /\ expected' \subseteq expected \cup {<<s, Head(agenda[s])>>}
        /\ UNCHANGED <<open, shared, mine, linked, versed, agenda, failed, coming, wire, mishaps>> /\ UNCHANGED lifeVars
    BY <1>4 DEF Ask
  <2>2. Head(agenda[s]) \in SerialCommands
    BY <2>1, QueueShortens DEF LineTyped
  <2>3. expected' \subseteq Requests
    <3>1. <<s, Head(agenda[s])>> \in Requests
      BY <2>2 DEF Requests, SerialCommands
    <3> QED
      BY <2>1, <3>1 DEF LineTyped, SerialTypeOK
  <2>4. work' \in [Sections -> {"idle", "sent", "reading"}] /\ \A t \in Sections : agenda'[t] = <<>> => work'[t] = "idle"
    BY <2>1 DEF LineTyped, SerialTypeOK
  <2> QED
    BY <2>1, <2>3, <2>4 DEF LineTyped, SerialTypeOK
<1>5. CASE ResetBuffer(s) /\ ~Breaks(s)
  <2>1. /\ work[s] = "sent" /\ work' = [work EXCEPT ![s] = "reading"] /\ wire' = <<>>
        /\ UNCHANGED <<open, shared, mine, linked, versed, agenda, holder, failed, expected, coming, mishaps>>
        /\ UNCHANGED lifeVars
    BY <1>5 DEF ResetBuffer
  <2>2. work' \in [Sections -> {"idle", "sent", "reading"}] /\ \A t \in Sections : agenda'[t] = <<>> => work'[t] = "idle"
    BY <2>1 DEF LineTyped, SerialTypeOK
  <2> QED
    BY <2>1, <2>2, SerialConstants DEF LineTyped, SerialTypeOK
<1>6. CASE ReadToken(s) /\ ~Breaks(s)
  <2>1. /\ work[s] = "reading" /\ wire # <<>> /\ wire' = Tail(wire)
        /\ UNCHANGED <<open, shared, mine, expected, coming, mishaps>> /\ UNCHANGED lifeVars
    BY <1>6 DEF ReadToken
  <2>2. wire' \in Seq(SerialToken) /\ Len(wire') <= MaxFrame
    <3>1. Len(wire) <= MaxFrame /\ wire \in Seq(SerialToken)
      BY DEF LineTyped, SerialTypeOK
    <3> QED
      BY <2>1, <3>1, QueueShortens, SerialConstants
  <2>3. \/ \E answered \in BOOLEAN : Settle(s, answered)
        \/ UNCHANGED <<agenda, work, holder, linked, versed, failed>>
    <3>1. \A body : FrameDecodes(body) \in BOOLEAN
      BY DEF FrameDecodes
    <3> QED
      BY <1>6, <3>1 DEF ReadToken
  <2>4. CASE \E answered \in BOOLEAN : Settle(s, answered)
    <3>1. mishaps' \in Nat /\ mishaps' + unplugs <= MaxFaults
      BY <2>1, SerialConstants DEF LineTyped, SerialTypeOK
    <3> QED
      BY <2>1, <2>2, <2>4, <3>1, SettleTyped
  <2>5. CASE UNCHANGED <<agenda, work, holder, linked, versed, failed>>
    BY <2>1, <2>2, <2>5 DEF LineTyped, SerialTypeOK
  <2> QED
    BY <2>3, <2>4, <2>5
<1>7. CASE ReadTimesOut(s)
  <2>1. /\ work[s] = "reading" /\ Settle(s, FALSE) /\ expected' \subseteq expected
        /\ UNCHANGED <<open, shared, mine, coming, wire>> /\ UNCHANGED lifeVars
        /\ mishaps' = mishaps \/ (mishaps + unplugs < MaxFaults /\ mishaps' = mishaps + 1)
    BY <1>7 DEF ReadTimesOut, MayFault
  <2>2. mishaps' \in Nat /\ mishaps' + unplugs <= MaxFaults
    BY <2>1, FaultsFit, SerialConstants
  <2>3. wire' \in Seq(SerialToken) /\ Len(wire') <= MaxFrame
    BY <2>1 DEF LineTyped, SerialTypeOK
  <2> QED
    BY <2>1, <2>2, <2>3, SettleTyped
<1> QED
  BY <1>1, <1>2, <1>3, <1>4, <1>5, <1>6, <1>7

\* What comes on the wire.
LEMMA WireTyped ==
  ASSUME LineTyped, (\E q \in Requests : Speaks(q[1], q[2])) \/ TokenArrives \/ TokenLost
  PROVE  LineTyped'
<1> USE DEF sectionVars, lifeVars
<1>1. CASE \E q \in Requests : Speaks(q[1], q[2])
  <2>1. PICK q \in Requests : Speaks(q[1], q[2])
    BY <1>1
  <2>2. /\ expected' \subseteq expected /\ coming' = <<SOI, Body(q[1], q[2]), EOI>>
        /\ UNCHANGED <<wire, mishaps>> /\ UNCHANGED lifeVars /\ UNCHANGED sectionVars
    BY <2>1 DEF Speaks, FrameOf
  <2>3. coming' \in Seq(SerialToken) /\ Len(coming') <= 3
    BY <2>2 DEF SerialToken
  <2> QED
    BY <2>2, <2>3 DEF LineTyped, SerialTypeOK
<1>2. CASE TokenArrives \/ TokenLost
  <2>1. /\ coming # <<>> /\ coming' = Tail(coming)
        /\ mishaps' = mishaps \/ (mishaps + unplugs < MaxFaults /\ mishaps' = mishaps + 1)
        /\ UNCHANGED expected /\ UNCHANGED lifeVars /\ UNCHANGED sectionVars
    BY <1>2 DEF TokenArrives, TokenLost, MayFault
  <2>2. coming \in Seq(SerialToken) /\ Len(coming) <= 3 /\ wire \in Seq(SerialToken) /\ Len(wire) <= MaxFrame
    BY DEF LineTyped, SerialTypeOK
  <2>3. coming' \in Seq(SerialToken) /\ Len(coming') <= 3 /\ Head(coming) \in SerialToken
    BY <2>1, <2>2, QueueShortens
  <2>4. wire' \in Seq(SerialToken) /\ Len(wire') <= MaxFrame
    <3>1. wire' \in {wire, <<>>} \/ (Len(wire) < MaxFrame /\ wire' = Append(wire, Head(coming)))
      BY <1>2 DEF TokenArrives, TokenLost
    <3>2. CASE wire' = wire \/ wire' = <<>>
      <4>1. <<>> \in Seq(SerialToken) /\ Len(<<>>) <= MaxFrame
        BY SerialConstants
      <4> QED
        BY <2>2, <3>2, <4>1
    <3>3. CASE Len(wire) < MaxFrame /\ wire' = Append(wire, Head(coming))
      <4>1. Len(wire') = Len(wire) + 1 /\ Len(wire) \in Nat /\ wire' \in Seq(SerialToken)
        BY <2>2, <2>3, <3>3, QueueGrows
      <4> QED
        BY <3>3, <4>1, SerialConstants
    <3> QED
      BY <3>1, <3>2, <3>3
  <2>5. {mishaps', unplugs'} \subseteq 0 .. MaxFaults /\ mishaps' + unplugs' <= MaxFaults
    <3>1. mishaps' \in Nat /\ unplugs' \in Nat /\ mishaps' + unplugs' <= MaxFaults
      BY <2>1, FaultsFit, SerialConstants
    <3> QED
      BY <3>1, FaultsFit
  <2> QED
    BY <2>1, <2>3, <2>4, <2>5 DEF LineTyped, SerialTypeOK
<1> QED
  BY <1>1, <1>2

LEMMA SerialTyped == LineTyped /\ [SerialNext]_serialVars => LineTyped'
<1> SUFFICES ASSUME LineTyped, [SerialNext]_serialVars PROVE LineTyped'
  OBVIOUS
<1>1. CASE UNCHANGED serialVars
  BY <1>1 DEF serialVars, LineTyped, SerialTypeOK
<1> QED
  BY <1>1, SectionsTyped, SectionTyped, WireTyped DEF SerialNext
----------------------------------------------------------------------------
(* The types of notices, commands and the watch.                            *)

\* Setters that have still to queue a notice.
Waiting == {s \in Setters : setter[s] = "notice"}

NoticeTyped == NoticeShape /\ IsFiniteSet(Waiting) /\ Len(pendingNotices) + Cardinality(Waiting) <= changes

LEMMA WaitingMoves ==
  ASSUME NoticeTyped, NEW s \in Setters, NEW there, setter' = [setter EXCEPT ![s] = there]
  PROVE  /\ IsFiniteSet(Waiting') /\ Cardinality(Waiting) \in Nat /\ Cardinality(Waiting') \in Nat
         /\ there = "notice" => Cardinality(Waiting') <= Cardinality(Waiting) + 1
         /\ there # "notice" => Cardinality(Waiting') <= Cardinality(Waiting)
         /\ there # "notice" /\ setter[s] = "notice" => Cardinality(Waiting') = Cardinality(Waiting) - 1
<1>1. Waiting' = IF there = "notice" THEN Waiting \cup {s} ELSE Waiting \ {s}
  BY NoticeParts DEF NoticeTyped, Waiting
<1>2. s \in Waiting <=> setter[s] = "notice"
  BY DEF Waiting
<1>3. /\ IsFiniteSet(Waiting \cup {s}) /\ IsFiniteSet(Waiting \ {s}) /\ Cardinality(Waiting) \in Nat
      /\ Cardinality(Waiting \cup {s}) = IF s \in Waiting THEN Cardinality(Waiting) ELSE Cardinality(Waiting) + 1
      /\ Cardinality(Waiting \ {s}) = IF s \in Waiting THEN Cardinality(Waiting) - 1 ELSE Cardinality(Waiting)
  BY FS_AddElement, FS_RemoveElement, FS_CardinalityType DEF NoticeTyped
<1>4. s \in Waiting => Cardinality(Waiting) - 1 \in Nat
  BY <1>3, FS_CardinalityType
<1> QED
  BY <1>1, <1>2, <1>3, <1>4

LEMMA NoticesTyped == NoticeTyped /\ [NoticesNext]_noticeVars => NoticeTyped'
<1> SUFFICES ASSUME NoticeTyped, [NoticesNext]_noticeVars PROVE NoticeTyped'
  OBVIOUS
<1> DEFINE Count == Cardinality(Waiting)
           Size == Len(pendingNotices)
<1>0. /\ NoticeShape /\ Size \in Nat /\ Count \in Nat /\ changes \in Nat /\ Size + Count <= changes
      /\ IsFiniteSet(Waiting) /\ pendingNotices \in Seq(Notices)
  BY NoticeParts, NoticesAssumption, FS_CardinalityType DEF NoticeTyped
<1>1. ASSUME NEW s \in Setters, Change(s), setter' = [setter EXCEPT ![s] = "notice"],
             holding' \in [Setters -> BOOLEAN], UNCHANGED <<pendingNotices, marker, told, owed>>
      PROVE  NoticeTyped'
  <2>1. /\ link' \in BOOLEAN /\ everUp' \in BOOLEAN /\ wasEverUp' \in [Setters -> BOOLEAN]
        /\ noticing' \in [Setters -> Notices] /\ changes' \in 0..MaxChanges /\ changes' = changes + 1
    BY <1>0, <1>1, ChangeShape
  <2>2. IsFiniteSet(Waiting') /\ Count' \in Nat /\ Count' <= Count + 1
    BY <1>1, WaitingMoves
  <2>3. Size' + Count' <= changes' /\ Size' <= changes'
    BY <1>0, <1>1, <2>1, <2>2
  <2>4. setter' \in [Setters -> {"idle", "notice", "deliver", "mark", "release"}]
    BY <1>0, <1>1, NoticeParts
  <2>5. NoticeShape'
    BY <1>0, <1>1, <2>1, <2>3, <2>4, NoticeParts, NoticePartsNext
  <2> QED
    BY <2>2, <2>3, <2>5 DEF NoticeTyped
<1>2. ASSUME NEW s \in Setters, NEW there \in {"idle", "deliver", "mark", "release"}, setter' = [setter EXCEPT ![s] = there],
             UNCHANGED <<link, everUp, noticing, wasEverUp, holding, changes>>,
             marker' \in BOOLEAN, owed' \in BOOLEAN, told' \in Notices \cup {"none"},
             pendingNotices' \in Seq(Notices),
             Size' <= Size \/ (setter[s] = "notice" /\ Size' <= Size + 1)
      PROVE  NoticeTyped'
  <2>1. IsFiniteSet(Waiting') /\ Count' \in Nat /\ Count' <= Count /\ (setter[s] = "notice" => Count' = Count - 1)
    BY <1>2, WaitingMoves
  <2>2. Size' \in Nat
    BY <1>2
  <2>3. Size' + Count' <= changes' /\ Size' <= changes'
    BY <1>0, <1>2, <2>1, <2>2
  <2>4. setter' \in [Setters -> {"idle", "notice", "deliver", "mark", "release"}]
    BY <1>0, <1>2, NoticeParts
  <2>5. NoticeShape'
    BY <1>0, <1>2, <2>3, <2>4, NoticeParts, NoticePartsNext
  <2> QED
    BY <2>1, <2>3, <2>5 DEF NoticeTyped
<1>3. ASSUME NEW s \in Setters, NEW held \in {MayHold, FALSE}, SetConnected(s, held) PROVE NoticeTyped'
  <2>1. held \in BOOLEAN
    BY NoticesAssumption
  <2>2. holding' \in [Setters -> BOOLEAN]
    BY <1>0, <1>3, <2>1, NoticeParts DEF SetConnected
  <2> QED
    BY <1>1, <1>3, <2>2 DEF SetConnected, At
<1>4. ASSUME NEW s \in Setters, QueueRestored(s) \/ QueueLost(s) PROVE NoticeTyped'
  <2>1. PICK n \in Notices : pendingNotices' \in {pendingNotices, Append(pendingNotices, n)}
    BY <1>4 DEF QueueRestored, QueueLost, Notices
  <2>2. pendingNotices' \in Seq(Notices) /\ Size' <= Size + 1
    BY <1>0, <2>1, NoticeAppended
  <2>3. /\ setter[s] = "notice" /\ \E there \in {"idle", "deliver", "mark", "release"} : setter' = [setter EXCEPT ![s] = there]
        /\ UNCHANGED <<link, everUp, noticing, wasEverUp, holding, changes, told, owed>> /\ marker' \in {marker, FALSE}
    BY <1>4 DEF QueueRestored, QueueLost, At
  <2>4. marker' \in BOOLEAN /\ owed' \in BOOLEAN /\ told' \in Notices \cup {"none"}
    BY <1>0, <2>3, NoticeParts
  <2> QED
    BY <1>2, <2>2, <2>3, <2>4
<1>5. ASSUME NEW s \in Setters, Deliver(s) PROVE NoticeTyped'
  <2>1. CASE pendingNotices = <<>>
    <3>1. /\ \E there \in {"idle", "mark"} : setter' = [setter EXCEPT ![s] = there]
          /\ UNCHANGED <<link, everUp, noticing, wasEverUp, holding, changes, told, owed, marker, pendingNotices>>
      BY <1>5, <2>1 DEF Deliver
    <3>2. marker' \in BOOLEAN /\ owed' \in BOOLEAN /\ told' \in Notices \cup {"none"} /\ Size' <= Size
      BY <1>0, <3>1, NoticeParts
    <3> QED
      BY <1>0, <1>2, <3>1, <3>2
  <2>2. CASE pendingNotices # <<>>
    <3>1. /\ told' = Head(pendingNotices) /\ pendingNotices' = Tail(pendingNotices) /\ owed' = (told' = "lost")
          /\ UNCHANGED <<setter, link, everUp, noticing, wasEverUp, holding, changes, marker>> /\ setter[s] = "deliver"
      BY <1>5, <2>2 DEF Deliver, Sent
    <3>2. told' \in Notices /\ pendingNotices' \in Seq(Notices) /\ Size' <= Size
      BY <1>0, <2>2, <3>1, NoticeTaken
    <3>3. owed' \in BOOLEAN /\ marker' \in BOOLEAN
      BY <1>0, <3>1, NoticeParts
    <3>4. setter' = [setter EXCEPT ![s] = "deliver"]
      BY <1>0, <3>1, NoticeParts
    <3> QED
      BY <1>2, <3>1, <3>2, <3>3, <3>4
  <2> QED
    BY <2>1, <2>2
<1>6. ASSUME NEW s \in Setters, Mark(s) PROVE NoticeTyped'
  <2>1. /\ \E there \in {"idle", "release"} : setter' = [setter EXCEPT ![s] = there]
        /\ UNCHANGED <<link, everUp, noticing, wasEverUp, holding, changes, told, owed, pendingNotices>> /\ marker' = TRUE
    BY <1>6 DEF Mark, At
  <2>2. owed' \in BOOLEAN /\ told' \in Notices \cup {"none"} /\ Size' <= Size
    BY <1>0, <2>1, NoticeParts
  <2> QED
    BY <1>0, <1>2, <2>1, <2>2
<1>7. ASSUME NEW s \in Setters, Release(s) PROVE NoticeTyped'
  <2>1. UNCHANGED <<holding, pendingNotices, marker, told, owed>>
    BY <1>7 DEF Release
  <2>2. /\ holding' \in [Setters -> BOOLEAN] /\ marker' \in BOOLEAN /\ owed' \in BOOLEAN /\ told' \in Notices \cup {"none"}
        /\ Size' <= Size /\ pendingNotices' \in Seq(Notices)
    BY <1>0, <2>1, NoticeParts
  <2>3. \/ Change(s) /\ setter' = [setter EXCEPT ![s] = "notice"]
        \/ setter' = [setter EXCEPT ![s] = "deliver"] /\ UNCHANGED <<link, everUp, noticing, wasEverUp, changes>>
    BY <1>7 DEF Release, At
  <2> QED
    BY <1>1, <1>2, <2>1, <2>2, <2>3
<1>8. CASE Restart
  <2>1. /\ link' = FALSE /\ everUp' = FALSE /\ pendingNotices' = <<>> /\ told' = "none"
        /\ setter' = [s \in Setters |-> "idle"] /\ noticing' = [s \in Setters |-> "lost"]
        /\ wasEverUp' = [s \in Setters |-> FALSE] /\ holding' = [s \in Setters |-> FALSE]
        /\ UNCHANGED <<marker, owed, changes>>
    BY <1>8 DEF Restart
  <2>2. Waiting' = {}
    BY <2>1 DEF Waiting
  <2>3. IsFiniteSet({}) /\ Cardinality({}) = 0
    BY FS_EmptySet
  <2>4. Size' + Count' <= changes' /\ Size' <= changes' /\ IsFiniteSet(Waiting')
    <3>1. Count' = 0 /\ IsFiniteSet(Waiting')
      BY <2>2, <2>3, Zenon
    <3>2. Size' = 0 /\ changes' = changes
      BY <2>1
    <3> QED
      BY <1>0, <3>1, <3>2
  <2>5. /\ link' \in BOOLEAN /\ everUp' \in BOOLEAN /\ marker' \in BOOLEAN /\ owed' \in BOOLEAN
        /\ pendingNotices' \in Seq(Notices) /\ changes' \in 0..MaxChanges
    <3>1. marker \in BOOLEAN /\ owed \in BOOLEAN /\ changes \in 0..MaxChanges
      BY <1>0, NoticeParts
    <3>2. <<>> \in Seq(Notices)
      OBVIOUS
    <3> QED
      BY <2>1, <3>1, <3>2, Zenon
  <2>6. NoticeShape'
    BY <2>1, <2>4, <2>5, NoticePartsNext DEF Notices
  <2> QED
    BY <2>4, <2>6 DEF NoticeTyped
<1>9. CASE Reload \/ UNCHANGED noticeVars
  <2>1. /\ UNCHANGED <<link, setter, noticing, wasEverUp, holding, pendingNotices, marker, told, owed, changes>>
        /\ everUp' = everUp \/ everUp' = TRUE
    BY <1>9 DEF Reload, noticeVars
  <2>2. everUp' \in BOOLEAN
    <3>1. everUp \in BOOLEAN
      BY <1>0, NoticeParts
    <3> QED
      BY <2>1, <3>1, Zenon
  <2>3. NoticeShape'
    BY <1>0, <2>1, <2>2, NoticeParts, NoticePartsNext
  <2>4. Waiting' = Waiting
    BY <2>1 DEF Waiting
  <2>5. Size' + Count' <= changes' /\ IsFiniteSet(Waiting')
    <3>1. Count' = Count /\ IsFiniteSet(Waiting')
      BY <1>0, <2>4, Zenon
    <3>2. Size' = Size /\ changes' = changes
      BY <2>1
    <3> QED
      BY <1>0, <3>1, <3>2
  <2> QED
    BY <2>3, <2>5 DEF NoticeTyped
<1> QED
  BY <1>3, <1>4, <1>5, <1>6, <1>7, <1>8, <1>9 DEF NoticesNext
LEMMA WatchTyped == WatchTypeOK /\ [WatchNext]_watchVars => WatchTypeOK'
<1> SUFFICES ASSUME WatchTypeOK, [WatchNext]_watchVars PROVE WatchTypeOK'
  OBVIOUS
<1>0. /\ startAge \in Ages /\ quietAge \in Ages /\ asked \in Nat /\ staleEvents \in 0..MaxStaleAttempts
      /\ eventAge \in Ages \cup {Never} /\ askAge \in Ages \cup {Never} /\ steadyAge \in Ages \cup {Never}
      /\ kind \in WatchKinds /\ device \in [Metrics -> MetricValues] /\ lastRow \in Rows /\ staleNow \in BOOLEAN
      /\ 0 \in Ages
  BY WatchConstants DEF WatchTypeOK, Ages
<1>1. CASE JudgeReading
  <2>1. PICK S \in Reports :
          LET row == [m \in S |-> device[m]]
          IN /\ staleNow' = CheckIsStale(row)
             /\ IF StartsPeriod(row)
                   THEN lastRow' = row /\ startAge' = 0 /\ staleEvents' = 0 /\ eventAge' = Never
                   ELSE /\ staleEvents' = IF Asks(row) THEN staleEvents + 1 ELSE staleEvents
                        /\ eventAge' = IF Asks(row) THEN 0 ELSE eventAge
                        /\ UNCHANGED <<lastRow, startAge>>
             /\ Observe(row) /\ UNCHANGED <<kind, device>>
    BY <1>1 DEF JudgeReading
  <2> DEFINE row == [m \in S |-> device[m]]
  <2>2. S \subseteq Metrics /\ row \in [S -> MetricValues] /\ row \in Rows
    BY <1>0, WatchConstants DEF Rows
  <2>3. staleNow' = CheckIsStale(row) /\ Observe(row) /\ UNCHANGED <<kind, device>>
    BY <2>1
  <2>4. /\ lastRow' \in {lastRow, row} /\ startAge' \in {startAge, 0} /\ eventAge' \in {Never, 0, eventAge}
        /\ staleEvents' \in {0, staleEvents} \/ (Asks(row) /\ staleEvents' = staleEvents + 1)
    BY <2>1
  <2> HIDE DEF row
  <2>5. staleEvents' \in 0..MaxStaleAttempts
    BY <1>0, <2>4, WatchConstants DEF Asks, MayAsk
  <2>6. staleNow' \in BOOLEAN
    BY <2>3 DEF CheckIsStale
  <2>7. reported' \in UNION {[D -> MetricValues] : D \in SUBSET Metrics}
    <3>1. PICK D \in SUBSET Metrics : reported \in [D -> MetricValues]
      BY DEF WatchTypeOK
    <3>2. reported' = [m \in D \cup S |-> IF m \in S THEN row[m] ELSE reported[m]]
      BY <2>2, <2>3, <3>1 DEF Observe
    <3>3. reported' \in [D \cup S -> MetricValues] /\ D \cup S \in SUBSET Metrics
      BY <2>2, <3>1, <3>2
    <3> QED
      BY <3>3
  <2>8. /\ quietAge' \in {0, quietAge} /\ steadyAge' \in {0, steadyAge} /\ askAge' \in {0, Never, askAge}
        /\ \E a \in {0, asked}, b \in {0, 1} : asked' = a + b
    BY <2>3 DEF Observe
  <2>9. {startAge', quietAge'} \subseteq Ages /\ {eventAge', askAge', steadyAge'} \subseteq Ages \cup {Never} /\ asked' \in Nat
    BY <1>0, <2>4, <2>8
  <2>10. kind' \in WatchKinds /\ device' \in [Metrics -> MetricValues] /\ lastRow' \in Rows
    BY <1>0, <2>2, <2>3, <2>4
  <2> QED
    BY <2>5, <2>6, <2>7, <2>9, <2>10 DEF WatchTypeOK
<1>2. CASE TimePasses
  <2>1. /\ startAge' \in Ages /\ quietAge' \in Ages
        /\ eventAge' \in Ages \cup {Never} /\ askAge' \in Ages \cup {Never} /\ steadyAge' \in Ages \cup {Never}
    BY <1>0, <1>2, OlderAge DEF TimePasses
  <2>2. UNCHANGED <<kind, device, lastRow, staleEvents, staleNow, reported, asked>>
    BY <1>2 DEF TimePasses
  <2> QED
    BY <2>1, <2>2 DEF WatchTypeOK
<1>3. CASE DeviceChanges
  <2>1. /\ device' \in [Metrics -> MetricValues] /\ steadyAge' = Never
        /\ UNCHANGED <<kind, lastRow, startAge, eventAge, staleEvents, staleNow, reported, quietAge, asked, askAge>>
    BY <1>3 DEF DeviceChanges
  <2> QED
    BY <2>1 DEF WatchTypeOK
<1>4. CASE ForgetTransport
  <2>1. /\ UNCHANGED <<kind, device>> /\ staleNow' \in BOOLEAN
        /\ lastRow' = NoRow /\ startAge' = 0 /\ eventAge' = Never /\ staleEvents' = 0
        /\ reported' = NoRow /\ quietAge' = 0 /\ steadyAge' = Never /\ asked' = 0 /\ askAge' = Never
    BY <1>4 DEF ForgetTransport
  <2>2. lastRow' \in Rows /\ reported' \in UNION {[D -> MetricValues] : D \in SUBSET Metrics}
    BY <2>1, EmptyRow
  <2> QED
    BY <1>0, <2>1, <2>2, WatchConstants DEF WatchTypeOK
<1>5. CASE UNCHANGED watchVars
  BY <1>5 DEF watchVars, WatchTypeOK
<1> QED
  BY <1>1, <1>2, <1>3, <1>4, <1>5 DEF WatchNext

----------------------------------------------------------------------------
(* The parts side by side.                                                  *)

BridgesTyped == WatchTypeOK /\ PrometheusInv /\ CommandInv /\ NoticeTyped /\ LineTyped

LEMMA BridgesStart == PartInit => BridgesTyped
<1> SUFFICES ASSUME PartInit PROVE BridgesTyped
  OBVIOUS
<1>1. WatchTypeOK
  BY WatchInitially DEF PartInit, WatchInv
<1>2. PrometheusInv
  BY PrometheusStart DEF PartInit
<1>3. CommandInv
  BY CommandStart DEF PartInit
<1>4. NoticeTyped
  <2>1. NoticesInit /\ NoticeShape
    BY NoticeStart DEF PartInit, NoticeInv
  <2>2. Waiting = {} /\ pendingNotices = <<>> /\ changes = 0
    BY <2>1 DEF NoticesInit, Waiting
  <2>3. IsFiniteSet({}) /\ Cardinality({}) = 0
    BY FS_EmptySet
  <2>4. IsFiniteSet(Waiting) /\ Cardinality(Waiting) = 0
    BY <2>2, <2>3, Zenon
  <2> QED
    BY <2>1, <2>2, <2>4 DEF NoticeTyped
<1>5. LineTyped
  BY SerialInitTyped DEF PartInit
<1> QED
  BY <1>1, <1>2, <1>3, <1>4, <1>5 DEF BridgesTyped

LEMMA BridgesStep == BridgesTyped /\ OwnLabelled /\ [PartNext]_partVars => BridgesTyped'
<1> SUFFICES ASSUME BridgesTyped, OwnLabelled, [PartNext]_partVars PROVE BridgesTyped'
  OBVIOUS
<1>1. [WatchNext]_watchVars /\ [PrometheusNext]_prometheusVars /\ [CommandNext]_commandVars
      /\ [NoticesNext]_noticeVars /\ [SerialNext]_serialVars
  BY DEF PartNext, partVars, OnSerial
<1> QED
  BY <1>1, WatchTyped, PrometheusKeeps, CommandsKeep, NoticesTyped, SerialTyped DEF BridgesTyped

\* Every part keeps its types: ages stop at their horizon, no more notices wait
\* than there were changes, a serial line never holds more than a frame, and
\* topics, announcements and routes are of bridged devices and their entities.
THEOREM BridgesStayTyped == OwnLabelled => (PartSpec => []BridgesTypeOK)
<1> SUFFICES ASSUME OwnLabelled PROVE PartSpec => []BridgesTypeOK
  OBVIOUS
<1>1. BridgesTyped => BridgesTypeOK
  BY DEF BridgesTyped, BridgesTypeOK, PrometheusInv, CommandInv, NoticeTyped, NoticeShape, LineTyped
<1>2. BridgesTyped /\ [PartNext]_partVars => BridgesTyped'
  BY BridgesStep
<1> QED
  BY BridgesStart, <1>1, <1>2, PTL DEF PartSpec

----------------------------------------------------------------------------
(* serial_frame_client: the sections of one serial port, for any number of  *)
(* sections, commands, clients and faults, as long as no device answers     *)
(* after the timeout.                                                       *)

Commands == {Hello} \cup ToSet(Polls)
Token == {SOI, EOI} \cup {Body(q[1], q[2]) : q \in Requests}

LineTypeOK ==
    /\ SerialTypeOK /\ style \in {"command", "listen"}
    /\ agenda \in [Sections -> Seq(Commands)] /\ DOMAIN buf = Sections /\ DOMAIN taken = Sections
    /\ coming \in Seq(Token) /\ wire \in Seq(Token) /\ mishaps + unplugs <= MaxFaults

----------------------------------------------------------------------------
(* Who holds the lock and the client. *)

LockInv ==
    \A s \in Sections :
        /\ holder = s <=> work[s] # "idle"
        /\ agenda[s] = <<>> => work[s] = "idle"

\* While the gateway is up a section has the client of the registry or none; one that asks,
\* and every section that has commands to send, has one. As soon as one is cleaned up the port
\* is closed for all.
ClientInv ==
    /\ open \subseteq {shared}
    /\ \A s \in Sections :
        /\ gateway = "up" => mine[s] \in {0, shared} /\ (style = "command" \/ work[s] # "idle" => mine[s] # 0)
        /\ gateway = "stopping" => open = {} \/ (mine[s] \in {0, shared} /\ (style = "command" => mine[s] # 0))
        /\ gateway = "down" => mine[s] = 0 /\ agenda[s] = <<>>

----------------------------------------------------------------------------
(* What is under way between a device and read(). *)

\* The place of a token in its frame, and the place after it.
Place(x) == IF x = SOI THEN 1 ELSE IF x = EOI THEN 3 ELSE 2
After(n) == IF n = 3 THEN 1 ELSE n + 1

\* The frame around y without its first m tokens.
Rest(y, m) == CASE m = 0 -> <<SOI, y, EOI>> [] m = 1 -> <<y, EOI>> [] m = 2 -> <<EOI>> [] m = 3 -> <<>>

\* What read() can have in its buffer of that frame while it has no EOI.
Begun(y) == {<<>>, <<SOI>>, <<SOI, y>>}

\* Tokens of that frame behind the k-th and up to the m-th, some of them lost.
Between(w, y, k, m) ==
    /\ w \in Seq({SOI, y, EOI}) /\ \A i \in 1 .. Len(w) : k < Place(w[i]) /\ Place(w[i]) <= m
    /\ \A i, j \in 1 .. Len(w) : i < j => Place(w[i]) < Place(w[j])

\* The exchange of s: its device has not answered, or has, and what has come of
\* the answer is in order.
Answering(s, y) ==
    \E m \in 0 .. 3 :
        /\ coming = Rest(y, m)
        /\ work[s] = "reading" =>
            \E k \in 0 .. m : buf[s] \in Begun(y) /\ Len(buf[s]) <= k /\ Between(wire, y, k, m)
ExchangeInv(s) ==
    \/ expected = {<<s, Head(agenda[s])>>} /\ coming = <<>> /\ (work[s] = "reading" => wire = <<>> /\ buf[s] = <<>>)
    \/ expected = {} /\ Answering(s, Body(s, Head(agenda[s])))

CommandLineInv ==
    style = "command" =>
        /\ \A d \in expected : holder \in Sections /\ d = <<holder, Head(agenda[holder])>>
        /\ open # {} => IF holder = Nobody THEN coming = <<>> ELSE ExchangeInv(holder)
        /\ \A s \in Sections : \A t \in taken[s] : t[2] = <<Body(s, t[1])>>

\* As long as nothing is lost, the tokens a listener has before it follow each other, whatever
\* frame they are of.
StreamInv(s, y, m) ==
    /\ \A i \in 1 .. Len(wire) : wire[i] \in {SOI, y, EOI}
    /\ \A i \in 1 .. Len(wire) - 1 : Place(wire[i + 1]) = After(Place(wire[i]))
    /\ wire # <<>> => After(Place(wire[Len(wire)])) = After(m)
    /\ buf[s] \in Begun(y)
    /\ buf[s] # <<>> => Len(buf[s]) + 1 = IF wire = <<>> THEN After(m) ELSE Place(wire[1])

Spoken == Body(AnyDevice[1], Hello)
ListenLineInv ==
    style = "listen" =>
        /\ expected = {}
        /\ \E m \in 0 .. 3 :
            /\ coming = Rest(Spoken, m)
            /\ mishaps = 0 /\ open # {} => \A s \in Sections : work[s] = "reading" => StreamInv(s, Spoken, m)
        /\ \A s \in Sections : \A t \in taken[s] : mishaps = 0 => Len(t[2]) = 1

SerialInv == LineTypeOK /\ LockInv /\ ClientInv /\ CommandLineInv /\ ListenLineInv

----------------------------------------------------------------------------
(* Tokens and buffers. *)

LEMMA SerialNumbers ==
  /\ MaxFrame \in Nat /\ MaxClients \in Nat /\ MaxFaults \in Nat /\ Nobody \notin Sections
  /\ Polls \in Seq(Commands) /\ Hello \in Commands /\ 0 \notin Clients
<1>1. Polls \in Seq(Nat \ {0})
  BY SerialAssumption
<1>2. Polls \in [1 .. Len(Polls) -> Commands] /\ Len(Polls) \in Nat
  BY <1>1 DEF Commands, ToSet
<1>3. Polls \in Seq(Commands)
  BY <1>2
<1> QED BY <1>3, SerialAssumption DEF Commands, Nobody, Clients

LEMMA TokensDiffer ==
  /\ SOI # EOI /\ Place(SOI) = 1 /\ Place(EOI) = 3
  /\ \A s, c : Body(s, c) # SOI /\ Body(s, c) # EOI
<1>1. SOI # EOI
  BY DEF SOI, EOI
<1>2. ASSUME NEW s, NEW c PROVE Body(s, c) # SOI /\ Body(s, c) # EOI
  <2>1. Len(Body(s, c)) = 3 /\ Len(SOI) = 1 /\ Len(EOI) = 1
    BY DEF Body, SOI, EOI
  <2> QED BY <2>1
<1> QED BY <1>1, <1>2 DEF Place

LEMMA Appended ==
  ASSUME NEW T, NEW q \in Seq(T), NEW x \in T
  PROVE  /\ Append(q, x) \in Seq(T) /\ Len(q) \in Nat /\ Len(Append(q, x)) = Len(q) + 1
         /\ Append(q, x)[Len(q) + 1] = x /\ \A i \in 1 .. Len(q) : Append(q, x)[i] = q[i]
  OBVIOUS

\* Of a buffer that begins with SOI read() keeps all, or nothing if it is too long.
LEMMA KeepsFromSOI ==
  ASSUME NEW T, NEW b \in Seq(T), Len(b) > 0, b[1] = SOI
  PROVE  Kept(b) \in {<<>>, b} /\ (Contains(b, EOI) => Kept(b) = b)
<1> DEFINE I == {i \in 1 .. Len(b) : b[i] = SOI}
<1>1. 1 \in I /\ \A i \in I : i \in Nat /\ 1 <= i
  OBVIOUS
<1>2. Min(I) = 1
  <2>1. \A x \in I : (\A z \in I : x <= z) => x = 1
    BY <1>1
  <2> HIDE DEF I
  <2> QED BY <1>1, <2>1 DEF Min
<1>3. SubSeq(b, 1, Len(b)) = b
  OBVIOUS
<1>4. I # {} /\ Min(I) # 0
  BY <1>1, <1>2
<1>5. Kept(b) = IF ~Contains(b, EOI) /\ Len(b) > MaxFrame THEN <<>> ELSE b
  BY <1>2, <1>3, <1>4 DEF Kept, SelectInSeq
<1> HIDE DEF I
<1> QED BY <1>5

LEMMA KeepsNothing ==
  ASSUME NEW T, NEW b \in Seq(T), \A i \in 1 .. Len(b) : b[i] # SOI
  PROVE  Kept(b) = <<>>
<1>1. {i \in 1 .. Len(b) : b[i] = SOI} = {}
  OBVIOUS
<1> QED BY <1>1 DEF Kept, SelectInSeq

\* What is between the markers of a frame that is complete, or has lost its body.
LEMMA Bodies ==
  ASSUME NEW y, y # SOI, y # EOI
  PROVE  BodyOf(<<SOI, y, EOI>>) = <<y>> /\ BodyOf(<<SOI, EOI>>) = <<>>
<1>1. ASSUME NEW T, NEW b \in Seq(T), NEW n \in 1 .. Len(b), b[n] = EOI, \A i \in 1 .. n - 1 : b[i] # EOI
      PROVE  BodyOf(b) = SubSeq(b, 2, n - 1)
  <2> DEFINE I == {i \in 1 .. Len(b) : b[i] = EOI}
  <2>1. n \in I /\ \A i \in I : i \in Nat /\ n <= i
    BY <1>1
  <2>2. Min(I) = n
    <3>1. \A x \in I : (\A z \in I : x <= z) => x = n
      BY <2>1
    <3> HIDE DEF I
    <3> QED BY <2>1, <3>1 DEF Min
  <2>3. I # {}
    BY <2>1
  <2> QED BY <2>2, <2>3 DEF BodyOf, SelectInSeq
<1>2. BodyOf(<<SOI, y, EOI>>) = <<y>>
  <2>1. PICK b : b = <<SOI, y, EOI>>
    OBVIOUS
  <2>2. Len(b) = 3 /\ b[1] = SOI /\ b[2] = y /\ b[3] = EOI /\ b \in Seq({SOI, y, EOI})
    BY <2>1
  <2>3. 3 \in 1 .. Len(b) /\ \A i \in 1 .. 3 - 1 : b[i] # EOI
    BY <2>2, TokensDiffer
  <2>4. BodyOf(b) = SubSeq(b, 2, 3 - 1)
    BY <1>1, <2>2, <2>3
  <2>5. SubSeq(b, 2, 2) = <<b[2]>>
    <3>1. PICK q : q = SubSeq(b, 2, 2)
      OBVIOUS
    <3>2. q \in Seq({SOI, y, EOI}) /\ Len(q) = 1 /\ q[1] = b[2]
      BY <2>2, <3>1
    <3>3. q = <<b[2]>>
      BY <3>2
    <3> QED BY <3>1, <3>3
  <2> QED BY <2>1, <2>2, <2>4, <2>5
<1>3. BodyOf(<<SOI, EOI>>) = <<>>
  <2>1. PICK b : b = <<SOI, EOI>>
    OBVIOUS
  <2>2. Len(b) = 2 /\ b[1] = SOI /\ b[2] = EOI /\ b \in Seq({SOI, EOI})
    BY <2>1
  <2>3. 2 \in 1 .. Len(b) /\ \A i \in 1 .. 2 - 1 : b[i] # EOI
    BY <2>2, TokensDiffer
  <2>4. BodyOf(b) = SubSeq(b, 2, 2 - 1)
    BY <1>1, <2>2, <2>3
  <2>5. SubSeq(b, 2, 1) = <<>>
    BY <2>2
  <2> QED BY <2>1, <2>4, <2>5
<1> QED BY <1>2, <1>3

\* One token of a frame more: it completes the frame only as its EOI, and then the frame's
\* body is what was sent or is missing.
LEMMA ReadStep ==
  ASSUME NEW y, y # SOI, y # EOI, NEW q \in Begun(y), NEW x \in {SOI, y, EOI}, Len(q) < Place(x),
         NEW b, b = Kept(Append(q, x))
  PROVE  /\ ~Contains(b, EOI) => b \in Begun(y) /\ Len(b) <= Place(x) /\ (b # <<>> => Len(b) = Place(x))
         /\ Contains(b, EOI) => x = EOI /\ BodyOf(b) \in {<<>>, <<y>>}
<1>1. Place(y) = 2 /\ Place(SOI) = 1 /\ Place(EOI) = 3 /\ SOI # EOI
  BY TokensDiffer DEF Place
<1>2. ~Contains(<<>>, EOI) /\ <<>> \in Begun(y) /\ Len(<<>>) = 0
  BY DEF Contains, Begun
<1>3. CASE q = <<>>
  <2>1. Append(q, x) = <<x>>
    BY <1>3
  <2>2. CASE x = SOI
    <3>1. PICK z : z = <<SOI>>
      OBVIOUS
    <3>2. z \in Seq({SOI}) /\ Len(z) = 1 /\ z[1] = SOI
      BY <3>1
    <3>3. b \in {<<>>, z}
      <4>1. Kept(z) \in {<<>>, z}
        BY <3>2, KeepsFromSOI
      <4>2. Append(q, x) = z
        BY <2>1, <2>2, <3>1
      <4> QED BY <4>1, <4>2
    <3>4. ~Contains(z, EOI) /\ z \in Begun(y)
      BY <1>1, <3>1, <3>2 DEF Contains, Begun
    <3>5. CASE b = z
      <4>1. ~Contains(b, EOI) /\ b \in Begun(y)
        BY <3>4, <3>5
      <4>2. Len(b) = 1 /\ Place(x) = 1
        BY <1>1, <2>2, <3>2, <3>5
      <4> QED BY <4>1, <4>2
    <3>6. CASE b = <<>>
      BY <1>1, <1>2, <3>6
    <3> QED BY <3>3, <3>5, <3>6
  <2>3. CASE x # SOI
    <3>1. PICK z : z = <<x>>
      OBVIOUS
    <3>2. z \in Seq({x}) /\ Len(z) = 1 /\ z[1] = x
      BY <3>1
    <3>3. b = <<>>
      <4>1. Kept(z) = <<>>
        BY <2>3, <3>2, KeepsNothing
      <4>2. Append(q, x) = z
        BY <2>1, <3>1
      <4> QED BY <4>1, <4>2
    <3> QED BY <1>1, <1>2, <3>3
  <2> QED BY <2>2, <2>3
<1>4. CASE q = <<SOI>>
  <2>0. Len(q) = 1 /\ Append(q, x) = <<SOI, x>>
    <3>1. q \in Seq({SOI, x}) /\ Len(q) = 1 /\ q[1] = SOI
      BY <1>4
    <3>2. PICK z : z = Append(q, x)
      OBVIOUS
    <3>3. z \in Seq({SOI, x}) /\ Len(z) = 2 /\ z[1] = SOI /\ z[2] = x
      <4>1. x \in {SOI, x}
        OBVIOUS
      <4>2. PICK T : T = {SOI, x}
        OBVIOUS
      <4>3. q \in Seq(T) /\ x \in T
        BY <3>1, <4>1, <4>2
      <4>4. z \in Seq(T) /\ Len(z) = Len(q) + 1 /\ z[Len(q) + 1] = x /\ \A i \in 1 .. Len(q) : z[i] = q[i]
        BY ONLY <3>2, <4>3, Appended
      <4> QED BY <3>1, <4>2, <4>4
    <3>4. z = <<SOI, x>>
      BY <3>3
    <3> QED BY <3>1, <3>2, <3>4
  <2>1. Append(q, x) = <<SOI, x>> /\ x # SOI
    BY <1>1, <2>0
  <2>2. PICK z : z = <<SOI, x>>
    OBVIOUS
  <2>3. z \in Seq({SOI, x}) /\ Len(z) = 2 /\ z[1] = SOI /\ z[2] = x
    BY <2>2
  <2>4. b \in {<<>>, z} /\ (Contains(z, EOI) => b = z)
    <3>1. Kept(z) \in {<<>>, z} /\ (Contains(z, EOI) => Kept(z) = z)
      BY <2>3, KeepsFromSOI
    <3>2. Append(q, x) = z
      BY <2>1, <2>2
    <3> QED BY <3>1, <3>2
  <2>5. CASE x = y
    <3>1. ~Contains(z, EOI) /\ z \in Begun(y)
      BY <1>1, <2>2, <2>3, <2>5 DEF Contains, Begun
    <3>2. CASE b = z
      <4>1. ~Contains(b, EOI) /\ b \in Begun(y)
        BY <3>1, <3>2
      <4>2. Len(b) = 2 /\ Place(x) = 2
        BY <1>1, <2>3, <2>5, <3>2
      <4> QED BY <4>1, <4>2
    <3>3. CASE b = <<>>
      BY <1>1, <1>2, <3>3
    <3> QED BY <2>4, <3>2, <3>3
  <2>6. CASE x = EOI
    <3>1. Contains(z, EOI)
      BY <2>3, <2>6 DEF Contains
    <3> QED BY <2>2, <2>4, <2>6, <3>1, Bodies
  <2> QED BY <2>1, <2>5, <2>6
<1>5. CASE q = <<SOI, y>>
  <2>0. Len(q) = 2 /\ Append(q, x) = <<SOI, y, x>>
    <3>1. q \in Seq({SOI, y, x}) /\ Len(q) = 2 /\ q[1] = SOI /\ q[2] = y
      BY <1>5
    <3>2. PICK z : z = Append(q, x)
      OBVIOUS
    <3>3. z \in Seq({SOI, y, x}) /\ Len(z) = 3 /\ z[1] = SOI /\ z[2] = y /\ z[3] = x
      <4>1. x \in {SOI, y, x}
        OBVIOUS
      <4>2. PICK T : T = {SOI, y, x}
        OBVIOUS
      <4>3. q \in Seq(T) /\ x \in T
        BY <3>1, <4>1, <4>2
      <4>4. z \in Seq(T) /\ Len(z) = Len(q) + 1 /\ z[Len(q) + 1] = x /\ \A i \in 1 .. Len(q) : z[i] = q[i]
        BY ONLY <3>2, <4>3, Appended
      <4> QED BY <3>1, <4>2, <4>4
    <3>4. z = <<SOI, y, x>>
      BY <3>3
    <3> QED BY <3>1, <3>2, <3>4
  <2>1. Append(q, x) = <<SOI, y, x>> /\ x = EOI
    BY <1>1, <2>0
  <2>2. PICK z : z = <<SOI, y, EOI>>
    OBVIOUS
  <2>3. z \in Seq({SOI, y, EOI}) /\ Len(z) = 3 /\ z[1] = SOI /\ z[3] = EOI
    BY <2>2
  <2>4. Contains(z, EOI)
    BY <2>3 DEF Contains
  <2>5. b = z
    <3>1. Kept(z) = z
      BY <2>3, <2>4, KeepsFromSOI
    <3>2. Append(q, x) = z
      BY <2>1, <2>2
    <3> QED BY <3>1, <3>2
  <2> QED BY <2>1, <2>2, <2>4, <2>5, Bodies
<1> QED BY <1>3, <1>4, <1>5 DEF Begun

LEMMA RestStep ==
  ASSUME NEW y, y # SOI, y # EOI, NEW m \in 0 .. 3
  PROVE  /\ Rest(y, m) = <<>> <=> m = 3
         /\ m # 3 => /\ Tail(Rest(y, m)) = Rest(y, m + 1) /\ Head(Rest(y, m)) \in {SOI, y, EOI}
                     /\ Place(Head(Rest(y, m))) = m + 1
<1>1. Place(y) = 2 /\ Place(SOI) = 1 /\ Place(EOI) = 3
  BY TokensDiffer DEF Place
<1>2. CASE m = 0
  BY <1>1, <1>2 DEF Rest
<1>3. CASE m = 1
  BY <1>1, <1>3 DEF Rest
<1>4. CASE m = 2
  BY <1>1, <1>4 DEF Rest
<1>5. CASE m = 3
  BY <1>5 DEF Rest
<1> QED BY <1>2, <1>3, <1>4, <1>5

----------------------------------------------------------------------------
(* The steps. *)

LEMMA SerialStart ==
  ASSUME SerialInit
  PROVE  SerialInv
<1> USE DEF SerialInit
<1>1. LineTypeOK
  BY SerialNumbers DEF LineTypeOK, SerialTypeOK
<1>2. LockInv /\ ClientInv
  BY SerialNumbers DEF LockInv, ClientInv
<1>3. CommandLineInv
  BY DEF CommandLineInv
<1>4. ListenLineInv
  <2>1. 3 \in 0 .. 3 /\ coming = Rest(Spoken, 3)
    BY DEF Rest
  <2> QED BY <2>1 DEF ListenLineInv
<1> QED BY <1>1, <1>2, <1>3, <1>4 DEF SerialInv

\* What the lines are in is not touched by a step that only closes the port.
LEMMA LinesKept ==
  ASSUME CommandLineInv, ListenLineInv, open' \subseteq open,
         UNCHANGED <<style, agenda, work, holder, buf, taken, expected, coming, wire, mishaps>>
  PROVE  CommandLineInv' /\ ListenLineInv'
<1>1. CommandLineInv'
  BY DEF CommandLineInv, ExchangeInv, Answering, Between, Begun
<1>2. ListenLineInv'
  BY DEF ListenLineInv, StreamInv, Begun
<1> QED BY <1>1, <1>2

LEMMA PlugKeeps ==
  ASSUME SerialInv, PlugIn \/ StopSections \/ SectionsGone
  PROVE  SerialInv'
<1> USE DEF SerialInv, PlugIn, StopSections, SectionsGone, sectionVars, lineVars, lifeVars
<1>1. /\ UNCHANGED <<style, open, shared, mine, linked, versed, agenda, work, holder, buf, taken, failed>>
      /\ UNCHANGED <<expected, coming, wire, mishaps, unplugs>>
  OBVIOUS
<1>2. plugged' \in BOOLEAN /\ gateway' \in {"down", "up", "stopping"}
  BY DEF LineTypeOK, SerialTypeOK
<1>3. LineTypeOK'
  BY <1>1, <1>2 DEF LineTypeOK, SerialTypeOK
<1>4. LockInv'
  BY <1>1 DEF LockInv
<1>5. ClientInv'
  BY <1>1 DEF ClientInv
<1> QED BY <1>1, <1>3, <1>4, <1>5, LinesKept

LEMMA UnplugKeeps ==
  ASSUME SerialInv, Unplug
  PROVE  SerialInv'
<1> USE SerialNumbers DEF SerialInv
<1>1. /\ open' = {} /\ coming' = <<>> /\ wire' = <<>> /\ expected' = {} /\ plugged' = FALSE
      /\ mishaps + unplugs < MaxFaults /\ unplugs' = unplugs + 1
      /\ UNCHANGED <<style, gateway, shared, mine, linked, versed, agenda, work, holder, buf, taken, failed, mishaps>>
  BY DEF Unplug, MayFault
<1>2. mishaps \in Nat /\ unplugs \in Nat /\ unplugs' \in 0 .. MaxFaults /\ mishaps' + unplugs' <= MaxFaults
  BY <1>1 DEF LineTypeOK, SerialTypeOK
<1>3. LineTypeOK'
  <2>1. Len(coming') <= 3 /\ Len(wire') <= MaxFrame /\ coming' \in Seq(Token) /\ wire' \in Seq(Token)
    BY <1>1
  <2> QED BY <1>1, <1>2, <2>1 DEF LineTypeOK, SerialTypeOK
<1>4. LockInv' /\ ClientInv'
  BY <1>1 DEF LockInv, ClientInv
<1>5. CommandLineInv'
  BY <1>1 DEF CommandLineInv
<1>6. ListenLineInv'
  <2>1. 3 \in 0 .. 3 /\ coming' = Rest(Spoken, 3)
    BY <1>1 DEF Rest
  <2> QED BY <1>1, <2>1 DEF ListenLineInv
<1> QED BY <1>3, <1>4, <1>5, <1>6

\* The client a section acquires is the one of the registry, and a new one is the only one.
LEMMA AcquireGives ==
  ASSUME LineTypeOK, open \subseteq {shared}, NEW who \in SUBSET Sections, AcquireClient(who)
  PROVE  /\ shared' \in Clients /\ open' \subseteq {shared'} /\ open' \subseteq Clients
         /\ mine' = [s \in Sections |-> IF s \in who THEN shared' ELSE mine[s]]
         /\ shared # 0 => shared' = shared /\ open' = open
<1>0. /\ shared \in 0..MaxClients /\ MaxClients \in Nat /\ open \subseteq Clients
      /\ mine' = [s \in Sections |-> IF s \in who THEN shared' ELSE mine[s]]
  BY SerialNumbers DEF AcquireClient, LineTypeOK, SerialTypeOK
<1>1. CASE shared # 0
  <2>1. shared' = shared /\ open' = open
    BY <1>1 DEF AcquireClient
  <2>2. shared \in Clients
    BY <1>0, <1>1 DEF Clients
  <2> QED BY <1>0, <2>1, <2>2
<1>2. CASE shared = 0
  <2>1. PICK c \in Unused : shared' = c /\ open' = open \cup {c}
    BY <1>2 DEF AcquireClient
  <2>2. c \in Clients /\ open = {}
    BY <1>0, <1>2 DEF Unused, Clients
  <2> QED BY <1>0, <1>2, <2>1, <2>2
<1> QED BY <1>1, <1>2

LEMMA BuildKeeps ==
  ASSUME SerialInv, ~MayAnswerLate, BuildSections
  PROVE  SerialInv'
<1> USE SerialNumbers DEF SerialInv
<1>1. /\ gateway = "down" /\ gateway' = "up" /\ coming = <<>> /\ expected = {} /\ wire' = <<>>
      /\ IF style = "command" THEN AcquireClient(Sections) ELSE UNCHANGED <<open, shared, mine>>
      /\ versed' = [s \in Sections |-> FALSE] /\ failed' = [s \in Sections |-> FALSE]
      /\ taken' = [s \in Sections |-> {}]
      /\ UNCHANGED <<style, plugged, linked, agenda, work, holder, buf, expected, coming, mishaps, unplugs>>
  BY DEF BuildSections
<1>2. /\ \A s \in Sections : mine[s] = 0 /\ agenda[s] = <<>> /\ work[s] = "idle"
      /\ holder = Nobody /\ open \subseteq {shared}
  BY <1>1 DEF ClientInv, LockInv, LineTypeOK, SerialTypeOK
<1>3. /\ open' \subseteq {shared'} /\ open' \subseteq Clients /\ shared' \in 0 .. MaxClients
      /\ \A s \in Sections : mine'[s] \in {0, shared'} /\ (style = "command" => mine'[s] # 0)
      /\ mine' \in [Sections -> 0 .. MaxClients]
  <2>1. CASE style = "command"
    <3>1. /\ shared' \in Clients /\ open' \subseteq {shared'} /\ open' \subseteq Clients
          /\ mine' = [s \in Sections |-> IF s \in Sections THEN shared' ELSE mine[s]]
      BY <1>1, <1>2, <2>1, AcquireGives
    <3> QED BY <3>1 DEF Clients
  <2>2. CASE style # "command"
    BY <1>1, <1>2, <2>2 DEF LineTypeOK, SerialTypeOK
  <2> QED BY <2>1, <2>2
<1>4. LineTypeOK'
  <2>1. Len(wire') <= MaxFrame /\ wire' \in Seq(Token)
    BY <1>1
  <2>2. versed' \in [Sections -> BOOLEAN] /\ failed' \in [Sections -> BOOLEAN] /\ DOMAIN taken' = Sections
    BY <1>1
  <2> QED BY <1>1, <1>3, <2>1, <2>2 DEF LineTypeOK, SerialTypeOK
<1>5. LockInv' /\ ClientInv'
  BY <1>1, <1>2, <1>3 DEF LockInv, ClientInv
<1>6. \A s \in Sections : taken'[s] = {}
  BY <1>1
<1>7. CommandLineInv'
  BY <1>1, <1>2, <1>6 DEF CommandLineInv
<1>8. ListenLineInv'
  <2>1. 3 \in 0 .. 3 /\ coming' = Rest(Spoken, 3)
    BY <1>1 DEF Rest
  <2>2. \A s \in Sections : work'[s] # "reading"
    BY <1>1, <1>2
  <2> QED BY <1>1, <1>6, <2>1, <2>2 DEF ListenLineInv
<1> QED BY <1>4, <1>5, <1>7, <1>8

LEMMA CleanUpKeeps ==
  ASSUME SerialInv, NEW s \in Sections, CleanUp(s)
  PROVE  SerialInv'
<1> USE SerialNumbers DEF SerialInv
<1>1. /\ gateway = "stopping" /\ mine' = [mine EXCEPT ![s] = 0] /\ linked' = [linked EXCEPT ![s] = FALSE]
      /\ shared' = (IF shared = mine[s] THEN 0 ELSE shared) /\ open' = open \ {mine[s]}
      /\ UNCHANGED <<versed, agenda, work, holder, buf, taken, failed, style, gateway, plugged, unplugs>>
      /\ UNCHANGED <<expected, coming, wire, mishaps>>
  BY DEF CleanUp, Evicted, lifeVars, lineVars
<1>2. LineTypeOK'
  <2>1. mine' \in [Sections -> 0 .. MaxClients] /\ shared' \in 0 .. MaxClients /\ open' \subseteq Clients
    BY <1>1 DEF LineTypeOK, SerialTypeOK
  <2>2. linked' \in [Sections -> BOOLEAN]
    BY <1>1, Zenon DEF LineTypeOK, SerialTypeOK
  <2> QED BY <1>1, <2>1, <2>2 DEF LineTypeOK, SerialTypeOK
<1>3. LockInv'
  BY <1>1 DEF LockInv
<1>4. ClientInv'
  <2>1. open' \subseteq {shared'}
    BY <1>1 DEF ClientInv
  <2>2. ASSUME NEW t \in Sections, open' # {}
        PROVE  mine'[t] \in {0, shared'} /\ (style = "command" => mine'[t] # 0)
    <3>1. /\ open = {shared} /\ mine[s] # shared /\ shared' = shared
          /\ \A u \in Sections : mine[u] \in {0, shared} /\ (style = "command" => mine[u] # 0)
      BY <1>1, <2>2 DEF ClientInv
    <3>2. style # "command" /\ mine[s] = 0
      BY <3>1
    <3> QED BY <1>1, <3>1, <3>2 DEF LineTypeOK, SerialTypeOK
  <2> QED BY <1>1, <2>1, <2>2 DEF ClientInv
<1> QED BY <1>1, <1>2, <1>3, <1>4, LinesKept

LEMMA PollKeeps ==
  ASSUME SerialInv, NEW s \in Sections, Poll(s)
  PROVE  SerialInv'
<1> USE SerialNumbers DEF SerialInv
<1>1. /\ gateway = "up" /\ agenda[s] = <<>>
      /\ taken' = [taken EXCEPT ![s] = {}] /\ failed' = [failed EXCEPT ![s] = FALSE]
      /\ UNCHANGED <<versed, work, holder, buf, style, gateway, plugged, unplugs, expected, coming, wire, mishaps>>
  BY DEF Poll, lifeVars, lineVars
<1>2. work[s] = "idle" /\ holder # s
  BY <1>1 DEF LockInv
<1>3. PollList \in Seq(Commands) /\ (<<Hello>> \o PollList) \in Seq(Commands)
  <2>1. <<Hello>> \in Seq(Commands) /\ PollList \in Seq(Commands)
    BY DEF PollList
  <2> QED BY <2>1
<1>4. PICK todo \in Seq(Commands) : agenda' = [agenda EXCEPT ![s] = todo]
  BY <1>3 DEF Poll
<1>5. linked' \in [Sections -> BOOLEAN]
  <2>1. linked' = linked \/ linked' = [linked EXCEPT ![s] = style = "listen" \/ versed[s]]
    BY DEF Poll
  <2>2. (style = "listen" \/ versed[s]) \in BOOLEAN
    OBVIOUS
  <2> QED BY <2>1, <2>2, Zenon DEF LineTypeOK, SerialTypeOK
<1>6. failed' \in [Sections -> BOOLEAN]
  BY <1>1, Zenon DEF LineTypeOK, SerialTypeOK
<1>7. \/ UNCHANGED <<open, shared, mine>>
      \/ /\ mine[s] = 0 /\ shared' \in Clients /\ open' \subseteq {shared'} /\ open' \subseteq Clients
         /\ mine' = [t \in Sections |-> IF t \in {s} THEN shared' ELSE mine[t]]
         /\ shared # 0 => shared' = shared /\ open' = open
  <2>1. CASE UNCHANGED <<open, shared, mine>>
    BY <2>1
  <2>2. CASE mine[s] = 0 /\ AcquireClient({s})
    BY <2>2, AcquireGives DEF ClientInv
  <2> QED BY <2>1, <2>2 DEF Poll
<1>8. \A t \in Sections : mine[t] \in {0, shared} /\ (style = "command" \/ work[t] # "idle" => mine[t] # 0)
  BY <1>1 DEF ClientInv
<1>9. /\ open' \subseteq {shared'} /\ open' \subseteq Clients /\ shared' \in 0 .. MaxClients
      /\ mine' \in [Sections -> 0 .. MaxClients]
      /\ \A t \in Sections : mine'[t] \in {0, shared'} /\ (style = "command" \/ work[t] # "idle" => mine'[t] # 0)
  <2>1. CASE UNCHANGED <<open, shared, mine>>
    BY <1>8, <2>1 DEF ClientInv, LineTypeOK, SerialTypeOK
  <2>2. CASE ~UNCHANGED <<open, shared, mine>>
    <3>1. shared' \in 1 .. MaxClients
      BY <1>7, <2>2 DEF Clients
    <3>2. \A t \in Sections : t # s => mine'[t] = mine[t]
      BY <1>7, <2>2
    <3>3. \A t \in Sections : mine'[t] \in {0, shared'} /\ (mine[t] # 0 => mine'[t] # 0)
      BY <1>7, <1>8, <2>2, <3>1, <3>2
    <3>4. \A t \in Sections : mine[t] \in 0 .. MaxClients /\ mine'[t] \in 0 .. MaxClients
      <4>1. \A t \in Sections : mine[t] \in 0 .. MaxClients
        BY DEF LineTypeOK, SerialTypeOK
      <4>2. 0 \in 0 .. MaxClients /\ shared' \in 0 .. MaxClients
        BY <3>1
      <4> QED BY <3>3, <4>1, <4>2
    <3>5. mine' \in [Sections -> 0 .. MaxClients]
      <4>1. mine' = [t \in Sections |-> IF t \in {s} THEN shared' ELSE mine[t]]
        BY <1>7, <2>2
      <4> QED BY <3>1, <3>4, <4>1
    <3>6. open' \subseteq {shared'} /\ open' \subseteq Clients /\ shared' \in 0 .. MaxClients
      BY <1>7, <2>2, <3>1
    <3> QED BY <1>8, <3>3, <3>5, <3>6
  <2> QED BY <2>1, <2>2
<1>10. LineTypeOK'
  <2>1. agenda' \in [Sections -> Seq(Commands)] /\ DOMAIN taken' = Sections
    BY <1>1, <1>4 DEF LineTypeOK
  <2> QED BY <1>1, <1>5, <1>6, <1>9, <2>1 DEF LineTypeOK, SerialTypeOK
<1>11. LockInv'
  BY <1>1, <1>2, <1>4 DEF LockInv, LineTypeOK
<1>12. ClientInv'
  BY <1>1, <1>9 DEF ClientInv
<1>13. /\ \A t \in Sections \ {s} : agenda'[t] = agenda[t]
       /\ \A t \in Sections : taken'[t] \subseteq taken[t]
  BY <1>1, <1>4 DEF LineTypeOK
<1>14. CommandLineInv'
  <2> SUFFICES ASSUME style = "command" PROVE CommandLineInv'
    BY <1>1 DEF CommandLineInv
  <2>1. open' = open
    BY <1>7, <1>8
  <2>2. holder \in Sections => agenda'[holder] = agenda[holder]
    BY <1>2, <1>13
  <2>3. holder \in Sections /\ ExchangeInv(holder) => ExchangeInv(holder)'
    BY <1>1, <2>2 DEF ExchangeInv, Answering, Between, Begun
  <2>4. holder \in Sections \cup {Nobody}
    BY DEF LineTypeOK, SerialTypeOK
  <2> QED BY <1>1, <1>13, <2>1, <2>2, <2>3, <2>4 DEF CommandLineInv
<1>15. ListenLineInv'
  <2> SUFFICES ASSUME style = "listen" PROVE ListenLineInv'
    BY <1>1 DEF ListenLineInv
  <2>1. open' = open \/ \A t \in Sections : work[t] = "idle"
    BY <1>7, <1>8
  <2>2. PICK m \in 0 .. 3 : /\ coming = Rest(Spoken, m)
                            /\ mishaps = 0 /\ open # {} => \A t \in Sections : work[t] = "reading" => StreamInv(t, Spoken, m)
    BY DEF ListenLineInv
  <2>3. \A t \in Sections : StreamInv(t, Spoken, m) => StreamInv(t, Spoken, m)'
    BY <1>1 DEF StreamInv, Begun
  <2>4. mishaps' = 0 /\ open' # {} => \A t \in Sections : work'[t] = "reading" => StreamInv(t, Spoken, m)'
    BY <1>1, <2>1, <2>2, <2>3
  <2>5. expected' = {} /\ coming' = Rest(Spoken, m) /\ \A t \in Sections : \A x \in taken'[t] : mishaps' = 0 => Len(x[2]) = 1
    BY <1>1, <1>13, <2>2 DEF ListenLineInv
  <2> QED BY <2>4, <2>5 DEF ListenLineInv
<1> QED BY <1>10, <1>11, <1>12, <1>14, <1>15

\* A section whose client does not work is the only one to know only if it listens: where the
\* sections ask, the port is closed for all.
LEMMA ClosedForAll ==
  ASSUME SerialInv, style = "command", NEW s \in Sections, agenda[s] # <<>>, ~Works(mine[s])
  PROVE  open = {}
<1>1. gateway \in {"up", "stopping"}
  BY DEF SerialInv, ClientInv, LineTypeOK, SerialTypeOK
<1>2. open = {} \/ mine[s] = shared
  BY <1>1 DEF SerialInv, ClientInv
<1> QED BY <1>2 DEF SerialInv, ClientInv, Works

LEMMA BreaksKeeps ==
  ASSUME SerialInv, ~MayAnswerLate, NEW s \in Sections, agenda[s] # <<>>, holder \in {Nobody, s}, ~Works(mine[s]), Breaks(s)
  PROVE  SerialInv'
<1> USE SerialNumbers DEF SerialInv
<1>1. /\ agenda' = [agenda EXCEPT ![s] = <<>>] /\ work' = [work EXCEPT ![s] = "idle"] /\ holder' = Nobody
      /\ linked' = (IF style = "listen" THEN [linked EXCEPT ![s] = FALSE] ELSE linked)
      /\ failed' = [failed EXCEPT ![s] = TRUE]
      /\ taken' = (IF style = "command" THEN [taken EXCEPT ![s] = {}] ELSE taken)
      /\ buf' = [buf EXCEPT ![s] = <<>>] /\ expected' = {d \in expected : d[1] # s}
      /\ UNCHANGED <<open, shared, mine, versed, coming, wire, mishaps, style, gateway, plugged, unplugs>>
  BY DEF Breaks, lifeVars
<1>2. LineTypeOK'
  <2>1. linked' \in [Sections -> BOOLEAN] /\ failed' \in [Sections -> BOOLEAN]
    BY <1>1, Zenon DEF LineTypeOK, SerialTypeOK
  <2>2. agenda' \in [Sections -> Seq(Commands)] /\ DOMAIN taken' = Sections /\ DOMAIN buf' = Sections
    BY <1>1 DEF LineTypeOK
  <2>3. work' \in [Sections -> {"idle", "sent", "reading"}] /\ holder' \in Sections \cup {Nobody} /\ expected' \subseteq Requests
    BY <1>1 DEF LineTypeOK, SerialTypeOK
  <2> QED BY <1>1, <2>1, <2>2, <2>3 DEF LineTypeOK, SerialTypeOK
<1>3. \A t \in Sections : work'[t] = "idle"
  BY <1>1 DEF LockInv, LineTypeOK, SerialTypeOK
<1>4. LockInv'
  BY <1>1, <1>3 DEF LockInv
<1>5. \A t \in Sections : agenda[t] = <<>> => agenda'[t] = <<>>
  BY <1>1 DEF LineTypeOK
<1>6. ClientInv'
  BY <1>1, <1>3, <1>5 DEF ClientInv
<1>7. \A t \in Sections : taken'[t] \subseteq taken[t]
  BY <1>1 DEF LineTypeOK
<1>8. CommandLineInv'
  <2> SUFFICES ASSUME style = "command" PROVE CommandLineInv'
    BY <1>1 DEF CommandLineInv
  <2>1. open' = {}
    BY <1>1, ClosedForAll
  <2>2. expected' = {}
    BY <1>1 DEF CommandLineInv
  <2> QED BY <1>1, <1>7, <2>1, <2>2 DEF CommandLineInv
<1>9. ListenLineInv'
  <2> SUFFICES ASSUME style = "listen" PROVE ListenLineInv'
    BY <1>1 DEF ListenLineInv
  <2>1. expected' = {} /\ (\E m \in 0 .. 3 : coming' = Rest(Spoken, m))
        /\ \A t \in Sections : \A x \in taken'[t] : mishaps' = 0 => Len(x[2]) = 1
    BY <1>1, <1>7 DEF ListenLineInv
  <2> QED BY <1>3, <2>1 DEF ListenLineInv
<1> QED BY <1>2, <1>4, <1>6, <1>8, <1>9

LEMMA AskKeeps ==
  ASSUME SerialInv, ~MayAnswerLate, NEW s \in Sections, Ask(s)
  PROVE  SerialInv'
<1> USE SerialNumbers DEF SerialInv
<1>1. CASE ~Works(mine[s]) /\ Breaks(s)
  BY <1>1, BreaksKeeps DEF Ask, LockFree
<1>2. CASE ~(~Works(mine[s]) /\ Breaks(s))
  <2>1. /\ agenda[s] # <<>> /\ work[s] = "idle" /\ holder \in {Nobody, s} /\ mine[s] \in open
        /\ holder' = s /\ work' = [work EXCEPT ![s] = "sent"]
        /\ expected' = IF style = "command" THEN expected \cup {<<s, Head(agenda[s])>>} ELSE expected
        /\ UNCHANGED <<open, shared, mine, linked, versed, agenda, buf, taken, failed, coming, wire, mishaps>>
        /\ UNCHANGED <<style, gateway, plugged, unplugs>>
    BY <1>2 DEF Ask, LockFree, Works, lifeVars
  <2>2. holder = Nobody /\ \A t \in Sections : work[t] = "idle"
    BY <2>1 DEF LockInv
  <2>3. Head(agenda[s]) \in Commands
    BY <2>1 DEF LineTypeOK
  <2>4. LineTypeOK'
    <3>1. expected' \subseteq Requests
      BY <2>1, <2>3 DEF LineTypeOK, SerialTypeOK, Requests, Commands
    <3>2. work' \in [Sections -> {"idle", "sent", "reading"}] /\ holder' \in Sections \cup {Nobody}
      BY <2>1 DEF LineTypeOK, SerialTypeOK
    <3> QED BY <2>1, <3>1, <3>2 DEF LineTypeOK, SerialTypeOK
  <2>5. work'[s] = "sent" /\ \A t \in Sections \ {s} : work'[t] = "idle"
    BY <2>1, <2>2 DEF LineTypeOK, SerialTypeOK
  <2>6. LockInv'
    BY <2>1, <2>5 DEF LockInv
  <2>7. ClientInv'
    <3>1. mine[s] # 0
      BY <2>1 DEF LineTypeOK, SerialTypeOK
    <3> QED BY <2>1, <2>5, <3>1 DEF ClientInv
  <2>8. CommandLineInv'
    <3> SUFFICES ASSUME style = "command" PROVE CommandLineInv'
      BY <2>1 DEF CommandLineInv
    <3>1. expected = {} /\ coming = <<>>
      BY <2>1, <2>2 DEF CommandLineInv
    <3>2. expected' = {<<s, Head(agenda'[s])>>} /\ coming' = <<>>
      BY <2>1, <3>1
    <3>3. ExchangeInv(holder)'
      BY <2>1, <2>5, <3>2 DEF ExchangeInv
    <3> QED BY <2>1, <3>2, <3>3 DEF CommandLineInv
  <2>9. ListenLineInv'
    <3> SUFFICES ASSUME style = "listen" PROVE ListenLineInv'
      BY <2>1 DEF ListenLineInv
    <3>1. expected' = {} /\ (\E m \in 0 .. 3 : coming' = Rest(Spoken, m))
          /\ \A t \in Sections : \A x \in taken'[t] : mishaps' = 0 => Len(x[2]) = 1
      BY <2>1 DEF ListenLineInv
    <3> QED BY <2>5, <3>1 DEF ListenLineInv
  <2> QED BY <2>4, <2>6, <2>7, <2>8, <2>9
<1> QED BY <1>1, <1>2

LEMMA ResetKeeps ==
  ASSUME SerialInv, ~MayAnswerLate, NEW s \in Sections, ResetBuffer(s)
  PROVE  SerialInv'
<1> USE SerialNumbers DEF SerialInv
<1>1. work[s] = "sent" /\ holder = s /\ agenda[s] # <<>> /\ \A t \in Sections \ {s} : work[t] = "idle"
  BY DEF ResetBuffer, LockInv
<1>2. CASE ~Works(mine[s]) /\ Breaks(s)
  BY <1>1, <1>2, BreaksKeeps
<1>3. CASE ~(~Works(mine[s]) /\ Breaks(s))
  <2>1. /\ mine[s] \in open /\ work' = [work EXCEPT ![s] = "reading"] /\ wire' = <<>> /\ buf' = [buf EXCEPT ![s] = <<>>]
        /\ UNCHANGED <<open, shared, mine, linked, versed, agenda, holder, taken, failed, expected, coming, mishaps>>
        /\ UNCHANGED <<style, gateway, plugged, unplugs>>
    BY <1>3 DEF ResetBuffer, Works, lifeVars
  <2>2. LineTypeOK'
    <3>1. wire' \in Seq(Token) /\ Len(wire') <= MaxFrame
      BY <2>1
    <3>2. work' \in [Sections -> {"idle", "sent", "reading"}] /\ DOMAIN buf' = Sections
      BY <2>1 DEF LineTypeOK, SerialTypeOK
    <3> QED BY <2>1, <3>1, <3>2 DEF LineTypeOK, SerialTypeOK
  <2>3. work'[s] = "reading" /\ buf'[s] = <<>> /\ \A t \in Sections \ {s} : work'[t] = "idle"
    BY <1>1, <2>1 DEF LineTypeOK, SerialTypeOK
  <2>4. LockInv'
    BY <1>1, <2>1, <2>3 DEF LockInv
  <2>5. ClientInv'
    BY <1>1, <2>1, <2>3 DEF ClientInv
  <2>6. CommandLineInv'
    <3> SUFFICES ASSUME style = "command" PROVE CommandLineInv'
      BY <2>1 DEF CommandLineInv
    <3>1. ExchangeInv(s)
      BY <1>1, <2>1 DEF CommandLineInv
    <3>2. ExchangeInv(s)'
      <4>1. CASE expected = {<<s, Head(agenda[s])>>} /\ coming = <<>>
        BY <2>1, <2>3, <4>1 DEF ExchangeInv
      <4>2. CASE expected = {} /\ Answering(s, Body(s, Head(agenda[s])))
        <5>1. PICK y : y = Body(s, Head(agenda[s]))
          OBVIOUS
        <5>2. PICK m \in 0 .. 3 : coming = Rest(y, m)
          BY <4>2, <5>1 DEF Answering
        <5>3. buf'[s] \in Begun(y) /\ Len(buf'[s]) <= m /\ m \in 0 .. m
          BY <2>3 DEF Begun
        <5>4. Between(wire', y, m, m)
          BY <2>1 DEF Between
        <5>5. Answering(s, y)'
          BY <2>1, <5>2, <5>3, <5>4 DEF Answering
        <5> QED BY <2>1, <4>2, <5>1, <5>5 DEF ExchangeInv
      <4> QED BY <3>1, <4>1, <4>2 DEF ExchangeInv
    <3> QED BY <1>1, <2>1, <3>2 DEF CommandLineInv
  <2>7. ListenLineInv'
    <3> SUFFICES ASSUME style = "listen" PROVE ListenLineInv'
      BY <2>1 DEF ListenLineInv
    <3>1. PICK m \in 0 .. 3 : coming = Rest(Spoken, m)
      BY DEF ListenLineInv
    <3>2. StreamInv(s, Spoken, m)'
      <4>1. Len(wire') = 0
        BY <2>1
      <4> QED BY <2>1, <2>3, <4>1 DEF StreamInv, Begun
    <3>3. expected' = {} /\ coming' = Rest(Spoken, m)
          /\ \A t \in Sections : \A x \in taken'[t] : mishaps' = 0 => Len(x[2]) = 1
      BY <2>1, <3>1 DEF ListenLineInv
    <3> QED BY <2>3, <3>2, <3>3 DEF ListenLineInv
  <2> QED BY <2>2, <2>4, <2>5, <2>6, <2>7
<1> QED BY <1>2, <1>3

\* An exchange that is over leaves nothing on the way, if the section asked.
LEMMA SettleKeeps ==
  ASSUME SerialInv, NEW s \in Sections, work[s] = "reading", NEW answered \in BOOLEAN, Settle(s, answered),
         UNCHANGED <<open, shared, mine, coming, style, gateway, plugged, unplugs>>,
         mishaps' \in Nat, mishaps' >= mishaps, mishaps' + unplugs <= MaxFaults,
         wire' \in Seq(Token), Len(wire') <= MaxFrame, expected' \subseteq expected, DOMAIN taken' = Sections,
         style = "command" => expected' = {} /\ coming = <<>> /\ \A t \in Sections : \A x \in taken'[t] : x[2] = <<Body(t, x[1])>>,
         style = "listen" => \A t \in Sections : \A x \in taken'[t] : mishaps' = 0 => Len(x[2]) = 1
  PROVE  SerialInv'
<1> USE SerialNumbers DEF SerialInv
<1>1. holder = s /\ agenda[s] # <<>> /\ \A t \in Sections \ {s} : work[t] = "idle"
  BY DEF LockInv
<1>2. work' = [work EXCEPT ![s] = "idle"] /\ holder' = Nobody /\ buf' = [buf EXCEPT ![s] = <<>>]
  BY <1>1 DEF Settle
<1>3. PICK rest \in Seq(Commands) : agenda' = [agenda EXCEPT ![s] = rest]
  <2>1. Tail(agenda[s]) \in Seq(Commands) /\ <<>> \in Seq(Commands)
    BY <1>1 DEF LineTypeOK
  <2> QED BY <2>1 DEF Settle
<1>4. linked' \in [Sections -> BOOLEAN] /\ versed' \in [Sections -> BOOLEAN] /\ failed' \in [Sections -> BOOLEAN]
  <2>1. /\ linked' = linked \/ linked' = [linked EXCEPT ![s] = TRUE]
        /\ versed' = versed \/ versed' = [versed EXCEPT ![s] = TRUE]
        /\ failed' = failed \/ failed' = [failed EXCEPT ![s] = TRUE]
    BY DEF Settle
  <2> QED BY <2>1, Zenon DEF LineTypeOK, SerialTypeOK
<1>5. \A t \in Sections : work'[t] = "idle"
  BY <1>1, <1>2 DEF LineTypeOK, SerialTypeOK
<1>6. LineTypeOK'
  <2>1. agenda' \in [Sections -> Seq(Commands)] /\ DOMAIN buf' = Sections
    BY <1>2, <1>3 DEF LineTypeOK
  <2>2. work' \in [Sections -> {"idle", "sent", "reading"}] /\ holder' \in Sections \cup {Nobody} /\ expected' \subseteq Requests
    BY <1>2 DEF LineTypeOK, SerialTypeOK
  <2>3. mishaps' \in 0 .. MaxFaults /\ mishaps' + unplugs' <= MaxFaults
    BY DEF LineTypeOK, SerialTypeOK
  <2> QED BY <1>4, <2>1, <2>2, <2>3 DEF LineTypeOK, SerialTypeOK
<1>7. LockInv'
  BY <1>2, <1>5 DEF LockInv
<1>8. ClientInv'
  <2>1. gateway # "down"
    BY <1>1 DEF ClientInv
  <2> QED BY <1>1, <1>5, <2>1 DEF ClientInv
<1>9. CommandLineInv'
  BY <1>2 DEF CommandLineInv
<1>10. ListenLineInv'
  <2> SUFFICES ASSUME style = "listen" PROVE ListenLineInv'
    BY DEF ListenLineInv
  <2>1. expected' = {} /\ \E m \in 0 .. 3 : coming' = Rest(Spoken, m)
    BY DEF ListenLineInv
  <2> QED BY <1>5, <2>1 DEF ListenLineInv
<1> QED BY <1>6, <1>7, <1>8, <1>9, <1>10

LEMMA TimeoutKeeps ==
  ASSUME SerialInv, ~MayAnswerLate, NEW s \in Sections, ReadTimesOut(s)
  PROVE  SerialInv'
<1> USE SerialNumbers DEF SerialInv
<1>1. /\ work[s] = "reading" /\ Settle(s, FALSE) /\ expected' = {d \in expected : d[1] # s} /\ coming = <<>>
      /\ UNCHANGED <<open, shared, mine, taken, coming, wire, style, gateway, plugged, unplugs>>
  BY DEF ReadTimesOut, NothingComes, lifeVars
<1>2. holder = s
  BY <1>1 DEF LockInv
<1>3. mishaps' \in Nat /\ mishaps' >= mishaps /\ mishaps' + unplugs <= MaxFaults
  <2>1. mishaps \in Nat /\ unplugs \in Nat /\ mishaps + unplugs <= MaxFaults
    BY DEF LineTypeOK, SerialTypeOK
  <2>2. mishaps' = mishaps \/ (mishaps + unplugs < MaxFaults /\ mishaps' = mishaps + 1)
    BY DEF ReadTimesOut, MayFault
  <2> QED BY <2>1, <2>2
<1>4. style = "command" => expected' = {} /\ \A t \in Sections : \A x \in taken'[t] : x[2] = <<Body(t, x[1])>>
  BY <1>1, <1>2 DEF CommandLineInv
<1>5. style = "listen" => \A t \in Sections : \A x \in taken'[t] : mishaps' = 0 => Len(x[2]) = 1
  <2>1. mishaps' = 0 => mishaps = 0
    BY <1>3 DEF LineTypeOK, SerialTypeOK
  <2> QED BY <1>1, <2>1 DEF ListenLineInv
<1>6. wire' \in Seq(Token) /\ Len(wire') <= MaxFrame /\ expected' \subseteq expected /\ DOMAIN taken' = Sections
  BY <1>1 DEF LineTypeOK, SerialTypeOK
<1> QED BY <1>1, <1>3, <1>4, <1>5, <1>6, SettleKeeps

LEMMA FirstOf ==
  ASSUME NEW T, NEW w \in Seq(T), w # <<>>
  PROVE  /\ Len(w) \in Nat /\ Len(w) > 0 /\ Head(w) = w[1] /\ w[1] \in T
         /\ Tail(w) \in Seq(T) /\ Len(Tail(w)) = Len(w) - 1
         /\ \A i \in 1 .. Len(w) - 1 : Tail(w)[i] = w[i + 1]
  OBVIOUS

LEMMA BetweenTail ==
  ASSUME NEW w, NEW y, NEW k \in 0 .. 3, NEW m \in 0 .. 3, y # SOI, y # EOI, w # <<>>, Between(w, y, k, m)
  PROVE  /\ w[1] \in {SOI, y, EOI} /\ k < Place(w[1]) /\ Place(w[1]) <= m /\ Place(w[1]) \in 0 .. m
         /\ Between(Tail(w), y, Place(w[1]), m)
<1>1. PICK T : T = {SOI, y, EOI}
  OBVIOUS
<1>2. w \in Seq(T)
  BY <1>1 DEF Between
<1>3. /\ Len(w) \in Nat /\ Len(w) > 0 /\ w[1] \in T /\ Tail(w) \in Seq(T) /\ Len(Tail(w)) = Len(w) - 1
      /\ \A i \in 1 .. Len(w) - 1 : Tail(w)[i] = w[i + 1]
  BY <1>2, FirstOf
<1>4. \A i \in 1 .. Len(w) : k < Place(w[i]) /\ Place(w[i]) <= m
  BY DEF Between
<1>5. \A i, j \in 1 .. Len(w) : i < j => Place(w[i]) < Place(w[j])
  BY DEF Between
<1>6. \A x : Place(x) \in {1, 2, 3}
  BY DEF Place
<1>7. \A i \in 1 .. Len(Tail(w)) : i + 1 \in 1 .. Len(w) /\ 1 < i + 1 /\ Tail(w)[i] = w[i + 1]
  BY <1>3
<1>8. 1 \in 1 .. Len(w)
  BY <1>3
<1>9. \A i \in 1 .. Len(Tail(w)) : Place(w[1]) < Place(Tail(w)[i]) /\ Place(Tail(w)[i]) <= m
  BY <1>4, <1>5, <1>7, <1>8
<1>10. \A i, j \in 1 .. Len(Tail(w)) : i < j => Place(Tail(w)[i]) < Place(Tail(w)[j])
  <2> SUFFICES ASSUME NEW i \in 1 .. Len(Tail(w)), NEW j \in 1 .. Len(Tail(w)), i < j
               PROVE  Place(Tail(w)[i]) < Place(Tail(w)[j])
    OBVIOUS
  <2>1. i + 1 < j + 1 /\ i + 1 \in 1 .. Len(w) /\ j + 1 \in 1 .. Len(w)
    BY <1>7
  <2> QED BY <1>5, <1>7, <2>1
<1>11. Between(Tail(w), y, Place(w[1]), m)
  BY <1>1, <1>3, <1>9, <1>10 DEF Between
<1>12. k < Place(w[1]) /\ Place(w[1]) <= m /\ Place(w[1]) \in 0 .. m
  BY <1>4, <1>6, <1>8
<1> QED BY <1>1, <1>3, <1>11, <1>12

LEMMA BetweenAppend ==
  ASSUME NEW w, NEW y, NEW k \in 0 .. 3, NEW m \in 0 .. 2, k <= m, Between(w, y, k, m),
         NEW x \in {SOI, y, EOI}, Place(x) = m + 1
  PROVE  Between(Append(w, x), y, k, m + 1) /\ Between(w, y, k, m + 1)
<1>1. PICK T : T = {SOI, y, EOI}
  OBVIOUS
<1>2. w \in Seq(T) /\ x \in T
  BY <1>1 DEF Between
<1>3. /\ Append(w, x) \in Seq(T) /\ Len(w) \in Nat /\ Len(Append(w, x)) = Len(w) + 1
      /\ Append(w, x)[Len(w) + 1] = x /\ \A i \in 1 .. Len(w) : Append(w, x)[i] = w[i]
  BY ONLY <1>2, Appended
<1>4. PICK v : v = Append(w, x)
  OBVIOUS
<1>5. \A i \in 1 .. Len(v) : IF i = Len(w) + 1 THEN v[i] = x ELSE i \in 1 .. Len(w) /\ v[i] = w[i]
  BY <1>3, <1>4
<1>6. \A i \in 1 .. Len(w) : k < Place(w[i]) /\ Place(w[i]) <= m /\ Place(w[i]) \in {1, 2, 3}
  BY DEF Between, Place
<1>7. \A i, j \in 1 .. Len(w) : i < j => Place(w[i]) < Place(w[j])
  BY DEF Between
<1>8. \A i \in 1 .. Len(v) : k < Place(v[i]) /\ Place(v[i]) <= m + 1
  BY <1>5, <1>6
<1>9. \A i, j \in 1 .. Len(v) : i < j => Place(v[i]) < Place(v[j])
  <2> SUFFICES ASSUME NEW i \in 1 .. Len(v), NEW j \in 1 .. Len(v), i < j PROVE Place(v[i]) < Place(v[j])
    OBVIOUS
  <2>1. i \in 1 .. Len(w) /\ v[i] = w[i]
    BY <1>3, <1>4, <1>5
  <2>2. CASE j = Len(w) + 1
    BY <1>5, <1>6, <2>1, <2>2
  <2>3. CASE j # Len(w) + 1
    BY <1>5, <1>7, <2>1, <2>3
  <2> QED BY <2>2, <2>3
<1>10. Between(v, y, k, m + 1)
  BY <1>1, <1>3, <1>4, <1>8, <1>9 DEF Between
<1>11. Between(w, y, k, m + 1)
  BY <1>6, <1>7 DEF Between
<1> QED BY <1>4, <1>10, <1>11

\* The next token of a section that asked: it is of the answer to what it asked, and if it
\* completes a frame, it was the last one.
LEMMA OwnToken ==
  ASSUME SerialInv, style = "command", NEW s \in Sections, work[s] = "reading", mine[s] \in open, wire # <<>>,
         NEW y, y = Body(s, Head(agenda[s])), NEW b, b = Kept(Append(buf[s], Head(wire)))
  PROVE  /\ expected = {}
         /\ Contains(b, EOI) => coming = <<>> /\ BodyOf(b) \in {<<>>, <<y>>}
         /\ ~Contains(b, EOI) =>
              \E m \in 0 .. 3 : /\ coming = Rest(y, m)
                                /\ \E k \in 0 .. m : b \in Begun(y) /\ Len(b) <= k /\ Between(Tail(wire), y, k, m)
<1> USE DEF SerialInv
<1>1. holder = s /\ holder # Nobody /\ open # {}
  BY SerialNumbers DEF LockInv
<1>2. expected = {} /\ Answering(s, y)
  BY <1>1 DEF CommandLineInv, ExchangeInv
<1>3. PICK m \in 0 .. 3 :
        /\ coming = Rest(y, m)
        /\ \E k \in 0 .. m : buf[s] \in Begun(y) /\ Len(buf[s]) <= k /\ Between(wire, y, k, m)
  BY <1>2 DEF Answering
<1>4. PICK k \in 0 .. m : buf[s] \in Begun(y) /\ Len(buf[s]) <= k /\ Between(wire, y, k, m)
  BY <1>3
<1>5. y # SOI /\ y # EOI /\ k \in 0 .. 3
  BY TokensDiffer
<1>6. PICK x : x = wire[1]
  OBVIOUS
<1>7. x \in {SOI, y, EOI} /\ k < Place(x) /\ Place(x) <= m /\ Place(x) \in 0 .. m /\ Between(Tail(wire), y, Place(x), m)
  BY <1>4, <1>5, <1>6, BetweenTail
<1>8. b = Kept(Append(buf[s], x))
  <2>1. Head(wire) = wire[1]
    BY FirstOf DEF LineTypeOK
  <2> QED BY <1>6, <2>1
<1>9. Len(buf[s]) < Place(x)
  <2>1. Len(buf[s]) \in {0, 1, 2}
    BY <1>4 DEF Begun
  <2> QED BY <1>4, <1>7, <2>1
<1>10. /\ ~Contains(b, EOI) => b \in Begun(y) /\ Len(b) <= Place(x)
       /\ Contains(b, EOI) => x = EOI /\ BodyOf(b) \in {<<>>, <<y>>}
  BY <1>4, <1>5, <1>7, <1>8, <1>9, ReadStep
<1>11. Contains(b, EOI) => coming = <<>>
  <2> SUFFICES ASSUME Contains(b, EOI) PROVE coming = <<>>
    OBVIOUS
  <2>1. Place(x) = 3
    BY <1>10, TokensDiffer
  <2>2. m = 3
    BY <1>7, <2>1
  <2> QED BY <1>3, <2>2 DEF Rest
<1>12. ~Contains(b, EOI) => \E j \in 0 .. m : b \in Begun(y) /\ Len(b) <= j /\ Between(Tail(wire), y, j, m)
  BY <1>7, <1>10
<1> QED BY <1>2, <1>3, <1>10, <1>11, <1>12

\* The next token of a listener, as long as nothing was lost.
LEMMA StreamToken ==
  ASSUME SerialInv, style = "listen", mishaps = 0, NEW s \in Sections, work[s] = "reading", mine[s] \in open,
         wire # <<>>, NEW b, b = Kept(Append(buf[s], Head(wire))),
         UNCHANGED coming, wire' = Tail(wire), ~Contains(b, EOI) => buf'[s] = b
  PROVE  /\ Contains(b, EOI) => BodyOf(b) \in {<<>>, <<Spoken>>}
         /\ ~Contains(b, EOI) => \E m \in 0 .. 3 : coming' = Rest(Spoken, m) /\ StreamInv(s, Spoken, m)'
<1> USE DEF SerialInv
<1>1. PICK m \in 0 .. 3 : coming = Rest(Spoken, m) /\ StreamInv(s, Spoken, m)
  BY DEF ListenLineInv
<1>2. Spoken # SOI /\ Spoken # EOI
  BY TokensDiffer DEF Spoken
<1>3. /\ Len(wire) \in Nat /\ Len(wire) > 0 /\ Head(wire) = wire[1] /\ Len(Tail(wire)) = Len(wire) - 1
      /\ \A i \in 1 .. Len(wire) - 1 : Tail(wire)[i] = wire[i + 1]
  BY FirstOf DEF LineTypeOK
<1>4. PICK x : x = wire[1]
  OBVIOUS
<1>5. x \in {SOI, Spoken, EOI} /\ Place(x) \in {1, 2, 3}
  BY <1>1, <1>3, <1>4 DEF StreamInv, Place
<1>6. buf[s] \in Begun(Spoken) /\ (buf[s] # <<>> => Len(buf[s]) + 1 = Place(x))
  BY <1>1, <1>4 DEF StreamInv
<1>7. Len(buf[s]) < Place(x)
  <2>1. Len(buf[s]) \in {0, 1, 2} /\ (buf[s] = <<>> => Len(buf[s]) = 0)
    BY <1>6 DEF Begun
  <2> QED BY <1>5, <1>6, <2>1
<1>8. b = Kept(Append(buf[s], x))
  BY <1>3, <1>4
<1>9. /\ ~Contains(b, EOI) => b \in Begun(Spoken) /\ (b # <<>> => Len(b) = Place(x))
      /\ Contains(b, EOI) => x = EOI /\ BodyOf(b) \in {<<>>, <<Spoken>>}
  BY <1>2, <1>5, <1>6, <1>7, <1>8, ReadStep
<1>10. ASSUME ~Contains(b, EOI) PROVE StreamInv(s, Spoken, m)'
  <2> DEFINE w == Tail(wire)
  <2>1. \A i \in 1 .. Len(w) : i + 1 \in 1 .. Len(wire) /\ w[i] = wire[i + 1]
    BY <1>3
  <2>2. \A i \in 1 .. Len(w) : w[i] \in {SOI, Spoken, EOI}
    BY <1>1, <2>1 DEF StreamInv
  <2>3. \A i \in 1 .. Len(w) - 1 : Place(w[i + 1]) = After(Place(w[i]))
    <3> SUFFICES ASSUME NEW i \in 1 .. Len(w) - 1 PROVE Place(w[i + 1]) = After(Place(w[i]))
      OBVIOUS
    <3>1. i + 1 \in 1 .. Len(wire) - 1 /\ w[i] = wire[i + 1] /\ w[i + 1] = wire[(i + 1) + 1]
      BY <1>3, <2>1
    <3> QED BY <1>1, <3>1 DEF StreamInv
  <2>4. w # <<>> => Len(w) > 0 /\ Len(w) + 1 = Len(wire)
    <3>1. w # <<>> => Len(w) # 0
      <4>1. w \in Seq(Token)
        BY FirstOf DEF LineTypeOK
      <4> QED BY <4>1
    <3> QED BY <1>3, <3>1
  <2>5. w # <<>> => After(Place(w[Len(w)])) = After(m)
    <3> SUFFICES ASSUME w # <<>> PROVE After(Place(w[Len(w)])) = After(m)
      OBVIOUS
    <3>1. w[Len(w)] = wire[Len(wire)]
      <4>1. Len(w) \in 1 .. Len(w)
        BY <1>3, <2>4
      <4>2. w[Len(w)] = wire[Len(w) + 1]
        BY <2>1, <4>1
      <4> QED BY <2>4, <4>2
    <3>2. After(Place(wire[Len(wire)])) = After(m)
      BY <1>1 DEF StreamInv
    <3> QED BY <3>1, <3>2
  <2>6. b \in Begun(Spoken)
    BY <1>9, <1>10
  <2>7. ASSUME b # <<>> PROVE Len(b) + 1 = IF w = <<>> THEN After(m) ELSE Place(w[1])
    <3>1. Len(b) = Place(x) /\ Len(b) \in {0, 1, 2}
      BY <1>9, <1>10, <2>7 DEF Begun
    <3>2. After(Place(x)) = Len(b) + 1
      <4>1. Place(x) # 3
        BY ONLY <3>1
      <4>2. After(Place(x)) = Place(x) + 1
        BY <4>1 DEF After
      <4> QED BY <3>1, <4>2
    <3>3. CASE w = <<>>
      <4>1. Len(wire) = 1
        <5>1. PICK v : v = w
          OBVIOUS
        <5>2. Len(v) = Len(wire) - 1 /\ v = <<>>
          BY <1>3, <3>3, <5>1
        <5>3. Len(v) = 0
          BY ONLY <5>2
        <5> QED BY ONLY <1>3, <5>2, <5>3
      <4>2. After(Place(wire[1])) = After(m)
        BY <1>1, <4>1 DEF StreamInv
      <4> QED BY <1>4, <3>2, <3>3, <4>2
    <3>4. CASE w # <<>>
      <4>1. 1 \in 1 .. Len(wire) - 1 /\ 1 \in 1 .. Len(w)
        BY <1>3, <2>4, <3>4
      <4>2. w[1] = wire[1 + 1]
        BY <2>1, <4>1
      <4>3. Place(wire[1 + 1]) = After(Place(wire[1]))
        BY <1>1, <4>1 DEF StreamInv
      <4> QED BY <1>4, <3>2, <3>4, <4>2, <4>3
    <3> QED BY <3>3, <3>4
  <2>8. wire' = w /\ buf'[s] = b
    BY <1>10
  <2> HIDE DEF w
  <2> QED BY <2>2, <2>3, <2>5, <2>6, <2>7, <2>8 DEF StreamInv, Begun
<1> QED BY <1>1, <1>9, <1>10

LEMMA ReadTokenKeeps ==
  ASSUME SerialInv, ~MayAnswerLate, NEW s \in Sections, ReadToken(s)
  PROVE  SerialInv'
<1> USE SerialNumbers DEF SerialInv
<1>1. work[s] = "reading" /\ holder = s /\ agenda[s] # <<>> /\ \A t \in Sections \ {s} : work[t] = "idle"
  BY DEF ReadToken, LockInv
<1>2. CASE ~Works(mine[s]) /\ Breaks(s)
  BY <1>1, <1>2, BreaksKeeps
<1>3. CASE ~(~Works(mine[s]) /\ Breaks(s))
  <2>1. PICK b : b = Kept(Append(buf[s], Head(wire)))
    OBVIOUS
  <2>2. /\ mine[s] \in open /\ wire # <<>> /\ wire' = Tail(wire)
        /\ UNCHANGED <<open, shared, mine, expected, coming, mishaps, style, gateway, plugged, unplugs>>
        /\ IF Contains(b, EOI)
           THEN /\ Settle(s, FrameDecodes(BodyOf(b)))
                /\ taken' = IF FrameDecodes(BodyOf(b)) THEN [taken EXCEPT ![s] = @ \cup {<<Head(agenda[s]), BodyOf(b)>>}] ELSE taken
           ELSE buf' = [buf EXCEPT ![s] = b] /\ UNCHANGED <<agenda, work, holder, linked, versed, taken, failed>>
    BY <1>3, <2>1 DEF ReadToken, Works, lifeVars
  <2>3. wire' \in Seq(Token) /\ Len(wire') <= MaxFrame
    <3>1. Len(wire) \in Nat /\ Len(wire) <= MaxFrame /\ wire' \in Seq(Token) /\ Len(wire') = Len(wire) - 1
      BY <2>2, FirstOf DEF LineTypeOK, SerialTypeOK
    <3> QED BY <3>1
  <2>4. PICK y : y = Body(s, Head(agenda[s]))
    OBVIOUS
  <2>5. style = "command" =>
          /\ expected = {}
          /\ Contains(b, EOI) => coming = <<>> /\ BodyOf(b) \in {<<>>, <<y>>}
          /\ ~Contains(b, EOI) =>
               \E m \in 0 .. 3 : /\ coming = Rest(y, m)
                                 /\ \E k \in 0 .. m : b \in Begun(y) /\ Len(b) <= k /\ Between(Tail(wire), y, k, m)
    BY <1>1, <2>1, <2>2, <2>4, OwnToken
  <2>6. ~Contains(b, EOI) => buf'[s] = b
    BY <2>2 DEF LineTypeOK
  <2>7. style = "listen" /\ mishaps = 0 =>
          /\ Contains(b, EOI) => BodyOf(b) \in {<<>>, <<Spoken>>}
          /\ ~Contains(b, EOI) => \E m \in 0 .. 3 : coming' = Rest(Spoken, m) /\ StreamInv(s, Spoken, m)'
    BY <1>1, <2>1, <2>2, <2>6, StreamToken
  <2>8. CASE Contains(b, EOI)
    <3>1. PICK ok \in BOOLEAN : ok = FrameDecodes(BodyOf(b)) /\ Settle(s, ok)
      <4>1. FrameDecodes(BodyOf(b)) \in BOOLEAN
        BY DEF FrameDecodes
      <4> QED BY <2>2, <2>8, <4>1
    <3>2. DOMAIN taken' = Sections
      BY <2>2, <2>8 DEF LineTypeOK
    <3>3. \A t \in Sections : \A x \in taken'[t] :
            x \in taken[t] \/ (t = s /\ ok /\ x = <<Head(agenda[s]), BodyOf(b)>>)
      BY <2>2, <2>8, <3>1 DEF LineTypeOK
    <3>4. ASSUME style = "command" PROVE \A t \in Sections : \A x \in taken'[t] : x[2] = <<Body(t, x[1])>>
      <4>1. ok => BodyOf(b) = <<y>>
        <5>1. PICK v : v = BodyOf(b)
          OBVIOUS
        <5>2. ok => Len(v) = 1
          BY <3>1, <3>4, <5>1 DEF FrameDecodes
        <5>3. v \in {<<>>, <<y>>}
          BY <2>5, <2>8, <3>4, <5>1
        <5>4. ok => v = <<y>>
          BY ONLY <5>2, <5>3
        <5> QED BY <5>1, <5>4
      <4>2. \A t \in Sections : \A x \in taken[t] : x[2] = <<Body(t, x[1])>>
        BY <3>4 DEF CommandLineInv
      <4> QED BY <2>4, <3>3, <4>1, <4>2
    <3>5. ASSUME style = "listen", mishaps' = 0 PROVE \A t \in Sections : \A x \in taken'[t] : Len(x[2]) = 1
      <4>1. ok => BodyOf(b) = <<Spoken>>
        BY <2>2, <2>7, <2>8, <3>1, <3>5 DEF FrameDecodes
      <4>2. \A t \in Sections : \A x \in taken[t] : Len(x[2]) = 1
        BY <2>2, <3>5 DEF ListenLineInv
      <4>3. Len(<<Spoken>>) = 1
        OBVIOUS
      <4> QED BY <3>3, <4>1, <4>2, <4>3
    <3>6. mishaps' \in Nat /\ mishaps' >= mishaps /\ mishaps' + unplugs <= MaxFaults
      BY <2>2 DEF LineTypeOK, SerialTypeOK
    <3>7. /\ style = "command" => expected' = {} /\ coming = <<>> /\ \A t \in Sections : \A x \in taken'[t] : x[2] = <<Body(t, x[1])>>
          /\ style = "listen" => \A t \in Sections : \A x \in taken'[t] : mishaps' = 0 => Len(x[2]) = 1
          /\ expected' \subseteq expected
      BY <2>2, <2>5, <2>8, <3>4, <3>5
    <3> QED BY <1>1, <2>2, <2>3, <3>1, <3>2, <3>6, <3>7, SettleKeeps
  <2>9. CASE ~Contains(b, EOI)
    <3>1. buf' = [buf EXCEPT ![s] = b] /\ UNCHANGED <<agenda, work, holder, linked, versed, taken, failed>>
      BY <2>2, <2>9
    <3>2. LineTypeOK'
      BY <2>2, <2>3, <3>1 DEF LineTypeOK, SerialTypeOK
    <3>3. LockInv' /\ ClientInv'
      BY <2>2, <3>1 DEF LockInv, ClientInv
    <3>4. CommandLineInv'
      <4> SUFFICES ASSUME style = "command" PROVE CommandLineInv'
        BY <2>2 DEF CommandLineInv
      <4>1. PICK m \in 0 .. 3 :
              /\ coming = Rest(y, m)
              /\ \E k \in 0 .. m : b \in Begun(y) /\ Len(b) <= k /\ Between(Tail(wire), y, k, m)
        BY <2>5, <2>9
      <4>2. /\ coming' = Rest(y, m)
            /\ \E k \in 0 .. m : buf'[s] \in Begun(y) /\ Len(buf'[s]) <= k /\ Between(wire', y, k, m)
        BY <2>2, <2>6, <2>9, <4>1
      <4>3. Answering(s, y)'
        BY <4>2 DEF Answering
      <4>4. ExchangeInv(s)'
        BY <2>2, <2>4, <2>5, <3>1, <4>3 DEF ExchangeInv
      <4> QED BY <1>1, <2>2, <2>5, <3>1, <4>4 DEF CommandLineInv
    <3>5. ListenLineInv'
      <4> SUFFICES ASSUME style = "listen" PROVE ListenLineInv'
        BY <2>2 DEF ListenLineInv
      <4>1. expected' = {} /\ \A t \in Sections : \A x \in taken'[t] : mishaps' = 0 => Len(x[2]) = 1
        BY <2>2, <3>1 DEF ListenLineInv
      <4>2. CASE mishaps = 0
        <5>1. PICK m \in 0 .. 3 : coming' = Rest(Spoken, m) /\ StreamInv(s, Spoken, m)'
          BY <2>7, <2>9, <4>2
        <5> QED BY <1>1, <3>1, <4>1, <5>1 DEF ListenLineInv
      <4>3. CASE mishaps # 0
        BY <2>2, <4>1, <4>3 DEF ListenLineInv
      <4> QED BY <4>2, <4>3
    <3> QED BY <3>2, <3>3, <3>4, <3>5
  <2> QED BY <2>8, <2>9
<1> QED BY <1>2, <1>3

LEMMA SpeaksKeeps ==
  ASSUME SerialInv, NEW s, NEW c, <<s, c>> \in Requests, Speaks(s, c)
  PROVE  SerialInv'
<1> USE SerialNumbers DEF SerialInv
<1>1. /\ coming = <<>> /\ expected' = expected \ {<<s, c>>} /\ coming' = <<SOI, Body(s, c), EOI>>
      /\ IF style = "command" THEN <<s, c>> \in expected ELSE <<s, c>> = AnyDevice
      /\ UNCHANGED <<open, shared, mine, linked, versed, agenda, work, holder, buf, taken, failed>>
      /\ UNCHANGED <<wire, mishaps, style, gateway, plugged, unplugs>>
  BY DEF Speaks, FrameOf, lifeVars, sectionVars
<1>2. Body(s, c) \in Token /\ SOI \in Token /\ EOI \in Token /\ s \in Sections
  <2>1. Body(<<s, c>>[1], <<s, c>>[2]) \in Token
    BY DEF Token
  <2>2. s \in Sections
    BY DEF Requests
  <2> QED BY <2>1, <2>2 DEF Token
<1>3. LineTypeOK'
  <2>1. coming' \in Seq(Token) /\ Len(coming') <= 3
    BY <1>1, <1>2
  <2>2. expected' \subseteq Requests
    BY <1>1 DEF LineTypeOK, SerialTypeOK
  <2> QED BY <1>1, <2>1, <2>2 DEF LineTypeOK, SerialTypeOK
<1>4. LockInv' /\ ClientInv'
  BY <1>1 DEF LockInv, ClientInv
<1>5. CommandLineInv'
  <2> SUFFICES ASSUME style = "command" PROVE CommandLineInv'
    BY <1>1 DEF CommandLineInv
  <2>1. holder = s /\ c = Head(agenda[s]) /\ holder # Nobody /\ expected' = {}
    BY <1>1, <1>2 DEF CommandLineInv
  <2>2. ASSUME open # {} PROVE ExchangeInv(s)'
    <3>1. ExchangeInv(s) /\ expected # {}
      BY <1>1, <2>1, <2>2 DEF CommandLineInv
    <3>2. work[s] = "reading" => wire = <<>> /\ buf[s] = <<>>
      BY <3>1 DEF ExchangeInv
    <3>3. PICK y : y = Body(s, c)
      OBVIOUS
    <3>4. coming' = Rest(y, 0) /\ 0 \in 0 .. 3 /\ 0 \in 0 .. 0
      BY <1>1, <3>3 DEF Rest
    <3>5. work'[s] = "reading" => buf'[s] \in Begun(y) /\ Len(buf'[s]) <= 0 /\ Between(wire', y, 0, 0)
      BY <1>1, <3>2 DEF Begun, Between
    <3>6. Answering(s, y)'
      BY <3>4, <3>5 DEF Answering
    <3> QED BY <1>1, <2>1, <3>3, <3>6 DEF ExchangeInv
  <2> QED BY <1>1, <2>1, <2>2 DEF CommandLineInv
<1>6. ListenLineInv'
  <2> SUFFICES ASSUME style = "listen" PROVE ListenLineInv'
    BY <1>1 DEF ListenLineInv
  <2>1. PICK m \in 0 .. 3 : /\ coming = Rest(Spoken, m)
                            /\ mishaps = 0 /\ open # {} => \A t \in Sections : work[t] = "reading" => StreamInv(t, Spoken, m)
    BY DEF ListenLineInv
  <2>2. m = 3
    BY <1>1, <2>1, RestStep, TokensDiffer DEF Spoken
  <2>3. Body(s, c) = Spoken
    BY <1>1 DEF Spoken, AnyDevice
  <2>4. coming' = Rest(Spoken, 0) /\ 0 \in 0 .. 3
    BY <1>1, <2>3 DEF Rest
  <2>5. After(0) = After(3)
    BY DEF After
  <2>6. \A t \in Sections : StreamInv(t, Spoken, 3) => StreamInv(t, Spoken, 0)'
    BY <1>1, <2>5 DEF StreamInv, Begun
  <2>7. mishaps' = 0 /\ open' # {} => \A t \in Sections : work'[t] = "reading" => StreamInv(t, Spoken, 0)'
    BY <1>1, <2>1, <2>2, <2>6
  <2>8. expected' = {} /\ \A t \in Sections : \A x \in taken'[t] : mishaps' = 0 => Len(x[2]) = 1
    BY <1>1 DEF ListenLineInv
  <2> QED BY <2>4, <2>7, <2>8 DEF ListenLineInv
<1> QED BY <1>3, <1>4, <1>5, <1>6

\* One token more behind those a listener has before it.
LEMMA StreamGrows ==
  ASSUME LineTypeOK, NEW s, NEW m \in 0 .. 2, StreamInv(s, Spoken, m), NEW x \in Token, x \in {SOI, Spoken, EOI}, Place(x) = m + 1,
         wire' = Append(wire, x), UNCHANGED buf
  PROVE  StreamInv(s, Spoken, m + 1)'
<1>1. /\ Len(wire) \in Nat /\ Len(wire') = Len(wire) + 1 /\ wire'[Len(wire) + 1] = x
      /\ \A i \in 1 .. Len(wire) : wire'[i] = wire[i]
  BY Appended DEF LineTypeOK
<1>2. After(m) = m + 1 /\ (wire = <<>> => Len(wire) = 0) /\ (wire # <<>> => Len(wire) > 0)
  <2>1. After(m) = m + 1
    BY DEF After
  <2>2. wire # <<>> => Len(wire) > 0
    BY FirstOf DEF LineTypeOK
  <2> QED BY <2>1, <2>2
<1>3. PICK w : w = wire'
  OBVIOUS
<1>4. \A i \in 1 .. Len(w) : w[i] \in {SOI, Spoken, EOI}
  BY <1>1, <1>3 DEF StreamInv
<1>5. ASSUME NEW i \in 1 .. Len(w) - 1 PROVE Place(w[i + 1]) = After(Place(w[i]))
  <2>1. i \in 1 .. Len(wire) /\ w[i] = wire[i]
    BY <1>1, <1>3
  <2>2. CASE i = Len(wire)
    <3>1. w[i + 1] = x /\ wire # <<>>
      BY <1>1, <1>2, <1>3, <2>1, <2>2
    <3>2. After(Place(wire[Len(wire)])) = After(m)
      BY <3>1 DEF StreamInv
    <3> QED BY <1>2, <2>1, <2>2, <3>1, <3>2
  <2>3. CASE i # Len(wire)
    <3>1. i \in 1 .. Len(wire) - 1 /\ i + 1 \in 1 .. Len(wire)
      BY <1>1, <2>1, <2>3
    <3>2. w[i + 1] = wire[i + 1]
      BY <1>1, <1>3, <3>1
    <3>3. Place(wire[i + 1]) = After(Place(wire[i]))
      BY <3>1 DEF StreamInv
    <3> QED BY <2>1, <3>2, <3>3
  <2> QED BY <2>2, <2>3
<1>6. w # <<>> /\ After(Place(w[Len(w)])) = After(m + 1)
  <2>1. w[Len(w)] = x
    BY <1>1, <1>3
  <2>2. w # <<>>
    BY <1>3
  <2> QED BY <2>1, <2>2
<1>7. buf'[s] # <<>> => Len(buf'[s]) + 1 = Place(w[1])
  <2> SUFFICES ASSUME buf[s] # <<>> PROVE Len(buf[s]) + 1 = Place(w[1])
    OBVIOUS
  <2>1. CASE wire = <<>>
    <3>1. Len(buf[s]) + 1 = After(m) /\ w[1] = x
      BY <1>1, <1>2, <1>3, <2>1 DEF StreamInv
    <3> QED BY <1>2, <3>1
  <2>2. CASE wire # <<>>
    <3>1. Len(buf[s]) + 1 = Place(wire[1]) /\ w[1] = wire[1]
      BY <1>1, <1>2, <1>3, <2>2 DEF StreamInv
    <3> QED BY <3>1
  <2> QED BY <2>1, <2>2
<1>8. buf'[s] \in Begun(Spoken)
  BY DEF StreamInv
<1> QED BY <1>3, <1>4, <1>5, <1>6, <1>7, <1>8 DEF StreamInv, Begun

LEMMA TokenKeeps ==
  ASSUME SerialInv, TokenArrives \/ TokenLost
  PROVE  SerialInv'
<1> USE SerialNumbers DEF SerialInv
<1>1. /\ coming # <<>> /\ coming' = Tail(coming)
      /\ UNCHANGED <<open, shared, mine, linked, versed, agenda, work, holder, buf, taken, failed>>
      /\ UNCHANGED <<expected, style, gateway, plugged, unplugs>>
  BY DEF TokenArrives, TokenLost, lifeVars, sectionVars
<1>2. PICK x : x = Head(coming)
  OBVIOUS
<1>3. \/ mishaps' = mishaps /\ Len(wire) < MaxFrame /\ wire' = (IF Heard THEN Append(wire, x) ELSE <<>>)
      \/ style = "command" /\ mishaps' = mishaps + 1 /\ mishaps + unplugs < MaxFaults /\ Len(wire) < MaxFrame
         /\ wire' = (IF Heard THEN Append(wire, x) ELSE <<>>)
      \/ mishaps' = mishaps + 1 /\ mishaps + unplugs < MaxFaults /\ wire' = wire
  BY <1>2 DEF TokenArrives, TokenLost, MayFault, Hasty
<1>4. x \in Token /\ coming' \in Seq(Token) /\ Len(coming') <= 3
  <2>1. /\ Len(coming) \in Nat /\ Len(coming) <= 3 /\ Head(coming) \in Token /\ Tail(coming) \in Seq(Token)
        /\ Len(Tail(coming)) = Len(coming) - 1
    BY <1>1, FirstOf DEF LineTypeOK, SerialTypeOK
  <2> QED BY <1>1, <1>2, <2>1
<1>5. mishaps' \in 0 .. MaxFaults /\ mishaps' + unplugs <= MaxFaults /\ (mishaps' = 0 => mishaps = 0 /\ mishaps' = mishaps)
  <2>1. mishaps \in Nat /\ unplugs \in Nat /\ mishaps + unplugs <= MaxFaults
    BY DEF LineTypeOK, SerialTypeOK
  <2>2. mishaps' = mishaps \/ (mishaps' = mishaps + 1 /\ mishaps + unplugs < MaxFaults)
    BY <1>3
  <2> QED BY <2>1, <2>2
<1>6. wire' \in Seq(Token) /\ Len(wire') <= MaxFrame
  <2>1. wire \in Seq(Token) /\ Len(wire) \in Nat /\ Len(wire) <= MaxFrame
    BY DEF LineTypeOK, SerialTypeOK
  <2>2. Append(wire, x) \in Seq(Token) /\ Len(Append(wire, x)) = Len(wire) + 1
    BY <1>4, <2>1, Appended
  <2>3. wire' = wire \/ wire' = <<>> \/ (wire' = Append(wire, x) /\ Len(wire) < MaxFrame)
    BY <1>3
  <2>4. CASE wire' = <<>>
    BY <2>4
  <2>5. CASE wire' # <<>>
    BY <2>1, <2>2, <2>3, <2>5
  <2> QED BY <2>4, <2>5
<1>7. LineTypeOK'
  BY <1>1, <1>4, <1>5, <1>6 DEF LineTypeOK, SerialTypeOK
<1>8. LockInv' /\ ClientInv'
  BY <1>1 DEF LockInv, ClientInv
<1>9. CommandLineInv'
  <2> SUFFICES ASSUME style = "command" PROVE CommandLineInv'
    BY <1>1 DEF CommandLineInv
  <2>1. ASSUME open # {} PROVE holder # Nobody /\ ExchangeInv(holder)'
    <3>1. holder # Nobody /\ expected = {} /\ Answering(holder, Body(holder, Head(agenda[holder])))
      BY <1>1, <2>1 DEF CommandLineInv, ExchangeInv
    <3>2. PICK y : y = Body(holder, Head(agenda[holder]))
      OBVIOUS
    <3>3. y # SOI /\ y # EOI
      BY <3>2, TokensDiffer
    <3>4. PICK m \in 0 .. 3 :
            /\ coming = Rest(y, m)
            /\ work[holder] = "reading" =>
                \E k \in 0 .. m : buf[holder] \in Begun(y) /\ Len(buf[holder]) <= k /\ Between(wire, y, k, m)
      BY <3>1, <3>2 DEF Answering
    <3>5. m \in 0 .. 2 /\ coming' = Rest(y, m + 1) /\ x \in {SOI, y, EOI} /\ Place(x) = m + 1
      <4>1. m # 3
        BY <1>1, <3>3, <3>4, RestStep
      <4> QED BY <1>1, <1>2, <3>3, <3>4, <4>1, RestStep
    <3>6. wire' \in {wire, Append(wire, x)}
      BY <1>3, <2>1 DEF Heard
    <3>7. ASSUME work[holder] = "reading"
          PROVE  \E k \in 0 .. m + 1 : buf[holder] \in Begun(y) /\ Len(buf[holder]) <= k /\ Between(wire', y, k, m + 1)
      <4>1. PICK k \in 0 .. m : buf[holder] \in Begun(y) /\ Len(buf[holder]) <= k /\ Between(wire, y, k, m)
        BY <3>4, <3>7
      <4>2. k \in 0 .. 3 /\ k <= m /\ k \in 0 .. m + 1
        BY <3>5
      <4>3. Between(Append(wire, x), y, k, m + 1) /\ Between(wire, y, k, m + 1)
        BY <3>5, <4>1, <4>2, BetweenAppend
      <4> QED BY <3>6, <4>1, <4>2, <4>3
    <3>8. m + 1 \in 0 .. 3
      BY <3>5
    <3>9. Answering(holder, y)'
      BY <1>1, <3>5, <3>7, <3>8 DEF Answering
    <3> QED BY <1>1, <3>1, <3>2, <3>9 DEF ExchangeInv
  <2> QED BY <1>1, <2>1 DEF CommandLineInv
<1>10. ListenLineInv'
  <2> SUFFICES ASSUME style = "listen" PROVE ListenLineInv'
    BY <1>1 DEF ListenLineInv
  <2>1. PICK m \in 0 .. 3 : /\ coming = Rest(Spoken, m)
                            /\ mishaps = 0 /\ open # {} => \A t \in Sections : work[t] = "reading" => StreamInv(t, Spoken, m)
    BY DEF ListenLineInv
  <2>2. m \in 0 .. 2 /\ coming' = Rest(Spoken, m + 1) /\ x \in {SOI, Spoken, EOI} /\ Place(x) = m + 1
    <3>1. Spoken # SOI /\ Spoken # EOI
      BY TokensDiffer DEF Spoken
    <3>2. m # 3
      BY <1>1, <2>1, <3>1, RestStep
    <3> QED BY <1>1, <1>2, <2>1, <3>1, <3>2, RestStep
  <2>3. ASSUME mishaps' = 0, open' # {}, NEW t \in Sections, work'[t] = "reading" PROVE StreamInv(t, Spoken, m + 1)'
    <3>1. mishaps = 0 /\ mishaps' = mishaps /\ open # {} /\ work[t] = "reading"
      BY <1>1, <1>5, <2>3
    <3>2. StreamInv(t, Spoken, m)
      BY <2>1, <3>1
    <3>3. wire' = Append(wire, x)
      <4>1. Heard
        BY <3>1 DEF Heard
      <4>2. ~(mishaps' = mishaps + 1)
        BY <3>1
      <4> QED BY <1>3, <4>1, <4>2
    <3> QED BY <1>1, <1>4, <2>2, <3>2, <3>3, StreamGrows
  <2>4. expected' = {} /\ (\A t \in Sections : \A z \in taken'[t] : mishaps' = 0 => Len(z[2]) = 1) /\ m + 1 \in 0 .. 3
    BY <1>1, <1>5, <2>2 DEF ListenLineInv
  <2> QED BY <2>2, <2>3, <2>4 DEF ListenLineInv
<1> QED BY <1>7, <1>8, <1>9, <1>10

----------------------------------------------------------------------------

\* For any sections, commands and faults, as long as no device answers after the timeout of
\* read(): what a section of a serial port takes for the answer to a command is its own
\* device's answer to that command, a listener takes whole frames as long as nothing is lost,
\* and one client holds the port, the one of the registry.
THEOREM PortStaysShared == ~MayAnswerLate => (SerialSpec => [](SerialTypeOK /\ PortIsShared))
<1> SUFFICES ASSUME ~MayAnswerLate PROVE SerialSpec => [](SerialTypeOK /\ PortIsShared)
  OBVIOUS
<1>1. SerialInv => SerialTypeOK /\ PortIsShared
  <2> SUFFICES ASSUME SerialInv PROVE SerialTypeOK /\ PortIsShared
    OBVIOUS
  <2> USE DEF SerialInv
  <2>1. AnswersAreOwn
    BY DEF AnswersAreOwn, CommandLineInv, ListenLineInv, LineTypeOK
  <2>2. Cardinality(open) <= 1
    <3>1. open = {} \/ open = {shared}
      BY DEF ClientInv
    <3>2. Cardinality(open) = 0 \/ Cardinality(open) = 1
      BY <3>1, FS_EmptySet, FS_Singleton, Zenon
    <3> QED BY <3>2
  <2>3. \A s \in Sections : Works(mine[s]) => mine[s] = shared
    BY DEF ClientInv, Works
  <2> QED BY <2>1, <2>2, <2>3 DEF PortIsShared, OneClient, LineTypeOK
<1>2. SerialInv /\ [SerialNext]_serialVars => SerialInv'
  <2> SUFFICES ASSUME SerialInv, [SerialNext]_serialVars PROVE SerialInv'
    OBVIOUS
  <2>1. CASE \E s \in Sections : CleanUp(s) \/ Poll(s) \/ Ask(s) \/ ResetBuffer(s) \/ ReadToken(s) \/ ReadTimesOut(s)
    BY <2>1, CleanUpKeeps, PollKeeps, AskKeeps, ResetKeeps, ReadTokenKeeps, TimeoutKeeps
  <2>2. CASE \E q \in Requests : Speaks(q[1], q[2])
    <3>1. PICK q \in Requests : Speaks(q[1], q[2])
      BY <2>2
    <3>2. <<q[1], q[2]>> \in Requests
      BY DEF Requests
    <3> QED BY <3>1, <3>2, SpeaksKeeps
  <2>3. CASE UNCHANGED serialVars
    <3>1. LineTypeOK' /\ LockInv' /\ ClientInv'
      BY <2>3 DEF serialVars, SerialInv, LineTypeOK, SerialTypeOK, LockInv, ClientInv
    <3>2. CommandLineInv' /\ ListenLineInv'
      BY <2>3, LinesKept DEF serialVars, SerialInv
    <3> QED BY <3>1, <3>2 DEF SerialInv
  <2> QED BY <2>1, <2>2, <2>3, PlugKeeps, UnplugKeeps, BuildKeeps, TokenKeeps DEF SerialNext
<1> QED BY SerialStart, <1>1, <1>2, PTL DEF SerialSpec
=============================================================================
