--------------------------- MODULE DeliveryProofs --------------------------
(***************************************************************************)
(* Theorems about what gets readings out of a device and into a bridge:    *)
(* ScrapeScheduler, for any scrapers, groups, intervals, masks and bridges *)
(* and without the bounds TLC needs, RegisterReads, for any number of      *)
(* ranges and any retries, limits and durations, InfluxBatch, for any      *)
(* number of readings and any sizes of batch and backlog, and MqttLink,    *)
(* for any number of devices, attempts and lost links.                     *)
(***************************************************************************)
EXTENDS ScrapeScheduler, MCDelivery, TLAPS

----------------------------------------------------------------------------
(* The scheduler: a key and the group it belongs to. *)

LEMMA KeyGroup ==
  ASSUME NEW k \in Keys
  PROVE  /\ GroupOfKey(k) \in Groups
         /\ \E m \in k : m \in Members /\ GroupOf[m] = GroupOfKey(k)
<1>0. k \subseteq Members /\ k # {}
  BY DEF Keys
<1>1. PICK m \in k : m \in Members
  BY <1>0
<1>2. (CHOOSE n \in k : TRUE) \in k
  BY <1>1
<1>3. (CHOOSE n \in k : TRUE) \in Members
  BY <1>2 DEF Keys
<1> QED BY <1>2, <1>3, GroupsAssumption DEF GroupOfKey

LEMMA PartKey ==
  ASSUME NEW g \in Groups, NEW k \in Keys, k \subseteq MembersOf(g)
  PROVE  GroupOfKey(k) = g
<1>1. PICK m \in k : m \in Members /\ GroupOf[m] = GroupOfKey(k)
  BY KeyGroup
<1> QED BY <1>1 DEF MembersOf

LEMMA GroupKey ==
  ASSUME NEW g \in Groups
  PROVE  MembersOf(g) \in Keys /\ GroupOfKey(MembersOf(g)) = g
<1>1. Primary[g] \in MembersOf(g) /\ MembersOf(g) \subseteq Members
  BY PrimaryAssumption DEF MembersOf
<1>2. MembersOf(g) \in Keys
  BY <1>1 DEF Keys
<1> QED BY <1>2, PartKey

LEMMA PrimaryIsMember ==
  ASSUME NEW g \in Groups
  PROVE  Primary[g] \in Members /\ GroupOf[Primary[g]] = g
BY PrimaryAssumption DEF MembersOf

LEMMA SourceIsMember ==
  ASSUME NEW m \in Members
  PROVE  Source(m) \in Members
BY PrimaryIsMember, GroupsAssumption DEF Source
----------------------------------------------------------------------------
(* Types. *)

LEMMA TypeInit == Init => ScrapeTypeOK
BY TimingAssumption DEF Init, ScrapeTypeOK, Phases, Empty, Nothing

LEMMA MergedType ==
  ASSUME NEW g \in Groups, NEW kept \in [Members -> [Blocks -> Nat]]
  PROVE  Merged(g, kept) \in [Members -> [Blocks -> Nat]]
<1> DEFINE p == Primary[g]
           Holders(b) == {m \in MembersOf(g) : kept[m][b] # 0}
           row == [b \in Blocks |->
                    IF kept[p][b] # 0 \/ Holders(b) = {} THEN kept[p][b]
                    ELSE kept[CHOOSE m \in Holders(b) : TRUE][b]]
<1>1. p \in Members
  BY PrimaryIsMember
<1>2. ASSUME NEW b \in Blocks, Holders(b) # {}
      PROVE  (CHOOSE m \in Holders(b) : TRUE) \in Members
  <2>1. (CHOOSE m \in Holders(b) : TRUE) \in Holders(b)
    BY <1>2
  <2> QED BY <2>1 DEF MembersOf
<1>3. row \in [Blocks -> Nat]
  <2> SUFFICES ASSUME NEW b \in Blocks
               PROVE  (IF kept[p][b] # 0 \/ Holders(b) = {} THEN kept[p][b]
                       ELSE kept[CHOOSE m \in Holders(b) : TRUE][b]) \in Nat
    OBVIOUS
  <2> HIDE DEF Holders, p
  <2>1. CASE Holders(b) = {}  BY <2>1, <1>1
  <2>2. CASE Holders(b) # {}  BY <2>2, <1>1, <1>2
  <2> QED BY <2>1, <2>2
<1>4. Merged(g, kept) = IF mode # "interleaved" THEN kept
                        ELSE [kept EXCEPT ![p] = row]
  BY DEF Merged
<1> HIDE DEF row, p
<1> QED BY <1>1, <1>3, <1>4

LEMMA DecodedType ==
  ASSUME ScrapeTypeOK, NEW g \in Groups, NEW b
  PROVE  Decoded(g, b) \in [Members -> [Blocks -> Nat]]
<1>1. store \in [Members -> [Blocks -> Nat]] /\ now \in Nat
  BY DEF ScrapeTypeOK
<1> QED BY <1>1, PrimaryIsMember DEF Decoded

\* The loop: what the scans and the clock do to the types.
LEMMA TypeLoop ==
  ASSUME ScrapeTypeOK,
         Tick \/ ScanSequential \/ ReadNextGroup \/ ScanConcurrent \/ ScanInterleaved
  PROVE  ScrapeTypeOK'
<1> USE DEF ScrapeTypeOK, Phases
<1>1. CASE Tick
  BY <1>1 DEF Tick, cycleVars, deviceVars, forwardVars
<1>2. CASE ScanSequential
  BY <1>2 DEF ScanSequential, MarkScanned, cycleVars, deviceVars, forwardVars
<1>3. CASE ReadNextGroup
  <2>1. PICK g \in agenda : /\ Submit({MembersOf(g)}, tick)
                            /\ agenda' = agenda \ {g}
    BY <1>3 DEF ReadNextGroup
  <2>2. \A k \in Keys : left[k] = {}
    BY <1>3 DEF ReadNextGroup, Busy
  <2> QED BY <1>3, <2>1, <2>2 DEF ReadNextGroup, Submit, deviceVars, forwardVars
<1>4. CASE ScanConcurrent
  <2>1. \A k \in Keys : phase'[k] \in Phases /\ (phase[k] = "reading" => phase'[k] = "reading")
    BY <1>4 DEF ScanConcurrent, Submit, Busy
  <2>2. phase' \in [Keys -> Phases] /\ left' = left
    BY <1>4, <2>1 DEF ScanConcurrent, Submit
  <2>3. /\ cycleNow' \in [Keys -> Nat]
        /\ late' \in [Keys -> BOOLEAN]
        /\ lastRead' \in [Groups -> Nat]
    BY <1>4 DEF ScanConcurrent, Submit, MarkScanned
  <2> QED BY <1>4, <2>1, <2>2, <2>3 DEF ScanConcurrent, deviceVars, forwardVars
<1>5. CASE ScanInterleaved
  <2>1. \A k \in Keys : phase'[k] \in Phases /\ (phase[k] = "reading" => phase'[k] = "reading")
    <3> SUFFICES ASSUME NEW k \in Keys, phase[k] = "reading"
                 PROVE  phase'[k] = "reading"
      BY <1>5 DEF ScanInterleaved, Submit
    <3>1. Busy(k) /\ k # {}
      BY DEF Busy, Keys
    <3>2. Overlaps(k)
      BY <3>1 DEF Overlaps
    <3> QED BY <1>5, <3>2 DEF ScanInterleaved, Submit
  <2>2. phase' \in [Keys -> Phases] /\ left' = left
    BY <1>5, <2>1 DEF ScanInterleaved, Submit
  <2>3. /\ cycleNow' \in [Keys -> Nat]
        /\ late' \in [Keys -> BOOLEAN]
        /\ lastRead' \in [Groups -> Nat]
    BY <1>5 DEF ScanInterleaved, Submit, MarkScanned
  <2> QED BY <1>5, <2>1, <2>2, <2>3 DEF ScanInterleaved, deviceVars, forwardVars
<1> QED BY <1>1, <1>2, <1>3, <1>4, <1>5

LEMMA MarkedType ==
  ASSUME ScrapeTypeOK, NEW g \in Groups, isComplete' = [isComplete EXCEPT ![g] = FALSE],
         faults' = faults + 1
  PROVE  isComplete' \in [Groups -> BOOLEAN] /\ faults' \in Nat
<1>1. isComplete \in [Groups -> BOOLEAN] /\ faults \in Nat
  BY DEF ScrapeTypeOK
<1> QED BY <1>1

LEMMA TypeRead ==
  ASSUME ScrapeTypeOK, NEW k \in Keys, Read(k)
  PROVE  ScrapeTypeOK'
<1> DEFINE g == GroupOfKey(k)
<1>1. g \in Groups
  BY KeyGroup
<1> USE DEF ScrapeTypeOK, Phases
<1>2. CASE BeginRead(k)
  <2>1. BlocksOf(g) \in SUBSET Blocks
    BY <1>1, DataAssumption DEF BlocksOf, MembersOf
  <2>2. store' \in [Members -> [Blocks -> Nat]]
    BY <1>2 DEF BeginRead, StartTracking, Empty
  <2>3. phase' \in [Keys -> Phases] /\ left' \in [Keys -> SUBSET Blocks]
    BY <1>2, <2>1 DEF BeginRead, StartTracking
  <2>4. \A j \in Keys : left'[j] # {} => phase'[j] = "reading"
    BY <1>2 DEF BeginRead, StartTracking
  <2>5. connected' \in [Groups -> BOOLEAN]
    BY <1>2 DEF BeginRead
  <2> QED BY <1>2, <2>2, <2>3, <2>4, <2>5 DEF BeginRead, StartTracking, forwardVars
<1>3. CASE SkipOffline(k)
  BY <1>3 DEF SkipOffline, Finish, deviceVars, forwardVars
<1>4. CASE BlockRead(k)
  <2> DEFINE b == First(left[k])
  <2>1. store' \in [Members -> [Blocks -> Nat]]
    <3>1. Decoded(g, b) \in [Members -> [Blocks -> Nat]]
      BY <1>1, DecodedType
    <3> HIDE DEF b
    <3> QED BY <1>1, <1>4, <3>1, MergedType DEF BlockRead, b
  <2>2. left' \in [Keys -> SUBSET Blocks] /\ phase' = phase
    BY <1>4 DEF BlockRead
  <2>3. \A j \in Keys : left'[j] # {} => phase'[j] = "reading"
    BY <1>4 DEF BlockRead
  <2> QED BY <1>4, <2>1, <2>2, <2>3 DEF BlockRead, forwardVars
<1>5. CASE BlockLost(k)
  <2>1. store' \in [Members -> [Blocks -> Nat]]
    BY <1>1, <1>5, MergedType DEF BlockLost
  <2>2. left' \in [Keys -> SUBSET Blocks] /\ phase' = phase
    BY <1>5 DEF BlockLost
  <2>3. \A j \in Keys : left'[j] # {} => phase'[j] = "reading"
    BY <1>5 DEF BlockLost
  <2>4. connected' \in [Groups -> BOOLEAN]
    <3>1. PICK up \in BOOLEAN : connected' = [connected EXCEPT ![g] = @ /\ up]
      BY <1>5 DEF BlockLost
    <3>2. (connected[g] /\ up) \in BOOLEAN
      OBVIOUS
    <3> QED BY <3>1, <3>2, <1>1
  <2>5. isComplete' \in [Groups -> BOOLEAN] /\ faults' \in Nat
    <3>1. isComplete' = [isComplete EXCEPT ![g] = FALSE] /\ faults' = faults + 1
      BY <1>5 DEF BlockLost, Fault
    <3> QED BY <1>1, <3>1, MarkedType
  <2> QED BY <1>5, <2>1, <2>2, <2>3, <2>4, <2>5 DEF BlockLost, forwardVars
<1>6. CASE EndRead(k)
  BY <1>6 DEF EndRead, Finish, deviceVars, forwardVars
<1>7. CASE ReadRaises(k)
  <2>1. isComplete' = [isComplete EXCEPT ![g] = FALSE] /\ faults' = faults + 1
    BY <1>7 DEF ReadRaises, Fault
  <2>2. isComplete' \in [Groups -> BOOLEAN] /\ faults' \in Nat
    BY <1>1, <2>1, MarkedType
  <2>3. /\ phase' \in [Keys -> Phases]
        /\ left' \in [Keys -> SUBSET Blocks]
        /\ \A j \in Keys : left'[j] # {} => phase'[j] = "reading"
    BY <1>7 DEF ReadRaises, Finish
  <2> QED BY <1>7, <2>2, <2>3 DEF ReadRaises, Finish, forwardVars
<1>8. CASE GroupReadRaises(k)
  <2>1. connected' \in [Groups -> BOOLEAN] /\ agenda' \in SUBSET Groups
        /\ (agenda' # {} => agenda # {})
    BY <1>1, <1>8 DEF GroupReadRaises, HandleError
  <2> QED BY <1>8, <2>1 DEF GroupReadRaises, Retire, Fault, forwardVars
<1> QED BY <1>2, <1>3, <1>4, <1>5, <1>6, <1>7, <1>8 DEF Read

\* What a forwarding step does, whatever makes it stop.
LEMMA ForwardStep ==
  ASSUME NEW k \in Keys, Forward(k)
  PROVE  /\ phase[k] = "read" /\ ~late[k] /\ Retire(k)
         /\ UNCHANGED <<mode, now, tick, lastRead, isComplete, store, begun>>
         /\ faults' = faults \/ Fault
         /\ UNCHANGED <<agenda, connected>> \/ HandleError(GroupOfKey(k))
         /\ \E ms \in SUBSET Served(k), stop \in Served(k) \cup {NoMember} :
               \E info :
                  /\ stop \in Members => info \subseteq Allowed(stop)
                  /\ Deliver(k, ms, stop, info)
<1> DEFINE due == {m \in Served(k) : HasData(m)}
<1>1. /\ phase[k] = "read" /\ ~late[k] /\ Retire(k)
      /\ UNCHANGED <<mode, now, tick, lastRead, isComplete, store, begun>>
      /\ \/ /\ Deliver(k, due, NoMember, {})
            /\ UNCHANGED <<faults, agenda, connected>>
         \/ \E stop \in due : \E info \in SUBSET Allowed(stop) :
              /\ info # Allowed(stop)
              /\ Fault
              /\ Deliver(k, {m \in due : MemberOrder[m] < MemberOrder[stop]},
                         stop, info)
              /\ IF mode = "interleaved" THEN UNCHANGED <<agenda, connected>>
                 ELSE HandleError(GroupOfKey(k))
  BY DEF Forward
<1>2. due \subseteq Served(k)
  OBVIOUS
<1>3. CASE /\ Deliver(k, due, NoMember, {})
           /\ UNCHANGED <<faults, agenda, connected>>
  BY <1>1, <1>2, <1>3
<1>4. CASE \E stop \in due : \E info \in SUBSET Allowed(stop) :
              /\ info # Allowed(stop)
              /\ Fault
              /\ Deliver(k, {m \in due : MemberOrder[m] < MemberOrder[stop]},
                         stop, info)
              /\ IF mode = "interleaved" THEN UNCHANGED <<agenda, connected>>
                 ELSE HandleError(GroupOfKey(k))
  <2>0. PICK stop \in due : \E info \in SUBSET Allowed(stop) :
              /\ Fault
              /\ Deliver(k, {m \in due : MemberOrder[m] < MemberOrder[stop]},
                         stop, info)
              /\ IF mode = "interleaved" THEN UNCHANGED <<agenda, connected>>
                 ELSE HandleError(GroupOfKey(k))
    BY <1>4
  <2>1. PICK info \in SUBSET Allowed(stop) :
              /\ Fault
              /\ Deliver(k, {m \in due : MemberOrder[m] < MemberOrder[stop]},
                         stop, info)
              /\ IF mode = "interleaved" THEN UNCHANGED <<agenda, connected>>
                 ELSE HandleError(GroupOfKey(k))
    BY <2>0
  <2> DEFINE ms == {m \in due : MemberOrder[m] < MemberOrder[stop]}
  <2>2. ms \in SUBSET Served(k) /\ stop \in Served(k) \cup {NoMember}
    BY <1>2
  <2> HIDE DEF ms, due
  <2>3. Deliver(k, ms, stop, info)
    BY <2>1 DEF ms
  <2>4. \E xs \in SUBSET Served(k), x \in Served(k) \cup {NoMember} :
           \E y : /\ x \in Members => y \subseteq Allowed(x)
                  /\ Deliver(k, xs, x, y)
    BY <2>2, <2>3
  <2> QED BY <1>1, <2>1, <2>4
<1> QED BY <1>1, <1>3, <1>4

LEMMA TypeForward ==
  ASSUME ScrapeTypeOK, NEW k \in Keys, Forward(k)
  PROVE  ScrapeTypeOK'
<1> USE DEF ScrapeTypeOK, Phases
<1>1. PICK ms \in SUBSET Served(k), stop \in Served(k) \cup {NoMember} :
         \E info : Deliver(k, ms, stop, info)
  BY ForwardStep
<1>2. PICK info : Deliver(k, ms, stop, info)
  BY <1>1
<1>3. \A m \in Members : Stamps(m) \in SUBSET Nat
  BY SourceIsMember, DataAssumption DEF Stamps
<1>4. lastForward' \in [Members -> Nat]
  BY <1>2 DEF Deliver
<1>5. sent' \in [Bridges -> [Members -> [tick : Nat, stamps : SUBSET Nat]]]
  <2> SUFFICES ASSUME NEW b \in Bridges, NEW m \in Members
               PROVE  sent'[b][m] \in [tick : Nat, stamps : SUBSET Nat]
    BY <1>2 DEF Deliver
  <2>1. [tick |-> cycleNow[k], stamps |-> Stamps(m)] \in [tick : Nat, stamps : SUBSET Nat]
    BY <1>3
  <2> QED BY <1>2, <2>1 DEF Deliver
<1>6. connected' \in [Groups -> BOOLEAN] /\ agenda' \in SUBSET Groups
      /\ (agenda' # {} => agenda # {})
  BY ForwardStep, KeyGroup DEF HandleError
<1>7. faults' \in Nat
  BY ForwardStep DEF Fault
<1>8. Retire(k) /\ UNCHANGED <<mode, now, tick, lastRead, isComplete, store, begun>>
  BY ForwardStep
<1>9. /\ phase' \in [Keys -> Phases]
      /\ left' \in [Keys -> SUBSET Blocks]
      /\ cycleNow' \in [Keys -> Nat]
      /\ late' \in [Keys -> BOOLEAN]
      /\ \A j \in Keys : left'[j] # {} => phase'[j] = "reading"
  BY <1>8 DEF Retire
<1> QED BY <1>4, <1>5, <1>6, <1>7, <1>8, <1>9

LEMMA TypeNext == ScrapeTypeOK /\ [Next]_vars => ScrapeTypeOK'
<1> SUFFICES ASSUME ScrapeTypeOK, [Next]_vars PROVE ScrapeTypeOK'
  OBVIOUS
<1>1. CASE Tick \/ ScanSequential \/ ReadNextGroup \/ ScanConcurrent \/ ScanInterleaved
  BY <1>1, TypeLoop
<1>2. ASSUME NEW k \in Keys, Read(k) PROVE ScrapeTypeOK'
  BY <1>2, TypeRead
<1>3. ASSUME NEW k \in Keys, Forward(k) PROVE ScrapeTypeOK'
  BY <1>3, TypeForward
<1>4. ASSUME NEW k \in Keys, TimeOut(k) PROVE ScrapeTypeOK'
  <2> USE DEF ScrapeTypeOK, Phases
  <2>1. CASE Retire(k)
    BY <1>4, <2>1 DEF TimeOut, Retire, deviceVars, forwardVars
  <2>2. CASE late' = [late EXCEPT ![k] = TRUE] /\ UNCHANGED <<phase, cycleNow, left>>
    BY <1>4, <2>2 DEF TimeOut, deviceVars, forwardVars
  <2> QED BY <1>4, <2>1, <2>2 DEF TimeOut
<1>5. ASSUME NEW k \in Keys, RetireLate(k) PROVE ScrapeTypeOK'
  BY <1>5 DEF RetireLate, Retire, deviceVars, forwardVars, ScrapeTypeOK, Phases
<1>6. ASSUME NEW g \in Groups, StaleReport(g) PROVE ScrapeTypeOK'
  BY <1>6 DEF StaleReport, Fault, cycleVars, forwardVars, ScrapeTypeOK, Phases
<1>7. CASE UNCHANGED vars
  BY <1>7 DEF vars, cycleVars, deviceVars, forwardVars, ScrapeTypeOK, Phases
<1> QED BY <1>1, <1>2, <1>3, <1>4, <1>5, <1>6, <1>7 DEF Next

\* Every variable keeps its type; blocks are left only to a cycle that reads,
\* and only a sequential loop has an agenda.
THEOREM ScrapeTypeCorrect == Spec => []ScrapeTypeOK
<1>1. Init => ScrapeTypeOK
  BY TypeInit
<1>2. ScrapeTypeOK /\ [Next]_vars => ScrapeTypeOK'
  BY TypeNext
<1> QED BY <1>1, <1>2, PTL DEF Spec
----------------------------------------------------------------------------
(***************************************************************************)
(* One reader per device.  What keeps two keys of a group from being busy  *)
(* together is that the members of a busy key stay due until it is         *)
(* forwarded: the next key built for the group then meets it.              *)
(***************************************************************************)
KeysAreDue ==
    \A k \in Keys : Busy(k) =>
        /\ k \subseteq MembersOf(GroupOfKey(k))
        /\ mode # "interleaved" => k = MembersOf(GroupOfKey(k))
        /\ mode = "interleaved" =>
              /\ cycleNow[k] <= now
              /\ \A m \in k : cycleNow[k] - lastForward[m] >= Interval[m]

ReaderInv == ScrapeTypeOK /\ KeysAreDue /\ OneReader

\* A step that starts no cycle and touches neither ticks nor forward times.
LEMMA ReaderQuiet ==
  ASSUME ReaderInv, ScrapeTypeOK', UNCHANGED <<mode, lastForward>>, now' >= now,
         \A k \in Keys : Busy(k)' => Busy(k) /\ cycleNow'[k] = cycleNow[k]
  PROVE  ReaderInv'
<1>1. KeysAreDue'
  <2> SUFFICES ASSUME NEW k \in Keys, Busy(k)'
               PROVE  /\ k \subseteq MembersOf(GroupOfKey(k))
                      /\ mode' # "interleaved" => k = MembersOf(GroupOfKey(k))
                      /\ mode' = "interleaved" =>
                            /\ cycleNow'[k] <= now'
                            /\ \A m \in k : cycleNow'[k] - lastForward'[m] >= Interval[m]
    BY DEF KeysAreDue
  <2>1. cycleNow[k] \in Nat /\ now \in Nat /\ now' \in Nat
    BY DEF ReaderInv, ScrapeTypeOK
  <2>2. Busy(k) /\ cycleNow'[k] = cycleNow[k]
    OBVIOUS
  <2> QED BY <2>1, <2>2 DEF ReaderInv, KeysAreDue
<1>2. OneReader'
  BY DEF ReaderInv, OneReader
<1> QED BY <1>1, <1>2 DEF ReaderInv

LEMMA ReaderScan ==
  ASSUME ReaderInv, ScrapeTypeOK',
         ReadNextGroup \/ ScanConcurrent \/ ScanInterleaved
  PROVE  ReaderInv'
<1>1. CASE ReadNextGroup
  <2>1. PICK g \in agenda : Submit({MembersOf(g)}, tick)
    BY <1>1 DEF ReadNextGroup
  <2>2. g \in Groups /\ mode = "sequential" /\ mode' = mode
    BY <1>1 DEF ReadNextGroup, ReaderInv, ScrapeTypeOK
  <2>3. \A k \in Keys : Busy(k)' => k = MembersOf(g)
    BY <1>1, <2>1 DEF ReadNextGroup, Submit, Busy
  <2>4. MembersOf(g) = MembersOf(GroupOfKey(MembersOf(g)))
    BY <2>2, GroupKey
  <2>5. KeysAreDue'
    BY <2>2, <2>3, <2>4 DEF KeysAreDue
  <2>6. OneReader'
    BY <2>3 DEF OneReader
  <2> QED BY <2>5, <2>6 DEF ReaderInv
<1>2. CASE ScanConcurrent
  <2>1. mode' = "concurrent" /\ mode = "concurrent"
    BY <1>2 DEF ScanConcurrent
  <2>2. ASSUME NEW k \in Keys, Busy(k)'
        PROVE  k = MembersOf(GroupOfKey(k))
    <3>1. CASE Busy(k)
      BY <3>1, <2>1 DEF ReaderInv, KeysAreDue
    <3>2. CASE ~Busy(k)
      <4>1. PICK g \in Groups : k = MembersOf(g)
        BY <1>2, <2>2, <3>2 DEF ScanConcurrent, Submit, Busy
      <4> QED BY <4>1, GroupKey
    <3> QED BY <3>1, <3>2
  <2>3. KeysAreDue'
    BY <2>1, <2>2 DEF KeysAreDue
  <2>4. OneReader'
    BY <2>2 DEF OneReader
  <2> QED BY <2>3, <2>4 DEF ReaderInv
<1>3. CASE ScanInterleaved
  <2> DEFINE new == {due \in {MembersDue(g, now) : g \in {h \in Groups : Ready(h)}} :
                        due # {} /\ ~Overlaps(due)}
  <2>1. /\ mode = "interleaved"
        /\ UNCHANGED <<mode, now, lastForward>>
        /\ Submit(new, now)
    BY <1>3 DEF ScanInterleaved, forwardVars
  <2>2. ASSUME NEW k \in Keys, Busy(k)', k \notin new
        PROVE  Busy(k) /\ cycleNow'[k] = cycleNow[k]
    BY <2>1, <2>2 DEF Submit, Busy
  <2>3. ASSUME NEW k \in Keys, k \in new
        PROVE  /\ k = MembersDue(GroupOfKey(k), now)
               /\ ~Overlaps(k)
               /\ cycleNow'[k] = now
    <3>1. PICK g \in Groups : k = MembersDue(g, now)
      BY <2>3
    <3>2. k \subseteq MembersOf(g)
      BY <3>1 DEF MembersDue
    <3>3. GroupOfKey(k) = g
      BY <3>2, PartKey
    <3> QED BY <2>1, <2>3, <3>1, <3>3 DEF Submit
  <2> HIDE DEF new
  <2>4. KeysAreDue'
    <3> SUFFICES ASSUME NEW k \in Keys, Busy(k)'
                 PROVE  /\ k \subseteq MembersOf(GroupOfKey(k))
                        /\ cycleNow'[k] <= now
                        /\ \A m \in k : cycleNow'[k] - lastForward[m] >= Interval[m]
      BY <2>1 DEF KeysAreDue
    <3>1. CASE k \in new
      <4>1. now \in Nat
        BY DEF ReaderInv, ScrapeTypeOK
      <4> QED BY <2>3, <3>1, <4>1 DEF MembersDue
    <3>2. CASE k \notin new
      BY <2>1, <2>2, <3>2 DEF ReaderInv, KeysAreDue
    <3> QED BY <3>1, <3>2
  <2>5. ASSUME NEW j \in Keys, NEW k \in Keys, Busy(j), k \in new,
               GroupOfKey(j) = GroupOfKey(k)
        PROVE  FALSE
    <3>1. PICK m \in j : m \in Members
      BY KeyGroup
    <3>2. /\ cycleNow[j] <= now /\ cycleNow[j] - lastForward[m] >= Interval[m]
          /\ m \in MembersOf(GroupOfKey(k))
      BY <2>1, <2>5, <3>1 DEF ReaderInv, KeysAreDue
    <3>3. cycleNow[j] \in Nat /\ now \in Nat /\ lastForward[m] \in Nat /\ Interval[m] \in Nat
      BY <3>1, TimingAssumption DEF ReaderInv, ScrapeTypeOK
    <3>4. m \in MembersDue(GroupOfKey(k), now)
      BY <3>2, <3>3 DEF MembersDue
    <3>5. m \in k
      BY <2>3, <2>5, <3>4
    <3> QED BY <2>3, <2>5, <3>1, <3>5 DEF Overlaps
  <2>6. OneReader'
    <3> SUFFICES ASSUME NEW k1 \in Keys, NEW k2 \in Keys, Busy(k1)', Busy(k2)',
                        GroupOfKey(k1) = GroupOfKey(k2)
                 PROVE  k1 = k2
      BY DEF OneReader
    <3>1. CASE k1 \in new /\ k2 \in new  BY <2>3, <3>1
    <3>2. CASE k1 \in new /\ k2 \notin new
      <4>1. Busy(k2)
        BY <2>2, <3>2
      <4> QED BY <2>5, <3>2, <4>1
    <3>3. CASE k1 \notin new /\ k2 \in new
      <4>1. Busy(k1)
        BY <2>2, <3>3
      <4> QED BY <2>5, <3>3, <4>1
    <3>4. CASE k1 \notin new /\ k2 \notin new
      BY <2>2, <3>4 DEF ReaderInv, OneReader
    <3> QED BY <3>1, <3>2, <3>3, <3>4
  <2> QED BY <2>4, <2>6 DEF ReaderInv
<1> QED BY <1>1, <1>2, <1>3

\* Whoever is served belongs to the group of the cycle.
LEMMA ServedInGroup ==
  ASSUME NEW k \in Keys, NEW m \in Served(k)
  PROVE  m \in Members /\ GroupOf[m] = GroupOfKey(k)
BY DEF Served, MembersDue, MembersOf

LEMMA ReaderForward ==
  ASSUME ReaderInv, ScrapeTypeOK', NEW k \in Keys, Forward(k)
  PROVE  ReaderInv'
<1>1. Retire(k) /\ UNCHANGED <<mode, now>> /\ Busy(k)
  BY ForwardStep DEF Busy
<1>2. PICK ms \in SUBSET Served(k), stop \in Served(k) \cup {NoMember} :
         \E info : Deliver(k, ms, stop, info)
  BY ForwardStep
<1>3. \A m \in Members : lastForward'[m] # lastForward[m] => m \in ms
  BY <1>2 DEF Deliver
<1>4. ASSUME NEW j \in Keys, Busy(j)'
      PROVE  j # k /\ Busy(j) /\ cycleNow'[j] = cycleNow[j]
  BY <1>1, <1>4 DEF Retire, Busy, ReaderInv, ScrapeTypeOK
<1>5. OneReader'
  BY <1>4 DEF ReaderInv, OneReader
<1>6. ASSUME NEW j \in Keys, Busy(j)', NEW m \in j
      PROVE  lastForward'[m] = lastForward[m]
  <2>1. Busy(j) /\ j # k
    BY <1>4, <1>6
  <2>2. m \in Members /\ GroupOf[m] = GroupOfKey(j)
    BY <1>6, <2>1 DEF ReaderInv, KeysAreDue, MembersOf
  <2>3. GroupOfKey(j) # GroupOfKey(k)
    BY <1>1, <2>1 DEF ReaderInv, OneReader
  <2>4. m \notin ms
    BY <2>2, <2>3, ServedInGroup
  <2> QED BY <1>3, <2>2, <2>4
<1>7. KeysAreDue'
  <2> SUFFICES ASSUME NEW j \in Keys, Busy(j)'
               PROVE  /\ j \subseteq MembersOf(GroupOfKey(j))
                      /\ mode' # "interleaved" => j = MembersOf(GroupOfKey(j))
                      /\ mode' = "interleaved" =>
                            /\ cycleNow'[j] <= now'
                            /\ \A m \in j : cycleNow'[j] - lastForward'[m] >= Interval[m]
    BY DEF KeysAreDue
  <2> QED BY <1>1, <1>4, <1>6 DEF ReaderInv, KeysAreDue
<1> QED BY <1>5, <1>7 DEF ReaderInv

LEMMA ReaderNext == ReaderInv /\ [Next]_vars => ReaderInv'
<1> SUFFICES ASSUME ReaderInv, [Next]_vars PROVE ReaderInv'
  OBVIOUS
<1>0. ScrapeTypeOK /\ ScrapeTypeOK'
  BY TypeNext DEF ReaderInv
<1>a. now \in Nat /\ phase \in [Keys -> Phases] /\ cycleNow \in [Keys -> Nat]
  BY <1>0 DEF ScrapeTypeOK
<1>1. CASE ReadNextGroup \/ ScanConcurrent \/ ScanInterleaved
  BY <1>0, <1>1, ReaderScan
<1>2. CASE Tick \/ ScanSequential \/ UNCHANGED vars \/ \E g \in Groups : StaleReport(g)
  <2>1. /\ UNCHANGED <<mode, lastForward, phase, cycleNow>>
        /\ now' >= now
    BY <1>a, <1>2 DEF Tick, ScanSequential, StaleReport, vars, cycleVars, forwardVars
  <2> QED BY <1>0, <2>1, ReaderQuiet DEF Busy
<1>3. ASSUME NEW k \in Keys, Read(k) PROVE ReaderInv'
  <2>1. /\ UNCHANGED <<mode, lastForward, now>>
        /\ \A j \in Keys : Busy(j)' => Busy(j) /\ cycleNow'[j] = cycleNow[j]
    <3>1. CASE BeginRead(k)
      BY <1>a, <3>1 DEF BeginRead, StartTracking, forwardVars, Busy, Phases
    <3>2. CASE SkipOffline(k)
      BY <1>a, <3>2 DEF SkipOffline, Finish, forwardVars, Busy, Phases
    <3>3. CASE BlockRead(k)
      BY <1>a, <3>3 DEF BlockRead, forwardVars, Busy
    <3>4. CASE BlockLost(k)
      BY <1>a, <3>4 DEF BlockLost, forwardVars, Busy
    <3>5. CASE EndRead(k)
      BY <1>a, <3>5 DEF EndRead, Finish, forwardVars, Busy, Phases
    <3>6. CASE ReadRaises(k)
      BY <1>a, <3>6 DEF ReadRaises, MayRaise, Finish, forwardVars, Busy, Phases
    <3>7. CASE GroupReadRaises(k)
      BY <1>a, <3>7 DEF GroupReadRaises, Retire, forwardVars, Busy, Phases
    <3> QED BY <1>3, <3>1, <3>2, <3>3, <3>4, <3>5, <3>6, <3>7 DEF Read
  <2> QED BY <1>0, <1>a, <2>1, ReaderQuiet
<1>4. ASSUME NEW k \in Keys, Forward(k) PROVE ReaderInv'
  BY <1>0, <1>4, ReaderForward
<1>5. ASSUME NEW k \in Keys, TimeOut(k) \/ RetireLate(k) PROVE ReaderInv'
  <2>1. /\ UNCHANGED <<mode, lastForward, now>>
        /\ \A j \in Keys : Busy(j)' => Busy(j) /\ cycleNow'[j] = cycleNow[j]
    BY <1>a, <1>5 DEF TimeOut, RetireLate, InFlight, Retire, forwardVars, Busy, Phases
  <2> QED BY <1>0, <1>a, <2>1, ReaderQuiet
<1> QED BY <1>1, <1>2, <1>3, <1>4, <1>5 DEF Next

LEMMA ReaderInit == Init => ReaderInv
BY TypeInit DEF Init, ReaderInv, KeysAreDue, OneReader, Busy

\* At any time at most one cycle is under way for a device, in every read mode,
\* whatever times out, raises or reconnects.
THEOREM OneReaderHolds == Spec => []OneReader
<1>1. ReaderInv => OneReader
  BY DEF ReaderInv
<1> QED BY <1>1, ReaderInit, ReaderNext, PTL DEF Spec
----------------------------------------------------------------------------
(***************************************************************************)
(* Cadence: who is served was due at the tick of the cycle.  For a lone    *)
(* scraper, which nobody asks again, that is what KeysAreDue remembers.    *)
(***************************************************************************)
LEMMA ServedIsDue ==
  ASSUME ReaderInv, NEW k \in Keys, Busy(k), NEW m \in Served(k)
  PROVE  cycleNow[k] - lastForward[m] >= Interval[m]
<1>1. CASE mode = "interleaved" /\ MembersOf(GroupOfKey(k)) = {Primary[GroupOfKey(k)]}
  <2>1. PICK n \in k : n \in Members /\ GroupOf[n] = GroupOfKey(k)
    BY KeyGroup
  <2>2. m = n
    BY <1>1, <2>1 DEF Served, MembersOf
  <2> QED BY <1>1, <2>1, <2>2 DEF ReaderInv, KeysAreDue
<1>2. CASE ~(mode = "interleaved" /\ MembersOf(GroupOfKey(k)) = {Primary[GroupOfKey(k)]})
  BY <1>2 DEF Served, MembersDue
<1> QED BY <1>1, <1>2

\* What is written is written to those served, with the tick of the cycle.
LEMMA WrittenIsServed ==
  ASSUME ScrapeTypeOK, NEW k \in Keys, Forward(k),
         NEW b \in Bridges, NEW m \in Members, sent'[b][m] # sent[b][m]
  PROVE  /\ m \in Served(k)
         /\ b \in Allowed(m)
         /\ sent'[b][m] = [tick |-> cycleNow[k], stamps |-> Stamps(m)]
<1>1. PICK ms \in SUBSET Served(k), stop \in Served(k) \cup {NoMember} :
         \E info : /\ stop \in Members => info \subseteq Allowed(stop)
                   /\ Deliver(k, ms, stop, info)
  BY ForwardStep
<1>2. PICK info : /\ stop \in Members => info \subseteq Allowed(stop)
                  /\ Deliver(k, ms, stop, info)
  BY <1>1
<1>3. sent'[b][m] = IF (m \in ms /\ b \in Allowed(m)) \/ (m = stop /\ b \in info)
                    THEN [tick |-> cycleNow[k], stamps |-> Stamps(m)] ELSE sent[b][m]
  BY <1>2 DEF Deliver
<1>4. (m \in ms /\ b \in Allowed(m)) \/ (m = stop /\ b \in info)
  BY <1>3
<1>5. m # NoMember
  BY GroupsAssumption
<1> QED BY <1>1, <1>2, <1>3, <1>4, <1>5

\* Only forwarding writes.
LEMMA OnlyForwardWrites ==
  ASSUME [Next]_vars, sent' # sent
  PROVE  \E k \in Keys : Forward(k)
<1>1. CASE Tick \/ ScanSequential \/ ReadNextGroup \/ ScanConcurrent \/ ScanInterleaved
  BY <1>1 DEF Tick, ScanSequential, ReadNextGroup, ScanConcurrent, ScanInterleaved,
              forwardVars
<1>2. ASSUME NEW k \in Keys, Read(k) PROVE FALSE
  BY <1>2 DEF Read, BeginRead, SkipOffline, BlockRead, BlockLost, EndRead, ReadRaises,
              GroupReadRaises, forwardVars
<1>3. ASSUME NEW k \in Keys, TimeOut(k) \/ RetireLate(k) PROVE FALSE
  BY <1>3 DEF TimeOut, RetireLate, forwardVars
<1>4. ASSUME NEW g \in Groups, StaleReport(g) PROVE FALSE
  BY <1>4 DEF StaleReport, forwardVars
<1>5. CASE UNCHANGED vars
  BY <1>5 DEF vars, forwardVars
<1> QED BY <1>1, <1>2, <1>3, <1>4, <1>5 DEF Next

LEMMA CadenceStep ==
  ASSUME ReaderInv, [Next]_vars,
         NEW b \in Bridges, NEW m \in Members, sent'[b][m] # sent[b][m]
  PROVE  sent'[b][m].tick - lastForward[m] >= Interval[m]
<1>1. PICK k \in Keys : Forward(k)
  BY OnlyForwardWrites
<1>2. Busy(k) /\ ScrapeTypeOK
  BY <1>1, ForwardStep DEF Busy, ReaderInv
<1>3. m \in Served(k) /\ sent'[b][m] = [tick |-> cycleNow[k], stamps |-> Stamps(m)]
  BY <1>1, <1>2, WrittenIsServed
<1>4. cycleNow[k] - lastForward[m] >= Interval[m]
  BY <1>2, <1>3, ServedIsDue
<1>5. sent'[b][m].tick = cycleNow[k]
  BY <1>3
<1> QED BY <1>4, <1>5

\* No bridge is written for a scraper within its read_interval, counted from the
\* tick it was last served.
THEOREM CadenceHolds == Spec => Cadence
<1>1. ReaderInv /\ [Next]_vars
        => [\A b \in Bridges, m \in Members :
              sent'[b][m] # sent[b][m]
                  => sent'[b][m].tick - lastForward[m] >= Interval[m]]_vars
  BY CadenceStep
<1> QED BY <1>1, ReaderInit, ReaderNext, PTL DEF Spec, Cadence
----------------------------------------------------------------------------
(***************************************************************************)
(* Whole cycles.  While the verdict of a group is "complete", every block  *)
(* a member asks for has been read since the cycle began, or is still to   *)
(* be read.  Grouped reads keep that only while the cycle lasts: one that  *)
(* raises leaves a half filled dictionary and the verdict behind.          *)
(***************************************************************************)
Reading(g) == \E k \in Keys : GroupOfKey(k) = g /\ phase[k] \in {"reading", "read"}

Pending(g, c) == \E k \in Keys : GroupOfKey(k) = g /\ c \in left[k]

FreshIn(g) ==
    /\ begun[g] <= now
    /\ isComplete[g] /\ (mode = "interleaved" \/ Reading(g)) =>
          \A m \in MembersOf(g) : \A c \in Wants[m] :
              store[Source(m)][c] >= begun[g] \/ Pending(g, c)

CycleInv == ReaderInv /\ \A g \in Groups : FreshIn(g)

LEMMA SourceInGroup ==
  ASSUME NEW g \in Groups, NEW m \in MembersOf(g)
  PROVE  Source(m) \in MembersOf(g)
BY PrimaryAssumption DEF Source, MembersOf

\* A step that leaves group g and what was read of it alone.
LEMMA FreshQuiet ==
  ASSUME CycleInv, ScrapeTypeOK', NEW g \in Groups,
         now' >= now, mode' = mode, begun'[g] = begun[g],
         isComplete'[g] => isComplete[g],
         \A m \in MembersOf(g) : store'[m] = store[m],
         \A k \in Keys : GroupOfKey(k) = g =>
             /\ left'[k] = left[k]
             /\ mode # "interleaved" /\ phase'[k] \in {"reading", "read"}
                   => phase[k] \in {"reading", "read"}
  PROVE  FreshIn(g)'
<1>1. now \in Nat /\ now' \in Nat /\ begun[g] \in Nat
  BY DEF CycleInv, ReaderInv, ScrapeTypeOK
<1>2. begun'[g] <= now'
  BY <1>1 DEF CycleInv, FreshIn
<1>3. mode # "interleaved" /\ Reading(g)' => Reading(g)
  BY DEF Reading
<1>4. \A m \in MembersOf(g) : Source(m)' = Source(m) /\ store'[Source(m)] = store[Source(m)]
  BY SourceInGroup DEF Source
<1>5. \A c : Pending(g, c)' <=> Pending(g, c)
  BY DEF Pending
<1> QED BY <1>2, <1>3, <1>4, <1>5 DEF CycleInv, FreshIn

\* A step of cycle k is of no concern to the other groups.
LEMMA FreshElsewhere ==
  ASSUME CycleInv, ScrapeTypeOK', NEW k \in Keys, Read(k),
         NEW h \in Groups, h # GroupOfKey(k)
  PROVE  FreshIn(h)'
<1> DEFINE g == GroupOfKey(k)
<1>0. g \in Groups /\ Primary[g] \in Members /\ GroupOf[Primary[g]] = g
  BY KeyGroup, PrimaryIsMember
<1>1. now' >= now /\ mode' = mode
  <2>1. now' = now /\ now \in Nat /\ mode' = mode
    BY DEF Read, BeginRead, SkipOffline, BlockRead, BlockLost, EndRead, ReadRaises,
           GroupReadRaises, CycleInv, ReaderInv, ScrapeTypeOK
  <2> QED BY <2>1
<1>2. begun'[h] = begun[h] /\ isComplete'[h] = isComplete[h]
  BY <1>0 DEF Read, BeginRead, StartTracking, SkipOffline, BlockRead, BlockLost, EndRead,
              ReadRaises, GroupReadRaises, deviceVars, CycleInv, ReaderInv, ScrapeTypeOK
<1>3. \A j \in Keys : GroupOfKey(j) = h => left'[j] = left[j] /\ phase'[j] = phase[j]
  <2> SUFFICES ASSUME NEW j \in Keys, j # k
               PROVE  left'[j] = left[j] /\ phase'[j] = phase[j]
    OBVIOUS
  <2> QED BY DEF Read, BeginRead, StartTracking, SkipOffline, BlockRead, BlockLost, EndRead,
                 ReadRaises, GroupReadRaises, Finish, Retire, CycleInv, ReaderInv, ScrapeTypeOK
<1>4. ASSUME NEW m \in MembersOf(h)
      PROVE  store'[m] = store[m]
  <2>1. m \in Members /\ GroupOf[m] = h /\ m # Primary[g]
    BY <1>0 DEF MembersOf
  <2>2. store \in [Members -> [Blocks -> Nat]]
    BY DEF CycleInv, ReaderInv, ScrapeTypeOK
  <2>3. ASSUME NEW kept \in [Members -> [Blocks -> Nat]]
        PROVE  Merged(g, kept)[m] = kept[m]
    BY <2>1 DEF Merged
  <2>4. ASSUME NEW b
        PROVE  Decoded(g, b)[m] = store[m]
    BY <2>1, <2>2 DEF Decoded
  <2>5. CASE BeginRead(k)
    BY <2>1, <2>2, <2>5 DEF BeginRead, StartTracking
  <2>6. CASE BlockRead(k)
    <3> DEFINE b == First(left[k])
    <3>1. Decoded(g, b) \in [Members -> [Blocks -> Nat]]
      BY <1>0, DecodedType DEF CycleInv, ReaderInv
    <3>2. store' = Merged(g, Decoded(g, b))
      BY <2>6 DEF BlockRead
    <3> HIDE DEF b
    <3> QED BY <2>3, <2>4, <3>1, <3>2
  <2>7. CASE BlockLost(k)
    BY <2>2, <2>3, <2>7 DEF BlockLost
  <2>8. CASE SkipOffline(k) \/ EndRead(k) \/ ReadRaises(k) \/ GroupReadRaises(k)
    BY <2>8 DEF SkipOffline, EndRead, ReadRaises, GroupReadRaises, deviceVars
  <2> QED BY <2>5, <2>6, <2>7, <2>8 DEF Read
<1> QED BY <1>1, <1>2, <1>3, <1>4, FreshQuiet

\* Reading block b: whoever asks for it finds it fresh in his source.
LEMMA BlockIsStored ==
  ASSUME CycleInv, NEW g \in Groups, NEW b, NEW m \in MembersOf(g), NEW c \in Wants[m]
  PROVE  LET new == Merged(g, Decoded(g, b))[Source(m)][c] IN
         IF c = b THEN new >= begun[g]
         ELSE store[Source(m)][c] >= begun[g] => new >= begun[g]
<1> DEFINE p == Primary[g]
           kept == Decoded(g, b)
           src == Source(m)
<1>0. /\ m \in Members /\ GroupOf[m] = g /\ c \in Blocks
      /\ p \in Members /\ GroupOf[p] = g
      /\ now \in Nat /\ begun[g] \in Nat /\ begun[g] <= now
      /\ store \in [Members -> [Blocks -> Nat]]
      /\ kept \in [Members -> [Blocks -> Nat]]
      /\ Merged(g, kept) \in [Members -> [Blocks -> Nat]]
  <2>1. kept \in [Members -> [Blocks -> Nat]]
    BY DecodedType DEF CycleInv, ReaderInv
  <2> HIDE DEF kept
  <2>2. Merged(g, kept) \in [Members -> [Blocks -> Nat]]
    BY <2>1, MergedType
  <2> QED BY <2>1, <2>2, PrimaryIsMember, DataAssumption
          DEF CycleInv, ReaderInv, ScrapeTypeOK, FreshIn, MembersOf
<1>1. src \in Members /\ (src = m \/ src = p)
  <2>1. src = m \/ src = p
    BY <1>0 DEF Source
  <2> HIDE DEF src, p, kept
  <2> QED BY <1>0, <2>1
<1>2. kept[src][c] = IF c = b THEN now ELSE store[src][c]
  <2>1. CASE mode = "interleaved"
    <3>1. src = m
      BY <2>1 DEF Source
    <3>2. kept[m] = IF b \in Wants[m] THEN [store[m] EXCEPT ![b] = now] ELSE store[m]
      BY <1>0, <2>1 DEF Decoded
    <3> QED BY <1>0, <3>1, <3>2
  <2>2. CASE mode # "interleaved"
    <3>1. src = p
      BY <1>0, <2>2 DEF Source
    <3>2. kept[p] = [store[p] EXCEPT ![b] = now]
      BY <1>0, <2>2 DEF Decoded
    <3> QED BY <1>0, <3>1, <3>2
  <2> QED BY <2>1, <2>2
<1>3. CASE c = b
  <2>1. kept[src][c] >= begun[g]
    BY <1>0, <1>2, <1>3
  <2>2. Merged(g, kept)[src][c] = kept[src][c] \/ kept[src][c] = 0
    <3> HIDE DEF kept, src
    <3> QED BY <1>0, <1>1 DEF Merged
  <2>3. Merged(g, kept)[src][c] \in Nat
    BY <1>0, <1>1
  <2> QED BY <1>0, <1>3, <2>1, <2>2, <2>3
<1>4. CASE c # b
  <2> SUFFICES ASSUME store[src][c] >= begun[g]
               PROVE  Merged(g, kept)[src][c] >= begun[g]
    BY <1>4
  <2>1. kept[src][c] >= begun[g]
    BY <1>2, <1>4
  <2>2. Merged(g, kept)[src][c] = kept[src][c] \/ kept[src][c] = 0
    <3> HIDE DEF kept, src
    <3> QED BY <1>0, <1>1 DEF Merged
  <2>3. Merged(g, kept)[src][c] \in Nat
    BY <1>0, <1>1
  <2> QED BY <1>0, <2>1, <2>2, <2>3
<1> QED BY <1>3, <1>4

\* A step of cycle k, seen from the group it reads.
LEMMA FreshRead ==
  ASSUME CycleInv, ScrapeTypeOK', NEW k \in Keys, Read(k)
  PROVE  FreshIn(GroupOfKey(k))'
<1> DEFINE g == GroupOfKey(k)
<1>0. /\ g \in Groups
      /\ begun[g] <= now /\ now \in Nat
      /\ phase \in [Keys -> Phases] /\ left \in [Keys -> SUBSET Blocks]
      /\ begun \in [Groups -> Nat] /\ isComplete \in [Groups -> BOOLEAN]
      /\ \A j \in Keys : left[j] # {} => phase[j] = "reading"
  BY KeyGroup DEF CycleInv, FreshIn, ReaderInv, ScrapeTypeOK
<1>1. CASE BeginRead(k)
  <2>1. begun'[g] = now /\ now' = now /\ left'[k] = BlocksOf(g)
    BY <1>0, <1>1 DEF BeginRead, StartTracking
  <2>2. \A m \in MembersOf(g) : \A c \in Wants[m] : Pending(g, c)'
    BY <2>1 DEF BlocksOf, Pending
  <2> QED BY <1>0, <2>1, <2>2 DEF FreshIn
<1>2. CASE SkipOffline(k) \/ EndRead(k)
  <2>1. left[k] = {}
    BY <1>0, <1>2 DEF SkipOffline, EndRead
  <2>2. left' = [left EXCEPT ![k] = {}] /\ phase' = [phase EXCEPT ![k] = "read"]
    BY <1>2 DEF SkipOffline, EndRead, Finish
  <2>3. mode # "interleaved" => phase[k] = "reading"
    BY <1>2 DEF SkipOffline, EndRead
  <2>4. UNCHANGED <<mode, now, isComplete, store, begun>>
    BY <1>2 DEF SkipOffline, EndRead, deviceVars
  <2>5. \A j \in Keys :
           /\ left'[j] = left[j]
           /\ mode # "interleaved" /\ phase'[j] \in {"reading", "read"}
                 => phase[j] \in {"reading", "read"}
    BY <1>0, <2>1, <2>2, <2>3
  <2> QED BY <1>0, <2>4, <2>5, FreshQuiet
<1>3. CASE BlockRead(k)
  <2> DEFINE b == First(left[k])
  <2>1. /\ left' = [left EXCEPT ![k] = @ \ {b}]
        /\ store' = Merged(g, Decoded(g, b))
        /\ UNCHANGED <<mode, now, phase, isComplete, begun>>
    BY <1>3 DEF BlockRead
  <2> HIDE DEF b
  <2>2. Reading(g)' <=> Reading(g)
    BY <2>1 DEF Reading
  <2>3. ASSUME NEW m \in MembersOf(g), NEW c \in Wants[m],
               store[Source(m)][c] >= begun[g] \/ Pending(g, c)
        PROVE  store'[Source(m)'][c] >= begun'[g] \/ Pending(g, c)'
    <3>1. Source(m)' = Source(m)
      BY <2>1 DEF Source
    <3>2. IF c = b THEN store'[Source(m)][c] >= begun[g]
          ELSE store[Source(m)][c] >= begun[g] => store'[Source(m)][c] >= begun[g]
      BY <1>0, <2>1, BlockIsStored
    <3>3. Pending(g, c) /\ c # b => Pending(g, c)'
      BY <1>0, <2>1 DEF Pending
    <3> QED BY <2>1, <2>3, <3>1, <3>2, <3>3
  <2> QED BY <1>0, <2>1, <2>2, <2>3 DEF CycleInv, FreshIn
<1>4. CASE BlockLost(k) \/ ReadRaises(k)
  <2>1. ~isComplete'[g] /\ UNCHANGED <<now, begun>>
    BY <1>0, <1>4 DEF BlockLost, ReadRaises
  <2> QED BY <1>0, <2>1 DEF FreshIn
<1>5. CASE GroupReadRaises(k)
  <2>1. UNCHANGED <<mode, now, begun>> /\ mode # "interleaved" /\ Busy(k)
    BY <1>5 DEF GroupReadRaises, MayRaise, Busy
  <2>2. phase' = [phase EXCEPT ![k] = "idle"]
    BY <1>5 DEF GroupReadRaises, Retire
  <2>3. ~Reading(g)'
    <3> SUFFICES ASSUME NEW j \in Keys, GroupOfKey(j) = g, phase'[j] \in {"reading", "read"}
                 PROVE  FALSE
      BY DEF Reading
    <3>1. j # k /\ Busy(j)
      BY <1>0, <2>2 DEF Busy
    <3> QED BY <2>1, <3>1 DEF CycleInv, ReaderInv, OneReader
  <2> QED BY <1>0, <2>1, <2>3 DEF FreshIn
<1> QED BY <1>1, <1>2, <1>3, <1>4, <1>5 DEF Read

LEMMA CycleNext == CycleInv /\ [Next]_vars => CycleInv'
<1> SUFFICES ASSUME CycleInv, [Next]_vars PROVE CycleInv'
  OBVIOUS
<1>0. ReaderInv' /\ ScrapeTypeOK'
  BY ReaderNext DEF CycleInv, ReaderInv
<1>a. /\ now \in Nat /\ phase \in [Keys -> Phases] /\ left \in [Keys -> SUBSET Blocks]
      /\ \A j \in Keys : left[j] # {} => phase[j] = "reading"
  BY DEF CycleInv, ReaderInv, ScrapeTypeOK
<1>b. SUFFICES ASSUME NEW h \in Groups PROVE FreshIn(h)'
  BY <1>0 DEF CycleInv
<1>1. CASE Tick \/ ScanSequential \/ ReadNextGroup \/ ScanConcurrent \/ ScanInterleaved
           \/ (\E g \in Groups : StaleReport(g)) \/ UNCHANGED vars
  <2>0. now' = now \/ now' = now + 1
    BY <1>1 DEF Tick, ScanSequential, ReadNextGroup, ScanConcurrent, ScanInterleaved,
                StaleReport, vars
  <2>1. UNCHANGED <<mode, isComplete, store, begun, left>> /\ now' >= now
    <3>1. UNCHANGED <<mode, isComplete, store, begun>>
      BY <1>1 DEF Tick, ScanSequential, ReadNextGroup, ScanConcurrent, ScanInterleaved,
                  StaleReport, vars, deviceVars
    <3>2. UNCHANGED left
      BY <1>1 DEF Tick, ScanSequential, ReadNextGroup, ScanConcurrent, ScanInterleaved,
                  StaleReport, Submit, vars, cycleVars
    <3> QED BY <1>a, <2>0, <3>1, <3>2
  <2>2. \A j \in Keys : phase'[j] \in {"reading", "read"} => phase'[j] = phase[j]
    BY <1>1 DEF Tick, ScanSequential, ReadNextGroup, ScanConcurrent, ScanInterleaved,
                StaleReport, Submit, vars, cycleVars
  <2> QED BY <1>0, <2>1, <2>2, FreshQuiet
<1>2. ASSUME NEW k \in Keys, Read(k) PROVE FreshIn(h)'
  BY <1>0, <1>2, FreshRead, FreshElsewhere
<1>3. ASSUME NEW k \in Keys, Forward(k) \/ TimeOut(k) \/ RetireLate(k) PROVE FreshIn(h)'
  <2>1. UNCHANGED <<mode, now, isComplete, store, begun>>
    BY <1>3, ForwardStep DEF TimeOut, RetireLate, deviceVars
  <2>2. (Retire(k) /\ phase[k] # "reading") \/ UNCHANGED <<phase, left>>
    BY <1>3, ForwardStep DEF TimeOut, RetireLate
  <2>3. \A j \in Keys : /\ left'[j] = left[j]
                        /\ phase'[j] \in {"reading", "read"} => phase'[j] = phase[j]
    BY <1>a, <2>2 DEF Retire
  <2> QED BY <1>0, <1>a, <2>1, <2>3, FreshQuiet
<1> QED BY <1>1, <1>2, <1>3 DEF Next

LEMMA CycleInit == Init => CycleInv
<1> SUFFICES ASSUME Init PROVE CycleInv
  OBVIOUS
<1>1. ReaderInv
  BY ReaderInit
<1>2. ASSUME NEW g \in Groups PROVE FreshIn(g)
  <2>1. begun[g] = 0 /\ now \in Nat
    BY TimingAssumption DEF Init
  <2>2. \A m \in MembersOf(g) : \A c \in Wants[m] : store[Source(m)][c] = 0
    BY SourceIsMember, DataAssumption DEF Init, Empty, MembersOf
  <2> QED BY <2>1, <2>2 DEF FreshIn
<1> QED BY <1>1, <1>2 DEF CycleInv

\* When the worker or the loop forwards, nothing of the group is left to read.
LEMMA ForwardIsFresh ==
  ASSUME CycleInv, [Next]_vars,
         NEW b \in WholeBridges, NEW m \in Members, sent'[b][m] # sent[b][m]
  PROVE  \A t \in sent'[b][m].stamps : t >= begun[GroupOf[m]]
<1>1. PICK k \in Keys : Forward(k)
  BY OnlyForwardWrites
<1>2. ScrapeTypeOK /\ phase[k] = "read" /\ b \in Bridges
  BY <1>1, ForwardStep, DataAssumption DEF CycleInv, ReaderInv
<1>w. /\ m \in Served(k) /\ b \in Allowed(m)
      /\ sent'[b][m] = [tick |-> cycleNow[k], stamps |-> Stamps(m)]
  BY <1>1, <1>2, WrittenIsServed
<1>3. m \in Served(k) /\ b \in Allowed(m) /\ sent'[b][m].stamps = Stamps(m)
  BY <1>w
<1> DEFINE g == GroupOf[m]
<1>4. g = GroupOfKey(k) /\ g \in Groups /\ m \in MembersOf(g)
  BY <1>3, ServedInGroup, KeyGroup DEF MembersOf
<1>5. isComplete[g] /\ Reading(g)
  BY <1>2, <1>3, <1>4 DEF Allowed, Reading
<1>6. \A c : ~Pending(g, c)
  <2> SUFFICES ASSUME NEW c, NEW j \in Keys, GroupOfKey(j) = g, c \in left[j]
               PROVE  FALSE
    BY DEF Pending
  <2>1. phase[j] = "reading"
    BY <1>2 DEF ScrapeTypeOK
  <2> QED BY <1>2, <1>4, <2>1 DEF CycleInv, ReaderInv, OneReader, Busy
<1>7. \A c \in Wants[m] : store[Source(m)][c] >= begun[g]
  BY <1>4, <1>5, <1>6 DEF CycleInv, FreshIn
<1> QED BY <1>3, <1>7 DEF Stamps

\* A bridge that requires complete cycles is never given a block that an earlier
\* cycle read.
THEOREM WholeCycleHolds == Spec => WholeCycle
<1>1. CycleInv /\ [Next]_vars
        => [\A b \in WholeBridges, m \in Members :
              sent'[b][m] # sent[b][m]
                  => \A t \in sent'[b][m].stamps : t >= begun[GroupOf[m]]]_vars
  BY ForwardIsFresh
<1> QED BY <1>1, CycleInit, CycleNext, PTL DEF Spec, WholeCycle

----------------------------------------------------------------------------
(* Register reads: types. *)

LEMMA ReadsConstants ==
    /\ RangeCount \in Nat /\ RangeCount >= 1 /\ BlockRetries \in Nat /\ BlockRetries >= 1
    /\ MaxFailures \in Nat /\ MaxFailures >= 1 /\ DisableTime \in Nat /\ DisableTime >= 1
    /\ ReadRetries \in Nat /\ \A p \in ReadPaths : p \in {"blocking", "iter"}
    /\ TracksFailures \in BOOLEAN /\ NoticesSilence \in BOOLEAN
  BY RegisterReadsAssumption

LEMMA ReadsTypeInit == RegisterReadsInit => RegisterReadsTypeOK
<1> SUFFICES ASSUME RegisterReadsInit PROVE RegisterReadsTypeOK
  OBVIOUS
<1> USE ReadsConstants DEF RegisterReadsInit, RangeIds
<1>1. {answering, portOn, complete} \subseteq BOOLEAN /\ rejects \cup got \cup innocent \subseteq RangeIds
  OBVIOUS
<1>2. failures \in [RangeIds -> 0..MaxFailures] /\ disabledFor \in [RangeIds -> 0..DisableTime]
  OBVIOUS
<1>3. /\ ix \in 0..RangeCount /\ tries \in Nat /\ readPath \in ReadPaths
      /\ retry \in 0..(IF readPath = "blocking" THEN ReadRetries + 1 ELSE BlockRetries - 1)
  OBVIOUS
<1> QED BY <1>1, <1>2, <1>3 DEF RegisterReadsTypeOK

LEMMA ReadsTypeNext == RegisterReadsTypeOK /\ [RegisterReadsNext]_readVars => RegisterReadsTypeOK'
<1> SUFFICES ASSUME RegisterReadsTypeOK, [RegisterReadsNext]_readVars PROVE RegisterReadsTypeOK'
  OBVIOUS
<1> USE ReadsConstants DEF RegisterReadsTypeOK, RangeIds, outsideRead, trackers
<1>1. CASE ConnectPort
  BY <1>1 DEF ConnectPort
<1>2. CASE BeginCycle
  BY <1>2 DEF BeginCycle
<1>3. CASE SkipRange
  <2>1. ix' \in 0..RangeCount /\ retry' \in {0, retry}
    BY <1>3 DEF SkipRange, NextRange
  <2>2. retry' \in 0..(IF readPath = "blocking" THEN ReadRetries + 1 ELSE BlockRetries - 1)
    BY <2>1
  <2> QED BY <1>3, <2>1, <2>2 DEF SkipRange
<1>4. CASE ReadSucceeds
  <2>1. ix' \in 0..RangeCount /\ (retry' = 0 \/ (retry' = retry - 1 /\ retry # 0))
    BY <1>4 DEF ReadSucceeds, NextRange
  <2>2. retry' \in 0..(IF readPath = "blocking" THEN ReadRetries + 1 ELSE BlockRetries - 1)
    BY <2>1
  <2>3. /\ failures' \in [RangeIds -> 0..MaxFailures]
        /\ disabledFor' \in [RangeIds -> 0..DisableTime]
    BY <1>4 DEF ReadSucceeds
  <2>4. ix \in RangeIds /\ got' \subseteq RangeIds /\ innocent' \subseteq RangeIds
    BY <1>4 DEF ReadSucceeds
  <2>5. UNCHANGED <<outsideRead, portOn, complete>> /\ tries' \in Nat
    BY <1>4 DEF ReadSucceeds
  <2> QED BY <2>1, <2>2, <2>3, <2>4, <2>5
<1>5. CASE ReadFails
  <2>1. /\ failures' \in [RangeIds -> 0..MaxFailures]
        /\ disabledFor' \in [RangeIds -> 0..DisableTime]
    <3>1. CASE UNCHANGED trackers
      BY <3>1
    <3>2. CASE /\ failures' = [failures EXCEPT ![ix] = Struck(@)]
               /\ disabledFor' = [disabledFor EXCEPT ![ix] =
                                     IF failures[ix] + 1 >= MaxFailures THEN DisableTime ELSE @]
      <4>1. ix \in RangeIds
        BY <1>5 DEF ReadFails
      <4>2. Struck(failures[ix]) \in 0..MaxFailures
        BY <4>1 DEF Struck
      <4> QED BY <3>2, <4>1, <4>2
    <3> QED BY <1>5, <3>1, <3>2 DEF ReadFails, RecordFailure
  <2>2. ix' \in 0..RangeCount /\ (retry' \in {0, retry} \/ (MayRetry /\ retry' = retry + 1))
    BY <1>5 DEF ReadFails, NextRange
  <2>3. retry' \in 0..(IF readPath = "blocking" THEN ReadRetries + 1 ELSE BlockRetries - 1)
    BY <2>2 DEF MayRetry
  <2>4. /\ UNCHANGED outsideRead /\ tries' = tries + 1 /\ got' = got
        /\ complete' \in {complete, FALSE} /\ innocent' \subseteq innocent
    BY <1>5 DEF ReadFails
  <2>5. portOn' \in BOOLEAN
    BY <1>5 DEF ReadFails
  <2>6. {answering', portOn', complete'} \subseteq BOOLEAN
    BY <2>4, <2>5
  <2>7. readPath' \in ReadPaths /\ readPath' = readPath /\ tries' \in Nat /\ ix' \in 0..RangeCount
    BY <2>2, <2>4
  <2>8. rejects' \cup got' \cup innocent' \subseteq RangeIds
    BY <2>4
  <2> QED BY <2>1, <2>3, <2>6, <2>7, <2>8
<1>6. ASSUME NEW r \in RangeIds, EnableRange(r) PROVE RegisterReadsTypeOK'
  BY <1>6 DEF EnableRange
<1>7. CASE DeviceFails
  BY <1>7 DEF DeviceFails
<1>8. CASE ReadTimePasses
  <2>1. disabledFor' \in [RangeIds -> 0..DisableTime]
    <3>1. \A r \in RangeIds :
             (IF disabledFor[r] = 0 THEN 0 ELSE disabledFor[r] - 1) \in 0..DisableTime
      OBVIOUS
    <3> QED BY <1>8, <3>1 DEF ReadTimePasses
  <2> QED BY <1>8, <2>1 DEF ReadTimePasses
<1>9. CASE UNCHANGED readVars
  BY <1>9 DEF readVars
<1> QED BY <1>1, <1>2, <1>3, <1>4, <1>5, <1>6, <1>7, <1>8, <1>9 DEF RegisterReadsNext

\* The register reads of modbus_base are well typed in every reachable state:
\* failure_count never exceeds max_failures_before_disable, no range is disabled
\* for longer than disable_duration_hours, the retries used stay in their budget.
THEOREM ReadsTypeCorrect == RegisterReadsSpec => []RegisterReadsTypeOK
  BY ReadsTypeInit, ReadsTypeNext, PTL DEF RegisterReadsSpec

----------------------------------------------------------------------------
(* Register reads: cycles and ranges. *)

\* The ranges this cycle is done with, and how many they are.
Behind == IF ix = 0 THEN RangeIds ELSE 1..(ix - 1)
Passed == IF ix = 0 THEN RangeCount ELSE ix - 1

\* What the reads of a cycle have cost: a range costs at most one read that does
\* not count as a retry and one that a later success pays back; on the other
\* path every range has a budget of its own. Between cycles the retries of the
\* last one are kept on the blocking path only.
ReadsPaid ==
    /\ readPath = "blocking" => tries <= retry + 2 * Passed
    /\ readPath = "iter" => tries <= retry + Passed * BlockRetries /\ (ix = 0 => retry = 0)

CycleReadInv ==
    /\ RegisterReadsTypeOK
    /\ complete => Behind \subseteq got
    /\ ix # 0 => got \subseteq Behind
    /\ ReadsPaid
    /\ NoticesSilence => \A r \in innocent : disabledFor[r] = 0

LEMMA CycleReadInit == RegisterReadsInit => CycleReadInv
  BY ReadsTypeInit, ReadsConstants
     DEF RegisterReadsInit, CycleReadInv, Behind, Passed, ReadsPaid, RangeIds

LEMMA TimesMonotone ==
  ASSUME NEW m \in Nat, NEW n \in Nat, NEW k \in Nat, m <= n
  PROVE  m * k \in Nat /\ m * k <= n * k
<1>1. PICK d \in Nat : n = m + d
  <2>1. n - m \in Nat /\ n = m + (n - m)
    OBVIOUS
  <2> QED BY <2>1
<1>2. n * k = m * k + d * k /\ d * k \in Nat /\ m * k \in Nat
  BY <1>1
<1> QED BY <1>2

LEMMA OneRangeMore ==
  ASSUME NEW n \in Nat
  PROVE  n * BlockRetries \in Nat /\ (n + 1) * BlockRetries = n * BlockRetries + BlockRetries
  BY ReadsConstants

\* Where a step that leaves a range leads.
LEMMA RangeLeft ==
  ASSUME RegisterReadsTypeOK, ix # 0, NEW k, NextRange(k)
  PROVE  /\ Passed' = Passed + 1 /\ Passed \in Nat
         /\ Behind' = Behind \cup {ix}
         /\ retry' = k
  BY ReadsConstants DEF RegisterReadsTypeOK, NextRange, Passed, Behind, RangeIds

LEMMA CycleReadNext == CycleReadInv /\ [RegisterReadsNext]_readVars => CycleReadInv'
<1> SUFFICES ASSUME CycleReadInv, [RegisterReadsNext]_readVars PROVE CycleReadInv'
  OBVIOUS
<1> USE ReadsConstants DEF outsideRead, trackers
<1>1. RegisterReadsTypeOK /\ RegisterReadsTypeOK'
  BY ReadsTypeNext DEF CycleReadInv
<1>2. /\ retry \in Nat /\ tries \in Nat /\ ix \in 0..RangeCount
      /\ readPath \in {"blocking", "iter"}
      /\ readPath = "iter" => retry <= BlockRetries - 1
  BY <1>1 DEF RegisterReadsTypeOK
<1>3. Passed \in Nat
  BY <1>2 DEF Passed
<1>4. CASE ConnectPort
  BY <1>1, <1>4 DEF ConnectPort, CycleReadInv, Behind, Passed, ReadsPaid, RegisterReadsTypeOK
<1>5. CASE BeginCycle
  BY <1>1, <1>5 DEF BeginCycle, CycleReadInv, Behind, Passed, ReadsPaid
<1>6. CASE SkipRange
  <2>1. PICK k \in {0, retry} : /\ NextRange(k) /\ (readPath = "iter" => k = 0)
                               /\ (readPath = "blocking" => k = retry)
    BY <1>2, <1>6 DEF SkipRange
  <2>2. Passed' = Passed + 1 /\ Behind' = Behind \cup {ix} /\ retry' = k
    BY <1>1, <1>6, <2>1, RangeLeft DEF SkipRange
  <2>3. UNCHANGED <<readPath, tries, got, innocent, disabledFor>> /\ ix # 0 /\ complete' = FALSE
    BY <1>6 DEF SkipRange
  <2>4. ReadsPaid'
    BY <1>2, <1>3, <2>1, <2>2, <2>3, OneRangeMore DEF CycleReadInv, ReadsPaid
  <2> QED BY <1>1, <2>2, <2>3, <2>4 DEF CycleReadInv
<1>7. CASE ReadSucceeds
  <2>1. PICK k \in Nat : /\ NextRange(k) /\ (readPath = "iter" => k = 0)
                        /\ (readPath = "blocking" => k + 1 >= retry)
    BY <1>2, <1>7 DEF ReadSucceeds
  <2>2. Passed' = Passed + 1 /\ Behind' = Behind \cup {ix} /\ retry' = k
    BY <1>1, <1>7, <2>1, RangeLeft DEF ReadSucceeds
  <2>3. /\ UNCHANGED <<readPath, complete>> /\ ix # 0 /\ tries' = tries + 1
        /\ got' = got \cup {ix} /\ innocent' = innocent \cup {ix}
        /\ disabledFor' = [disabledFor EXCEPT ![ix] = 0]
    BY <1>7 DEF ReadSucceeds
  <2>4. ReadsPaid'
    BY <1>2, <1>3, <2>1, <2>2, <2>3, OneRangeMore DEF CycleReadInv, ReadsPaid
  <2>5. NoticesSilence => \A r \in innocent' : disabledFor'[r] = 0
    BY <1>1, <1>2, <2>3 DEF CycleReadInv, RegisterReadsTypeOK, RangeIds
  <2> QED BY <1>1, <2>2, <2>3, <2>4, <2>5 DEF CycleReadInv
<1>8. CASE ReadFails
  <2>1. UNCHANGED <<readPath, got>> /\ ix # 0 /\ tries' = tries + 1
    BY <1>8 DEF ReadFails
  <2>2. NoticesSilence => \A r \in innocent' : disabledFor'[r] = 0
    <3>1. CASE answering
      BY <1>1, <1>8, <3>1 DEF ReadFails, RecordFailure, CycleReadInv, RegisterReadsTypeOK
    <3>2. CASE ~answering
      BY <1>8, <3>2 DEF ReadFails, RecordFailure, CycleReadInv
    <3> QED BY <3>1, <3>2
  <2>3. CASE MayRetry
    <3>1. retry' = retry + 1 /\ UNCHANGED <<ix, complete>>
      BY <1>8, <2>3 DEF ReadFails
    <3>2. Passed' = Passed /\ Behind' = Behind
      BY <3>1 DEF Passed, Behind
    <3>3. ReadsPaid'
      BY <1>2, <1>3, <2>1, <3>1, <3>2, OneRangeMore DEF CycleReadInv, ReadsPaid
    <3> QED BY <1>1, <2>1, <2>2, <3>1, <3>2, <3>3 DEF CycleReadInv
  <2>4. CASE ~MayRetry
    <3>1. PICK k \in {0, retry} : /\ NextRange(k) /\ (readPath = "iter" => k = 0)
                                 /\ (readPath = "blocking" => k = retry)
      BY <1>2, <1>8, <2>4 DEF ReadFails
    <3>2. Passed' = Passed + 1 /\ Behind' = Behind \cup {ix} /\ retry' = k
      BY <1>1, <2>1, <3>1, RangeLeft
    <3>3. complete' = FALSE
      BY <1>8, <2>4 DEF ReadFails
    <3>4. ReadsPaid'
      BY <1>2, <1>3, <2>1, <3>1, <3>2, OneRangeMore DEF CycleReadInv, ReadsPaid
    <3> QED BY <1>1, <2>1, <2>2, <3>2, <3>3, <3>4 DEF CycleReadInv
  <2> QED BY <2>3, <2>4
<1>9. ASSUME NEW r \in RangeIds, EnableRange(r) PROVE CycleReadInv'
  BY <1>1, <1>9 DEF EnableRange, CycleReadInv, Behind, Passed, ReadsPaid, RegisterReadsTypeOK
<1>10. CASE DeviceFails
  BY <1>1, <1>10 DEF DeviceFails, CycleReadInv, Behind, Passed, ReadsPaid
<1>11. CASE ReadTimePasses
  <2>1. \A r \in RangeIds : disabledFor[r] = 0 => disabledFor'[r] = 0
    BY <1>11 DEF ReadTimePasses
  <2>2. UNCHANGED <<readPath, ix, retry, complete, got, innocent, tries>>
    BY <1>11 DEF ReadTimePasses
  <2> QED BY <1>1, <2>1, <2>2 DEF CycleReadInv, Behind, Passed, ReadsPaid, RegisterReadsTypeOK
<1>12. CASE UNCHANGED readVars
  BY <1>1, <1>12 DEF readVars, CycleReadInv, Behind, Passed, ReadsPaid
<1> QED BY <1>4, <1>5, <1>6, <1>7, <1>8, <1>9, <1>10, <1>11, <1>12 DEF RegisterReadsNext

LEMMA BudgetHolds == CycleReadInv => CycleIsBounded
<1> SUFFICES ASSUME CycleReadInv PROVE CycleIsBounded
  OBVIOUS
<1> USE ReadsConstants
<1>1. /\ retry \in Nat /\ tries \in Nat /\ ix \in 0..RangeCount
      /\ readPath \in {"blocking", "iter"}
      /\ readPath = "iter" => retry <= BlockRetries - 1
      /\ readPath = "blocking" => retry <= ReadRetries + 1
  BY DEF CycleReadInv, RegisterReadsTypeOK
<1>2. Passed \in Nat /\ Passed <= RangeCount /\ (ix # 0 => Passed + 1 <= RangeCount)
  BY <1>1 DEF Passed
<1>3. CASE readPath = "blocking"
  BY <1>1, <1>2, <1>3 DEF CycleReadInv, ReadsPaid, CycleIsBounded
<1>4. CASE readPath = "iter" /\ ix = 0
  BY <1>1, <1>2, <1>4, TimesMonotone DEF CycleReadInv, ReadsPaid, CycleIsBounded, Passed
<1>5. CASE readPath = "iter" /\ ix # 0
  <2>1. tries <= retry + Passed * BlockRetries
    BY <1>5 DEF CycleReadInv, ReadsPaid
  <2>2. tries <= (Passed + 1) * BlockRetries
    BY <1>1, <1>2, <1>5, <2>1, OneRangeMore
  <2>3. (Passed + 1) * BlockRetries \in Nat
        /\ (Passed + 1) * BlockRetries <= RangeCount * BlockRetries
    BY <1>2, <1>5, TimesMonotone
  <2>4. RangeCount * BlockRetries \in Nat
    OBVIOUS
  <2> QED BY <1>1, <1>5, <2>2, <2>3, <2>4 DEF CycleIsBounded
<1> QED BY <1>1, <1>3, <1>4, <1>5

\* A cycle of reads ends after a bounded number of them, is reported complete
\* only with the registers of every range, and where a silent device counts as
\* disconnected no range is disabled for failures in an outage alone.
THEOREM RangesJudged == NoticesSilence => (RegisterReadsSpec => []RangesAreJudgedFairly)
<1> SUFFICES ASSUME NoticesSilence PROVE RegisterReadsSpec => []RangesAreJudgedFairly
  OBVIOUS
<1>1. CycleReadInv => RangesAreJudgedFairly
  <2> SUFFICES ASSUME CycleReadInv PROVE RangesAreJudgedFairly
    OBVIOUS
  <2>1. CompleteMeansAll
    BY DEF CycleReadInv, CompleteMeansAll, Behind, RegisterReadsTypeOK
  <2>2. OutagesAreForgiven
    BY DEF CycleReadInv, OutagesAreForgiven, Disabled, RegisterReadsTypeOK
  <2> QED BY <2>1, <2>2, BudgetHolds DEF RangesAreJudgedFairly
<1> QED BY CycleReadInit, CycleReadNext, <1>1, PTL DEF RegisterReadsSpec

\* Whether or not silence is noticed: what a cycle reports is true, and bounded.
THEOREM CyclesAreTrue == RegisterReadsSpec => [](CompleteMeansAll /\ CycleIsBounded)
<1>1. CycleReadInv => CompleteMeansAll /\ CycleIsBounded
  BY BudgetHolds DEF CycleReadInv, CompleteMeansAll, Behind, RegisterReadsTypeOK
<1> QED BY CycleReadInit, CycleReadNext, <1>1, PTL DEF RegisterReadsSpec

LEMMA EarnedStep ==
  ASSUME CycleReadInv, RegisterReadsNext, NEW r \in RangeIds, disabledFor'[r] > disabledFor[r]
  PROVE  failures'[r] >= MaxFailures /\ portOn' /\ ix = r /\ r \notin got'
<1> USE ReadsConstants DEF RegisterReadsTypeOK
<1>1. /\ disabledFor \in [RangeIds -> 0..DisableTime] /\ failures \in [RangeIds -> 0..MaxFailures]
      /\ ix \in 0..RangeCount
  BY DEF CycleReadInv
<1>2. disabledFor[r] \in Nat
  BY <1>1
<1>3. ReadFails
  <2>1. ~ConnectPort
    BY <1>2 DEF ConnectPort
  <2>2. ~ReadSucceeds
    BY <1>1, <1>2 DEF ReadSucceeds
  <2>3. \A o \in RangeIds : ~EnableRange(o)
    BY <1>1, <1>2 DEF EnableRange
  <2>4. ~ReadTimePasses
    BY <1>2 DEF ReadTimePasses
  <2>5. ~(BeginCycle \/ SkipRange \/ DeviceFails)
    BY <1>2 DEF BeginCycle, SkipRange, DeviceFails, trackers
  <2> QED BY <2>1, <2>2, <2>3, <2>4, <2>5 DEF RegisterReadsNext
<1>4. /\ portOn' /\ failures' = [failures EXCEPT ![ix] = Struck(@)]
      /\ disabledFor' = [disabledFor EXCEPT ![ix] =
                            IF failures[ix] + 1 >= MaxFailures THEN DisableTime ELSE @]
  BY <1>2, <1>3 DEF ReadFails, RecordFailure, trackers
<1>5. ix = r /\ failures[ix] + 1 >= MaxFailures
  BY <1>1, <1>2, <1>4
<1>6. failures'[r] >= MaxFailures
  BY <1>1, <1>4, <1>5 DEF Struck
<1>7. got' = got /\ got \subseteq 1..(ix - 1)
  BY <1>3 DEF ReadFails, CycleReadInv, Behind
<1> QED BY <1>1, <1>4, <1>5, <1>6, <1>7 DEF RangeIds

\* _record_register_read_failure() disables a range only in the read that fails
\* it for the max_failures_before_disable'th time since it was last read, of a
\* device thought to be connected, and never one read in the same cycle.
THEOREM DisablingIsEarned == RegisterReadsSpec => DisabledIsEarned
<1>1. CycleReadInv /\ [RegisterReadsNext]_readVars =>
        [\A r \in RangeIds : disabledFor'[r] > disabledFor[r] =>
            /\ failures'[r] >= MaxFailures /\ portOn' /\ ix = r /\ r \notin got']_readVars
  BY EarnedStep
<1> QED BY CycleReadInit, CycleReadNext, <1>1, PTL DEF RegisterReadsSpec, DisabledIsEarned

----------------------------------------------------------------------------
(* Influx bridges: sequences of readings, what they hold, and their order. *)

Ordered(s) == \A i, j \in DOMAIN s : i < j => s[i] < s[j]
Below(S, T) == \A x \in S, y \in T : x < y

LEMMA InfluxConstants ==
    /\ MaxReadings \in Nat /\ BatchSize \in Nat /\ MaxBacklog \in Nat /\ MaxBacklog >= 1
    /\ KeepsBacklog \in BOOLEAN /\ WaitsForWriters \in BOOLEAN /\ MayTear \in BOOLEAN
    /\ MaxServerOutages \in Nat /\ MaxInfluxCrashes \in Nat
  BY InfluxAssumption

LEMMA EmptyPart ==
    /\ <<>> \in Seq(Readings) /\ ToSet(<<>>) = {} /\ Ordered(<<>>) /\ Len(<<>>) = 0
  BY DEF ToSet, Ordered

LEMMA HeldEmpty ==
  ASSUME NEW s \in Seq(Readings)
  PROVE  /\ s = <<>> <=> ToSet(s) = {}
         /\ ToSet(s) \subseteq Readings
<1>1. \A i \in DOMAIN s : s[i] \in Readings
  OBVIOUS
<1>2. s = <<>> <=> DOMAIN s = {}
  OBVIOUS
<1> QED BY <1>1, <1>2 DEF ToSet

LEMMA JoinedParts ==
  ASSUME NEW s \in Seq(Readings), NEW t \in Seq(Readings)
  PROVE  /\ s \o t \in Seq(Readings) /\ ToSet(s \o t) = ToSet(s) \cup ToSet(t)
         /\ Ordered(s) /\ Ordered(t) /\ Below(ToSet(s), ToSet(t)) => Ordered(s \o t)
<1> DEFINE a == s \o t
<1>1. \A i \in DOMAIN a :
        \/ i \in DOMAIN s /\ a[i] = s[i]
        \/ i \in Nat /\ i > Len(s) /\ i - Len(s) \in DOMAIN t /\ a[i] = t[i - Len(s)]
  OBVIOUS
<1>2. /\ Len(s) \in Nat /\ \A i \in DOMAIN s : i \in DOMAIN a /\ a[i] = s[i] /\ i \in Nat /\ i <= Len(s)
      /\ \A j \in DOMAIN t : j \in Nat /\ j + Len(s) \in DOMAIN a /\ a[j + Len(s)] = t[j]
  OBVIOUS
<1>3. a \in Seq(Readings)
  OBVIOUS
<1> HIDE DEF a
<1>4. ToSet(a) \subseteq ToSet(s) \cup ToSet(t)
  BY <1>1 DEF ToSet
<1>5. ToSet(s) \cup ToSet(t) \subseteq ToSet(a)
  BY <1>2 DEF ToSet
<1>6. ASSUME Ordered(s), Ordered(t), Below(ToSet(s), ToSet(t)), NEW i \in DOMAIN a, NEW j \in DOMAIN a, i < j
      PROVE  a[i] < a[j]
  <2>1. CASE i \in DOMAIN s /\ a[i] = s[i] /\ j \in DOMAIN s /\ a[j] = s[j]
    BY <1>6, <2>1 DEF Ordered
  <2>2. CASE i \in DOMAIN s /\ a[i] = s[i] /\ j - Len(s) \in DOMAIN t /\ a[j] = t[j - Len(s)]
    <3>1. s[i] \in ToSet(s) /\ t[j - Len(s)] \in ToSet(t)
      BY <2>2 DEF ToSet
    <3> QED BY <1>6, <2>2, <3>1 DEF Below
  <2>3. CASE /\ i \in Nat /\ i > Len(s) /\ i - Len(s) \in DOMAIN t /\ a[i] = t[i - Len(s)]
             /\ j \in Nat /\ j > Len(s) /\ j - Len(s) \in DOMAIN t /\ a[j] = t[j - Len(s)]
    <3>1. i - Len(s) < j - Len(s)
      BY <1>2, <1>6, <2>3
    <3> QED BY <1>6, <2>3, <3>1 DEF Ordered
  <2>4. CASE i \in Nat /\ i > Len(s) /\ j \in DOMAIN s
    BY <1>2, <1>6, <2>4
  <2> QED BY <1>1, <2>1, <2>2, <2>3, <2>4
<1> QED BY <1>3, <1>4, <1>5, <1>6 DEF Ordered, a

\* What is left of a sequence without its first k items.
LEMMA RestOf ==
  ASSUME NEW s \in Seq(Readings), NEW k \in 0..Len(s)
  PROVE  /\ SubSeq(s, k + 1, Len(s)) \in Seq(Readings) /\ Len(SubSeq(s, k + 1, Len(s))) = Len(s) - k
         /\ SubSeq(s, 1, k) \in Seq(Readings)
         /\ ToSet(s) = ToSet(SubSeq(s, 1, k)) \cup ToSet(SubSeq(s, k + 1, Len(s)))
         /\ Ordered(s) => Ordered(SubSeq(s, k + 1, Len(s)))
<1> DEFINE r == SubSeq(s, k + 1, Len(s))
           f == SubSeq(s, 1, k)
<1>1. /\ r \in Seq(Readings) /\ Len(r) = Len(s) - k /\ f \in Seq(Readings) /\ Len(f) = k
      /\ \A i \in 1..(Len(s) - k) : r[i] = s[i + k]
      /\ \A i \in 1..k : f[i] = s[i]
  OBVIOUS
<1>2. DOMAIN r = 1..(Len(s) - k) /\ DOMAIN f = 1..k /\ DOMAIN s = 1..Len(s)
  BY <1>1
<1> HIDE DEF r, f
<1>3. ToSet(f) \cup ToSet(r) \subseteq ToSet(s)
  <2>1. \A i \in DOMAIN r : i + k \in DOMAIN s
    BY <1>2
  <2>2. \A i \in DOMAIN f : i \in DOMAIN s
    BY <1>2
  <2> QED BY <1>1, <1>2, <2>1, <2>2 DEF ToSet
<1>4. ToSet(s) \subseteq ToSet(f) \cup ToSet(r)
  <2> SUFFICES ASSUME NEW i \in DOMAIN s PROVE s[i] \in ToSet(f) \cup ToSet(r)
    BY DEF ToSet
  <2>1. CASE i <= k
    BY <1>1, <1>2, <2>1 DEF ToSet
  <2>2. CASE i > k
    <3>1. i - k \in DOMAIN r /\ r[i - k] = s[i]
      BY <1>1, <1>2, <2>2
    <3> QED BY <3>1 DEF ToSet
  <2> QED BY <1>2, <2>1, <2>2
<1>5. ASSUME Ordered(s) PROVE Ordered(r)
  <2> SUFFICES ASSUME NEW i \in DOMAIN r, NEW j \in DOMAIN r, i < j PROVE r[i] < r[j]
    BY DEF Ordered
  <2>1. i + k \in DOMAIN s /\ j + k \in DOMAIN s /\ i + k < j + k
    BY <1>2
  <2>2. s[i + k] < s[j + k]
    BY <1>5, <2>1 DEF Ordered
  <2> QED BY <1>1, <1>2, <2>2
<1> QED BY <1>1, <1>3, <1>4, <1>5 DEF r, f

LEMMA TrimKeeps ==
  ASSUME NEW s \in Seq(Readings)
  PROVE  /\ Trimmed(s) \in Seq(Readings) /\ Len(Trimmed(s)) <= MaxBacklog
         /\ ToSet(Trimmed(s)) \subseteq ToSet(s)
         /\ Ordered(s) => Ordered(Trimmed(s))
         /\ Len(s) <= MaxBacklog => Trimmed(s) = s
<1>1. CASE Len(s) <= MaxBacklog
  BY <1>1 DEF Trimmed
<1>2. CASE Len(s) > MaxBacklog
  <2>1. Len(s) - MaxBacklog \in 0..Len(s)
    BY <1>2, InfluxConstants
  <2> DEFINE r == SubSeq(s, Len(s) - MaxBacklog + 1, Len(s))
  <2>2. Trimmed(s) = r
    BY <1>2, InfluxConstants DEF Trimmed
  <2>3. /\ r \in Seq(Readings) /\ Len(r) = Len(s) - (Len(s) - MaxBacklog)
        /\ ToSet(r) \subseteq ToSet(s) /\ (Ordered(s) => Ordered(r))
    BY <2>1, RestOf
  <2>4. Len(r) <= MaxBacklog /\ ~(Len(s) <= MaxBacklog)
    BY <1>2, <2>3, InfluxConstants
  <2> QED BY <2>2, <2>3, <2>4
<1> QED BY <1>1, <1>2, InfluxConstants

\* _add_points_to_backlog(): what it is given is kept, or given up.
LEMMA KeepFacts ==
  ASSUME NEW points \in Seq(Readings), backlog \in Seq(Readings), Len(backlog) <= MaxBacklog,
         Keep(points)
  PROVE  /\ backlog' \in Seq(Readings) /\ Len(backlog') <= MaxBacklog
         /\ file' \in {file, backlog'}
         /\ ToSet(backlog') \subseteq ToSet(backlog) \cup ToSet(points)
         /\ givenUp \subseteq givenUp'
         /\ givenUp' \subseteq givenUp \cup ToSet(backlog) \cup ToSet(points)
         /\ (ToSet(backlog) \cup ToSet(points)) \ ToSet(backlog') \subseteq givenUp'
         /\ Ordered(backlog) /\ Ordered(points) /\ Below(ToSet(backlog), ToSet(points))
               => Ordered(backlog')
         /\ file = backlog => file' = backlog'
         /\ ~KeepsBacklog => file' = file
<1> DEFINE a == backlog \o points
<1>1. CASE KeepsBacklog
  <2>1. /\ a \in Seq(Readings) /\ ToSet(a) = ToSet(backlog) \cup ToSet(points)
        /\ Ordered(backlog) /\ Ordered(points) /\ Below(ToSet(backlog), ToSet(points)) => Ordered(a)
    BY JoinedParts
  <2>2. points = <<>> => a = backlog
    OBVIOUS
  <2>3. /\ backlog' = Trimmed(a) /\ givenUp' = givenUp \cup (ToSet(a) \ ToSet(backlog'))
        /\ file' = IF points = <<>> THEN file ELSE backlog'
    BY <1>1 DEF Keep, Save
  <2> HIDE DEF a
  <2>4. /\ Trimmed(a) \in Seq(Readings) /\ Len(Trimmed(a)) <= MaxBacklog
        /\ ToSet(Trimmed(a)) \subseteq ToSet(a) /\ (Ordered(a) => Ordered(Trimmed(a)))
        /\ (Len(a) <= MaxBacklog => Trimmed(a) = a)
    BY <2>1, TrimKeeps
  <2>5. points = <<>> => backlog' = backlog
    BY <2>2, <2>3, <2>4
  <2> QED BY <1>1, <2>1, <2>3, <2>4, <2>5
<1>2. CASE ~KeepsBacklog
  BY <1>2 DEF Keep
<1> QED BY <1>1, <1>2

\* _load_backlog(): what the file holds is read, or given up as expired.
LEMMA LoadFacts ==
  ASSUME file \in Seq(Readings) \cup {Torn}, Len(file) <= MaxBacklog, LoadBacklog
  PROVE  /\ backlog' \in Seq(Readings) /\ Len(backlog') <= MaxBacklog
         /\ file' \in {file, backlog'}
         /\ givenUp \subseteq givenUp' /\ (givenUp' = givenUp \/ givenUp' \subseteq givenUp \cup ToSet(file))
         /\ file \in Seq(Readings) =>
               /\ ToSet(file') \subseteq ToSet(file)
               /\ ToSet(file) \ ToSet(file') \subseteq givenUp'
               /\ Ordered(file) => Ordered(file')
               /\ KeepsBacklog \/ file = <<>> => backlog' = file'
               /\ ~KeepsBacklog => file' = file
<1>1. CASE ~KeepsBacklog \/ file = Torn
  <2>1. backlog' = <<>> /\ UNCHANGED <<file, givenUp>>
    BY <1>1 DEF LoadBacklog
  <2>2. file \in Seq(Readings) => file # Torn
    <3>1. << 0 >> \notin Seq(Readings)
      <4> SUFFICES ASSUME << 0 >> \in Seq(Readings) PROVE FALSE
        OBVIOUS
      <4>1. << 0 >>[1] \in Readings
        OBVIOUS
      <4> QED BY <4>1 DEF Readings
    <3> QED BY <3>1 DEF Torn
  <2> QED BY <1>1, <2>1, <2>2, EmptyPart, InfluxConstants
<1>2. CASE KeepsBacklog /\ file # Torn
  <2>1. file \in Seq(Readings)
    BY <1>2
  <2>2. PICK k \in 0..Len(file) :
           /\ backlog' = SubSeq(file, k + 1, Len(file))
           /\ givenUp' = givenUp \cup ToSet(SubSeq(file, 1, k))
           /\ file' = backlog'
    BY <1>2 DEF LoadBacklog, Save
  <2>3. /\ backlog' \in Seq(Readings) /\ Len(backlog') = Len(file) - k
        /\ ToSet(file) = ToSet(SubSeq(file, 1, k)) \cup ToSet(backlog')
        /\ Ordered(file) => Ordered(backlog')
    BY <2>1, <2>2, RestOf
  <2>4. Len(backlog') <= MaxBacklog
    BY <2>1, <2>3, InfluxConstants
  <2> QED BY <1>2, <2>1, <2>2, <2>3, <2>4
<1> QED BY <1>1, <1>2
----------------------------------------------------------------------------
(* Influx bridges: types. *)

DataTypes ==
    /\ batch \in Seq(Readings) /\ backlog \in Seq(Readings) /\ pending \in Seq(Readings)
    /\ file \in Seq(Readings) \cup {Torn}
    /\ Len(backlog) <= MaxBacklog /\ Len(file) <= MaxBacklog
    /\ held \in [InfluxWriters -> Seq(Readings)] /\ snap \in [InfluxWriters -> Seq(Readings)]
    /\ inInflux \subseteq Readings /\ givenUp \subseteq Readings

Places == {"idle", "check", "dial", "snap", "send", "clear", "append",
           "take", "write", "rewrite", "keep", "giveup", "store", "drain", "stow"}
Callers == {"connect", "route", "flush", "retry"}

PlaceTypes ==
    /\ at \in [InfluxWriters -> Places] /\ caller \in [InfluxWriters -> Callers]
    /\ reading \in [InfluxWriters -> 0..MaxReadings] /\ captured \in 0..MaxReadings

FlagTypes ==
    /\ setup \in InfluxSetups /\ open \in {"none", "built", "open", "closing", "closed"}
    /\ influxOn \in BOOLEAN /\ client \in BOOLEAN /\ recent \in BOOLEAN
    /\ server \in BOOLEAN /\ database \in BOOLEAN
    /\ influxFaults \in [{"outage", "crash"} -> Nat]

LEMMA InfluxTypeParts == InfluxTypeOK <=> DataTypes /\ PlaceTypes /\ FlagTypes
  BY DEF InfluxTypeOK, DataTypes, PlaceTypes, FlagTypes, Places, Callers

LEMMA InfluxTypePartsNext == DataTypes' /\ PlaceTypes' /\ FlagTypes' => InfluxTypeOK'
  BY DEF InfluxTypeOK, DataTypes, PlaceTypes, FlagTypes, Places, Callers

LEMMA InfluxTypeInit == InfluxInit => InfluxTypeOK
<1> SUFFICES ASSUME InfluxInit PROVE DataTypes /\ PlaceTypes /\ FlagTypes
  BY InfluxTypeParts
<1> USE InfluxConstants, EmptyPart DEF InfluxInit
<1>1. DataTypes
  BY DEF DataTypes
<1>2. PlaceTypes
  BY DEF PlaceTypes, Places, Callers
<1>3. FlagTypes
  BY DEF FlagTypes
<1> QED BY <1>1, <1>2, <1>3

LEMMA FollowedPart ==
  ASSUME PlaceTypes, NEW w \in InfluxWriters
  PROVE  /\ Followed(w) \in Seq(Readings) /\ Ordered(Followed(w))
         /\ ToSet(Followed(w)) = (IF reading[w] = 0 THEN {} ELSE {reading[w]})
<1>1. CASE reading[w] = 0
  BY <1>1, EmptyPart DEF Followed
<1>2. CASE reading[w] # 0
  <2>1. reading[w] \in Readings
    BY <1>2, InfluxConstants DEF PlaceTypes, Readings
  <2>2. Followed(w) = <<reading[w]>>
    BY <1>2 DEF Followed
  <2>3. /\ <<reading[w]>> \in Seq(Readings) /\ DOMAIN <<reading[w]>> = {1}
        /\ <<reading[w]>>[1] = reading[w]
    BY <2>1
  <2> QED BY <1>2, <2>2, <2>3 DEF ToSet, Ordered
<1> QED BY <1>1, <1>2

LEMMA ReturnPlaces ==
  ASSUME PlaceTypes, NEW w \in InfluxWriters, NEW answer \in BOOLEAN, Return(w, answer)
  PROVE  at' \in [InfluxWriters -> Places]
  BY DEF PlaceTypes, Return, Goto, Resume, Places, Callers

LEMMA KeepTypes ==
  ASSUME DataTypes, NEW points \in Seq(Readings), Keep(points)
  PROVE  /\ backlog' \in Seq(Readings) /\ file' \in Seq(Readings) \cup {Torn}
         /\ Len(backlog') <= MaxBacklog /\ Len(file') <= MaxBacklog /\ givenUp' \subseteq Readings
<1>1. backlog \in Seq(Readings) /\ Len(backlog) <= MaxBacklog
  BY DEF DataTypes
<1>2. /\ backlog' \in Seq(Readings) /\ Len(backlog') <= MaxBacklog /\ file' \in {file, backlog'}
      /\ givenUp' \subseteq givenUp \cup ToSet(backlog) \cup ToSet(points)
  BY <1>1, KeepFacts
<1>3. ToSet(backlog) \subseteq Readings /\ ToSet(points) \subseteq Readings
  BY <1>1, HeldEmpty
<1> QED BY <1>2, <1>3 DEF DataTypes

LEMMA InfluxTypeReconnecting ==
  ASSUME InfluxTypeOK, NEW w \in InfluxWriters, Reconnecting(w)
  PROVE  DataTypes' /\ PlaceTypes' /\ FlagTypes'
<1> USE InfluxTypeParts DEF memory, outside
<1>1. UNCHANGED <<reading, captured, caller>>
  BY DEF Reconnecting, CheckThrottled, CheckPings, DialSucceeds, DialFails, SnapBacklog,
         SendBacklog, ClearBacklog
<1>2. at' \in [InfluxWriters -> Places]
  <2>1. (\E answer \in BOOLEAN : Return(w, answer)) \/ \E p \in Places : Goto(w, p)
    <3>1. CASE CheckThrottled(w)
      BY <3>1 DEF CheckThrottled, FlagTypes
    <3>2. CASE Reconnecting(w) /\ ~CheckThrottled(w)
      BY <3>2 DEF Reconnecting, CheckPings, DialSucceeds, DialFails, SnapBacklog, SendBacklog,
                  ClearBacklog, Places
    <3> QED BY <3>1, <3>2
  <2>2. \A p \in Places : Goto(w, p) => at' \in [InfluxWriters -> Places]
    BY DEF Goto, PlaceTypes
  <2> QED BY <2>1, <2>2, ReturnPlaces
<1>3. PlaceTypes'
  BY <1>1, <1>2 DEF PlaceTypes
<1>4. DataTypes' /\ FlagTypes'
  <2>1. CASE CheckThrottled(w) \/ CheckPings(w) \/ DialSucceeds(w) \/ DialFails(w)
    BY <2>1 DEF CheckThrottled, CheckPings, DialSucceeds, DialFails, DataTypes, FlagTypes
  <2>2. CASE SnapBacklog(w)
    BY <2>2 DEF SnapBacklog, DataTypes, FlagTypes
  <2>3. CASE SendBacklog(w)
    <3>1. ToSet(snap[w]) \subseteq Readings
      BY HeldEmpty DEF DataTypes
    <3> QED BY <2>3, <3>1 DEF SendBacklog, DataTypes, FlagTypes
  <2>4. CASE ClearBacklog(w)
    <3>1. file' \in {file, <<>>} /\ backlog' = <<>>
      BY <2>4 DEF ClearBacklog, Save
    <3>2. /\ snap' = [snap EXCEPT ![w] = <<>>]
          /\ UNCHANGED <<batch, pending, held, inInflux, givenUp>>
      BY <2>4 DEF ClearBacklog
    <3>3. DataTypes'
      <4>1. file' \in Seq(Readings) \cup {Torn} /\ Len(file') <= MaxBacklog
        <5>1. CASE file' = file
          BY <5>1 DEF DataTypes
        <5>2. CASE file' = <<>>
          BY <5>2, EmptyPart, InfluxConstants
        <5> QED BY <3>1, <5>1, <5>2
      <4>2. backlog' \in Seq(Readings) /\ Len(backlog') <= MaxBacklog
        BY <3>1, EmptyPart, InfluxConstants
      <4>3. snap' \in [InfluxWriters -> Seq(Readings)]
        BY <3>2, EmptyPart DEF DataTypes
      <4> QED BY <3>2, <4>1, <4>2, <4>3 DEF DataTypes
    <3>4. FlagTypes'
      BY <2>4 DEF ClearBacklog, FlagTypes
    <3> QED BY <3>3, <3>4
  <2> QED BY <2>1, <2>2, <2>3, <2>4 DEF Reconnecting
<1> QED BY <1>3, <1>4

LEMMA InfluxTypeWriting ==
  ASSUME InfluxTypeOK, NEW w \in InfluxWriters, Writing(w)
  PROVE  DataTypes' /\ PlaceTypes' /\ FlagTypes'
<1> USE InfluxTypeParts DEF memory, outside
<1>1. UNCHANGED captured /\ \E p \in Places : Goto(w, p)
  BY DEF Writing, AppendPoint, TakeBatch, WriteBatch, RewriteBatch, KeepBatch, StorePoint,
         DrainBatch, StowPoint, Places
<1>2. reading' \in {reading, [reading EXCEPT ![w] = 0]}
  BY DEF Writing, AppendPoint, TakeBatch, WriteBatch, RewriteBatch, KeepBatch, StorePoint,
         DrainBatch, StowPoint
<1>3. \E c \in Callers : caller' \in {caller, [caller EXCEPT ![w] = c]}
  BY DEF Writing, AppendPoint, TakeBatch, WriteBatch, RewriteBatch, KeepBatch, StorePoint,
         DrainBatch, StowPoint, Callers
<1>4. PlaceTypes'
  BY <1>1, <1>2, <1>3, InfluxConstants DEF PlaceTypes, Goto
<1>5. held[w] \in Seq(Readings) /\ ToSet(held[w]) \subseteq Readings
  BY HeldEmpty DEF DataTypes
<1>6. Followed(w) \in Seq(Readings) /\ ToSet(Followed(w)) \subseteq Readings
  BY FollowedPart, HeldEmpty
<1>7. DataTypes' /\ FlagTypes'
  <2>1. CASE AppendPoint(w)
    <3>1. batch' \in Seq(Readings)
      BY <1>6, <2>1, JoinedParts DEF AppendPoint, DataTypes
    <3> QED BY <2>1, <3>1 DEF AppendPoint, DataTypes, FlagTypes
  <2>2. CASE TakeBatch(w)
    BY <2>2, EmptyPart DEF TakeBatch, DataTypes, FlagTypes
  <2>3. CASE WriteBatch(w) \/ RewriteBatch(w)
    <3>1. /\ held' \in {held, [held EXCEPT ![w] = <<>>]}
          /\ inInflux' \in {inInflux, inInflux \cup ToSet(held[w])}
      BY <2>3 DEF WriteBatch, RewriteBatch
    <3>2. DataTypes'
      BY <1>5, <2>3, <3>1, EmptyPart DEF WriteBatch, RewriteBatch, DataTypes
    <3>3. FlagTypes'
      BY <2>3 DEF WriteBatch, RewriteBatch, FlagTypes
    <3> QED BY <3>2, <3>3
  <2>4. CASE KeepBatch(w) \/ DrainBatch(w)
    <3>1. Keep(held[w]) /\ held' = [held EXCEPT ![w] = <<>>]
          /\ UNCHANGED <<batch, pending, snap, inInflux>>
      BY <2>4 DEF KeepBatch, DrainBatch
    <3>2. DataTypes'
      BY <1>5, <3>1, KeepTypes, EmptyPart DEF DataTypes
    <3>3. FlagTypes'
      BY <2>4 DEF KeepBatch, DrainBatch, FlagTypes
    <3> QED BY <3>2, <3>3
  <2>5. CASE StorePoint(w)
    <3>1. givenUp' \subseteq givenUp \cup ToSet(Followed(w))
      BY <2>5 DEF StorePoint
    <3> QED BY <1>6, <2>5, <3>1, EmptyPart DEF StorePoint, DataTypes, FlagTypes
  <2>6. CASE StowPoint(w)
    <3>1. Keep(Followed(w)) /\ UNCHANGED <<batch, pending, held, snap, inInflux>>
      BY <2>6 DEF StowPoint
    <3>2. DataTypes'
      BY <1>6, <3>1, KeepTypes DEF DataTypes
    <3> QED BY <2>6, <3>2 DEF StowPoint, FlagTypes
  <2> QED BY <2>1, <2>2, <2>3, <2>4, <2>5, <2>6 DEF Writing
<1> QED BY <1>4, <1>7

LEMMA InfluxTypeNext == InfluxTypeOK /\ [InfluxNext]_influxVars => InfluxTypeOK'
<1> SUFFICES ASSUME InfluxTypeOK, [InfluxNext]_influxVars
             PROVE  DataTypes' /\ PlaceTypes' /\ FlagTypes'
  BY InfluxTypePartsNext
<1> USE InfluxTypeParts DEF memory, writers, outside
<1>1. CASE BuildInflux
  <2>1. LoadBacklog /\ file \in Seq(Readings) \cup {Torn} /\ Len(file) <= MaxBacklog
    BY <1>1 DEF BuildInflux, DataTypes
  <2>2. /\ backlog' \in Seq(Readings) /\ Len(backlog') <= MaxBacklog /\ file' \in {file, backlog'}
        /\ (givenUp' = givenUp \/ givenUp' \subseteq givenUp \cup ToSet(file))
    BY <2>1, LoadFacts
  <2>3. givenUp' \subseteq Readings
    <3>1. CASE file \in Seq(Readings)
      BY <2>2, <3>1, HeldEmpty DEF DataTypes
    <3>2. CASE file = Torn
      BY <1>1, <3>2 DEF BuildInflux, LoadBacklog, DataTypes
    <3> QED BY <2>1, <3>1, <3>2
  <2>4. DataTypes'
    BY <1>1, <2>2, <2>3, EmptyPart DEF BuildInflux, DataTypes
  <2> QED BY <1>1, <2>4 DEF BuildInflux, PlaceTypes, FlagTypes
<1>2. CASE CloseInflux
  BY <1>2, EmptyPart DEF CloseInflux, DataTypes, PlaceTypes, FlagTypes
<1>3. CASE FinishClose
  <2>1. DataTypes'
    <3>1. pending \in Seq(Readings) /\ ToSet(pending) \subseteq Readings
      BY HeldEmpty DEF DataTypes
    <3>2. \/ Keep(pending) /\ UNCHANGED inInflux
          \/ inInflux' = inInflux \cup ToSet(pending) /\ UNCHANGED <<backlog, file, givenUp>>
      BY <1>3 DEF FinishClose
    <3>3. pending' = <<>> /\ UNCHANGED <<batch, held, snap>>
      BY <1>3 DEF FinishClose
    <3> QED BY <3>1, <3>2, <3>3, KeepTypes, EmptyPart DEF DataTypes
  <2> QED BY <1>3, <2>1 DEF FinishClose, PlaceTypes, FlagTypes
<1>4. CASE InfluxCrash
  <2>1. Len(Torn) = 1
    BY DEF Torn
  <2>2. DataTypes'
    <3>1. file' \in {file, Torn} /\ UNCHANGED <<inInflux, givenUp>>
      BY <1>4 DEF InfluxCrash
    <3>2. file' \in Seq(Readings) \cup {Torn} /\ Len(file') <= MaxBacklog
      BY <2>1, <3>1, InfluxConstants DEF DataTypes
    <3>3. batch' = <<>> /\ backlog' = <<>> /\ pending' = <<>>
          /\ held' = [w \in InfluxWriters |-> <<>>] /\ snap' = [w \in InfluxWriters |-> <<>>]
      BY <1>4 DEF InfluxCrash
    <3> QED BY <3>1, <3>2, <3>3, EmptyPart, InfluxConstants DEF DataTypes
  <2>3. PlaceTypes'
    BY <1>4, InfluxConstants DEF InfluxCrash, PlaceTypes, Places, Callers
  <2>4. influxFaults' \in [{"outage", "crash"} -> Nat]
    BY <1>4 DEF InfluxCrash, FlagTypes
  <2>5. /\ open' = "none" /\ influxOn' = FALSE /\ client' = FALSE /\ recent' = FALSE
        /\ UNCHANGED <<setup, server, database>>
    BY <1>4 DEF InfluxCrash
  <2>6. FlagTypes'
    BY <2>4, <2>5 DEF FlagTypes
  <2> QED BY <2>2, <2>3, <2>6
<1>5. CASE ServerFails \/ ServerReturns \/ IntervalPasses
  <2>1. DataTypes' /\ PlaceTypes'
    BY <1>5 DEF ServerFails, ServerReturns, IntervalPasses, DataTypes, PlaceTypes
  <2>2. CASE ServerFails
    <3>1. influxFaults' \in [{"outage", "crash"} -> Nat]
      BY <2>2 DEF ServerFails, FlagTypes
    <3> QED BY <2>1, <2>2, <3>1 DEF ServerFails, FlagTypes
  <2>3. CASE ServerReturns \/ IntervalPasses
    BY <2>1, <2>3 DEF ServerReturns, IntervalPasses, FlagTypes
  <2> QED BY <1>5, <2>2, <2>3
<1>6. ASSUME NEW w \in InfluxWriters, ConnectV1(w) \/ ConnectV3(w)
      PROVE  DataTypes' /\ PlaceTypes' /\ FlagTypes'
  BY <1>6 DEF ConnectV1, ConnectV3, ConnectEnds, Goto, DataTypes, PlaceTypes, FlagTypes,
              Places, Callers
<1>7. ASSUME NEW w \in InfluxWriters, OfferNext(w) \/ OfferOther(w)
      PROVE  DataTypes' /\ PlaceTypes' /\ FlagTypes'
  <2>1. DataTypes' /\ FlagTypes'
    BY <1>7 DEF OfferNext, OfferOther, Offer, DataTypes, FlagTypes
  <2>2. captured' \in 0..MaxReadings /\ \E n \in 0..MaxReadings : reading' = [reading EXCEPT ![w] = n]
    BY <1>7, InfluxConstants DEF OfferNext, OfferOther, Offer, PlaceTypes
  <2>3. at' = [at EXCEPT ![w] = "check"] /\ caller' = [caller EXCEPT ![w] = "route"]
    BY <1>7 DEF OfferNext, OfferOther, Offer, Goto
  <2>4. PlaceTypes'
    BY <2>2, <2>3 DEF PlaceTypes, Places, Callers
  <2> QED BY <2>1, <2>4
<1>8. CASE UNCHANGED influxVars
  BY <1>8 DEF influxVars, DataTypes, PlaceTypes, FlagTypes
<1> QED BY <1>1, <1>2, <1>3, <1>4, <1>5, <1>6, <1>7, <1>8, InfluxTypeReconnecting, InfluxTypeWriting
        DEF InfluxNext

\* The influx bridges are well typed in every reachable state, with any number
\* of writers and a crash half way through a save: _add_points_to_backlog() and
\* _load_backlog() never hold more than max_backlog_size readings.
THEOREM InfluxTypeCorrect == InfluxSpec => []InfluxTypeOK
  BY InfluxTypeInit, InfluxTypeNext, PTL DEF InfluxSpec
----------------------------------------------------------------------------
(* With one writer, a close that waits for it and no torn file, a reading is *)
(* in one place at a time: which places may hold one depends on where the    *)
(* writer is, and the file mirrors the backlog as long as the bridge lives.  *)

OneWriter == \A v, w \in InfluxWriters : v = w

Calls == {"check", "dial", "snap", "send", "clear"}

\* What write_data() was called with, while it is still to be placed.
Asked(w) == IF reading[w] = 0 THEN {} ELSE {reading[w]}

PlaceOf(w) ==
    /\ reading[w] # 0 => \/ at[w] \in {"append", "store", "drain", "stow"}
                         \/ at[w] \in Calls /\ caller[w] = "route"
    /\ held[w] # <<>> => \/ at[w] \in {"write", "rewrite", "keep", "giveup", "drain"}
                         \/ at[w] \in Calls /\ caller[w] \in {"flush", "retry"}
    /\ at[w] \in {"drain", "stow"} => batch = <<>>
    /\ at[w] \in {"send", "clear"} => snap[w] = backlog
    /\ at[w] = "clear" => ToSet(backlog) \subseteq inInflux

PlaceInv ==
    /\ open # "open" => AllIdle /\ batch = <<>>
    /\ open # "closing" => pending = <<>>
    /\ open = "open" => client
    /\ \A w \in InfluxWriters : PlaceOf(w)

OrderOf(w) ==
    /\ Ordered(held[w])
    /\ Below(ToSet(backlog), ToSet(held[w]) \cup Asked(w))
    /\ Below(ToSet(held[w]), ToSet(batch) \cup Asked(w))
    /\ Below(ToSet(batch), Asked(w))

OrderInv ==
    /\ Ordered(backlog) /\ Ordered(batch) /\ Ordered(pending)
    /\ Below(ToSet(backlog), ToSet(batch) \cup ToSet(pending))
    /\ \A w \in InfluxWriters : OrderOf(w)

FileInv ==
    /\ file \in Seq(Readings) /\ Ordered(file)
    /\ (open = "none" => backlog = <<>>) /\ (open # "none" => file = backlog)
    /\ ~KeepsBacklog => file = <<>>

InMemory == ToSet(batch) \cup ToSet(backlog) \cup ToSet(pending) \cup InHands
Here == InMemory \cup ToSet(file)

KnownInv == Here \cup inInflux \cup givenUp \subseteq 1..captured

StoreInv == InfluxTypeOK /\ PlaceInv /\ OrderInv /\ FileInv /\ KnownInv

\* What a step does with the readings it finds.
Flow ==
    /\ inInflux \subseteq inInflux' /\ inInflux' \subseteq inInflux \cup Here
    /\ givenUp \subseteq givenUp' /\ givenUp' \subseteq givenUp \cup Here
    /\ \/ captured' = captured /\ Here' \subseteq Here
       \/ /\ captured' = captured + 1 /\ InMemory' = InMemory \cup {captured + 1}
          /\ UNCHANGED <<file, inInflux, givenUp>>
    /\ ToSet(file) \ ToSet(file') \subseteq inInflux' \cup (givenUp' \ InMemory')
    /\ influxFaults["crash"] = influxFaults'["crash"] => Here \subseteq Here' \cup inInflux' \cup givenUp'

LEMMA StoreInit == InfluxInit => StoreInv
<1> SUFFICES ASSUME InfluxInit PROVE StoreInv
  OBVIOUS
<1> USE DEF InfluxInit
<1>1. PlaceInv
  BY DEF PlaceInv, PlaceOf, AllIdle
<1>2. OrderInv
  BY EmptyPart DEF OrderInv, OrderOf, Below, Asked
<1>3. FileInv
  BY EmptyPart DEF FileInv
<1>4. InHands = {}
  <2>1. \A w \in InfluxWriters : held[w] = <<>> /\ Followed(w) = <<>>
    BY DEF Followed
  <2> QED BY <2>1, EmptyPart DEF InHands
<1>5. KnownInv
  BY <1>4, EmptyPart DEF KnownInv, Here, InMemory
<1> QED BY <1>1, <1>2, <1>3, <1>5, InfluxTypeInit DEF StoreInv

LEMMA MemoryAt ==
  ASSUME PlaceTypes, OneWriter, NEW w \in InfluxWriters
  PROVE  InMemory = ToSet(batch) \cup ToSet(backlog) \cup ToSet(pending) \cup ToSet(held[w]) \cup Asked(w)
<1>1. ToSet(Followed(w)) = Asked(w)
  BY FollowedPart DEF Asked
<1>2. InHands = ToSet(held[w]) \cup ToSet(Followed(w))
  BY DEF InHands, OneWriter
<1> QED BY <1>1, <1>2 DEF InMemory

LEMMA FollowedNext ==
  ASSUME NEW w \in InfluxWriters
  PROVE  ToSet(Followed(w))' = Asked(w)'
<1>1. CASE reading'[w] = 0
  BY <1>1, EmptyPart DEF Followed, Asked
<1>2. CASE reading'[w] # 0
  <2>1. Followed(w)' = <<reading'[w]>> /\ Asked(w)' = {reading'[w]}
    BY <1>2 DEF Followed, Asked
  <2>2. ToSet(<<reading'[w]>>) = {reading'[w]}
    BY DEF ToSet
  <2>3. ToSet(Followed(w))' = ToSet(Followed(w)')
    BY DEF ToSet
  <2> QED BY <2>1, <2>2, <2>3
<1> QED BY <1>1, <1>2

LEMMA MemoryNextAt ==
  ASSUME OneWriter, NEW w \in InfluxWriters
  PROVE  InMemory' = ToSet(batch') \cup ToSet(backlog') \cup ToSet(pending') \cup ToSet(held'[w]) \cup Asked(w)'
<1>1. InHands' = ToSet(held'[w]) \cup ToSet(Followed(w))'
  BY DEF InHands, OneWriter, ToSet
<1> QED BY <1>1, FollowedNext DEF InMemory, ToSet

\* Between calls a writer holds nothing.
LEMMA IdleHands ==
  ASSUME InfluxTypeOK, PlaceInv, AllIdle
  PROVE  /\ InHands = {}
         /\ \A w \in InfluxWriters : held[w] = <<>> /\ reading[w] = 0 /\ Asked(w) = {}
<1>1. \A w \in InfluxWriters : held[w] = <<>> /\ reading[w] = 0
  BY DEF PlaceInv, PlaceOf, AllIdle, Calls
<1>2. \A w \in InfluxWriters : ToSet(held[w]) = {} /\ ToSet(Followed(w)) = {}
  BY <1>1, EmptyPart DEF Followed
<1> QED BY <1>1, <1>2 DEF InHands, Asked

LEMMA KnownNext ==
  ASSUME InfluxTypeOK, KnownInv, Flow
  PROVE  KnownInv'
<1>1. captured \in Nat
  BY InfluxConstants, InfluxTypeParts DEF PlaceTypes
<1>2. 1..captured \subseteq 1..(captured + 1) /\ captured + 1 \in 1..(captured + 1)
  BY <1>1
<1>3. CASE captured' = captured /\ Here' \subseteq Here
  BY <1>3 DEF KnownInv, Flow
<1>4. CASE /\ captured' = captured + 1 /\ InMemory' = InMemory \cup {captured + 1}
           /\ UNCHANGED <<file, inInflux, givenUp>>
  <2>1. Here' = InMemory' \cup ToSet(file)
    BY <1>4 DEF Here, ToSet
  <2> QED BY <1>2, <1>4, <2>1 DEF KnownInv, Here
<1> QED BY <1>3, <1>4 DEF Flow

\* A step that only moves a writer.
LEMMA StillFlow ==
  ASSUME StoreInv,
         UNCHANGED <<batch, backlog, pending, held, reading, file, inInflux, givenUp, captured>>
  PROVE  OrderInv' /\ Flow
<1>1. \A w \in InfluxWriters : Asked(w)' = Asked(w) /\ Followed(w)' = Followed(w)
  BY DEF Asked, Followed
<1>2. InHands' = InHands /\ InMemory' = InMemory /\ Here' = Here
  BY <1>1 DEF InHands, InMemory, Here, ToSet
<1>3. OrderInv'
  <2>1. \A w \in InfluxWriters : OrderOf(w)'
    BY <1>1 DEF StoreInv, OrderInv, OrderOf, Ordered, Below, ToSet
  <2> QED BY <2>1 DEF StoreInv, OrderInv, Ordered, Below, ToSet
<1> QED BY <1>2, <1>3 DEF Flow

LEMMA FileStays ==
  ASSUME FileInv, UNCHANGED <<file, backlog>>, open' = "none" <=> open = "none"
  PROVE  FileInv'
  BY DEF FileInv, Ordered

\* _add_points_to_backlog() with readings taken from one place.
LEMMA KeepFlow ==
  ASSUME StoreInv, open # "none", NEW points \in Seq(Readings), NEW M, Keep(points),
         InMemory = ToSet(backlog) \cup ToSet(points) \cup M,
         InMemory' = ToSet(backlog') \cup M,
         Below(ToSet(backlog), M), UNCHANGED <<inInflux, captured>>
  PROVE  Flow
<1>1. /\ file = backlog /\ backlog \in Seq(Readings) /\ Len(backlog) <= MaxBacklog
      /\ ToSet(backlog) \subseteq Readings
  BY InfluxTypeParts, HeldEmpty DEF StoreInv, FileInv, DataTypes
<1>2. /\ file' = backlog' /\ ToSet(backlog') \subseteq ToSet(backlog) \cup ToSet(points)
      /\ givenUp \subseteq givenUp' /\ givenUp' \subseteq givenUp \cup ToSet(backlog) \cup ToSet(points)
      /\ (ToSet(backlog) \cup ToSet(points)) \ ToSet(backlog') \subseteq givenUp'
  BY <1>1, KeepFacts
<1>3. ToSet(backlog) \cap M = {}
  <2> SUFFICES ASSUME NEW x \in ToSet(backlog), x \in M PROVE FALSE
    OBVIOUS
  <2>1. x < x /\ x \in Nat
    BY <1>1 DEF Below, Readings
  <2> QED BY <2>1
<1>4. Here = InMemory /\ Here' = InMemory'
  BY <1>1, <1>2 DEF Here, ToSet, InMemory
<1> QED BY <1>1, <1>2, <1>3, <1>4 DEF Flow
----------------------------------------------------------------------------
(* Influx bridges: the steps. *)

Sound == PlaceInv' /\ OrderInv' /\ FileInv' /\ Flow

LEMMA AtWork ==
  ASSUME StoreInv, NEW w \in InfluxWriters, at[w] # "idle"
  PROVE  open = "open" /\ client /\ pending = <<>> /\ file = backlog
  BY DEF StoreInv, PlaceInv, FileInv, AllIdle

LEMMA PlaceNext ==
  ASSUME OneWriter, NEW w \in InfluxWriters, PlaceOf(w)', open' = "open", client', pending' = <<>>
  PROVE  PlaceInv'
  BY DEF PlaceInv, OneWriter

\* Where a return leads, and what may be in hand there.
LEMMA ReturnsTo ==
  ASSUME PlaceTypes, NEW w \in InfluxWriters, PlaceOf(w), at[w] \in Calls,
         NEW answer \in BOOLEAN, Return(w, answer), UNCHANGED <<reading, held>>
  PROVE  PlaceOf(w)'
<1>1. caller[w] \in Callers /\ at'[w] = Resume(caller[w], answer)
  BY DEF PlaceTypes, Return, Goto
<1>2. CASE caller[w] = "connect"
  BY <1>1, <1>2 DEF PlaceOf, Resume, Calls
<1>3. CASE caller[w] = "route"
  BY <1>1, <1>3 DEF PlaceOf, Resume, Calls
<1>4. CASE caller[w] = "flush"
  BY <1>1, <1>4 DEF PlaceOf, Resume, Calls
<1>5. CASE caller[w] = "retry"
  BY <1>1, <1>5 DEF PlaceOf, Resume, Calls
<1> QED BY <1>1, <1>2, <1>3, <1>4, <1>5 DEF Callers

LEMMA SoundCalls ==
  ASSUME StoreInv, OneWriter, NEW w \in InfluxWriters,
         CheckThrottled(w) \/ CheckPings(w) \/ DialSucceeds(w) \/ DialFails(w) \/ SnapBacklog(w)
  PROVE  Sound
<1> USE InfluxTypeParts DEF memory, outside
<1>1. at[w] \in {"check", "dial", "snap"}
  BY DEF CheckThrottled, CheckPings, DialSucceeds, DialFails, SnapBacklog
<1>2. open = "open" /\ client /\ pending = <<>>
  BY <1>1, AtWork
<1>3. /\ UNCHANGED <<batch, backlog, pending, held, reading, file, inInflux, givenUp, captured>>
      /\ UNCHANGED <<open, caller>> /\ client'
  BY <1>2 DEF CheckThrottled, CheckPings, DialSucceeds, DialFails, SnapBacklog
<1>4. PlaceOf(w) /\ PlaceTypes /\ influxOn \in BOOLEAN
  BY DEF StoreInv, PlaceInv, FlagTypes
<1>5. \/ \E answer \in BOOLEAN : Return(w, answer)
      \/ Goto(w, "dial") \/ Goto(w, "snap")
      \/ Goto(w, "send") /\ snap' = [snap EXCEPT ![w] = backlog]
  BY <1>4 DEF CheckThrottled, CheckPings, DialSucceeds, DialFails, SnapBacklog
<1>6. PlaceOf(w)'
  <2>1. CASE \E answer \in BOOLEAN : Return(w, answer)
    BY <1>1, <1>3, <1>4, <2>1, ReturnsTo DEF Calls
  <2>2. CASE Goto(w, "dial") \/ Goto(w, "snap")
    <3>1. at'[w] \in {"dial", "snap"}
      BY <1>4, <2>2 DEF PlaceTypes, Goto
    <3> QED BY <1>1, <1>3, <1>4, <3>1 DEF PlaceOf, Calls
  <2>3. CASE Goto(w, "send") /\ snap' = [snap EXCEPT ![w] = backlog]
    <3>1. at'[w] = "send" /\ snap'[w] = backlog
      BY <1>4, <2>3 DEF PlaceTypes, Goto, StoreInv, DataTypes
    <3> QED BY <1>1, <1>3, <1>4, <3>1 DEF PlaceOf, Calls
  <2> QED BY <1>5, <2>1, <2>2, <2>3
<1>7. PlaceInv'
  BY <1>2, <1>3, <1>6, PlaceNext
<1>8. OrderInv' /\ Flow
  BY <1>3, StillFlow
<1>9. FileInv'
  BY <1>3, FileStays DEF StoreInv
<1> QED BY <1>7, <1>8, <1>9 DEF Sound

LEMMA SoundSend ==
  ASSUME StoreInv, OneWriter, NEW w \in InfluxWriters, SendBacklog(w)
  PROVE  Sound
<1> USE InfluxTypeParts DEF memory
<1>1. at[w] = "send" /\ open = "open" /\ client /\ pending = <<>> /\ file = backlog
  BY AtWork DEF SendBacklog
<1>2. /\ UNCHANGED <<batch, backlog, pending, held, reading, file, givenUp, captured>>
      /\ UNCHANGED <<open, caller, client, snap, influxFaults>>
  BY DEF SendBacklog
<1>3. PlaceOf(w) /\ PlaceTypes /\ snap[w] = backlog
  BY <1>1 DEF StoreInv, PlaceInv, PlaceOf
<1>4. CASE UNCHANGED inInflux /\ Return(w, TRUE)
  <2>1. PlaceOf(w)'
    BY <1>1, <1>2, <1>3, <1>4, ReturnsTo DEF Calls
  <2>2. PlaceInv'
    BY <1>1, <1>2, <2>1, PlaceNext
  <2>3. OrderInv' /\ Flow
    BY <1>2, <1>4, StillFlow
  <2> QED BY <1>2, <2>2, <2>3, FileStays DEF StoreInv, Sound
<1>5. CASE inInflux' = inInflux \cup ToSet(snap[w]) /\ Goto(w, "clear")
  <2>1. at'[w] = "clear"
    BY <1>3, <1>5 DEF PlaceTypes, Goto
  <2>2. PlaceOf(w)'
    BY <1>1, <1>2, <1>3, <1>5, <2>1 DEF PlaceOf, Calls, ToSet
  <2>3. PlaceInv'
    BY <1>1, <1>2, <2>2, PlaceNext
  <2>4. \A v \in InfluxWriters : Asked(v)' = Asked(v) /\ Followed(v)' = Followed(v)
    BY <1>2 DEF Asked, Followed
  <2>5. Here' = Here /\ ToSet(snap[w]) \subseteq Here
    BY <1>2, <1>3, <2>4 DEF Here, InMemory, InHands, ToSet
  <2>6. OrderInv'
    <3>1. \A v \in InfluxWriters : OrderOf(v)'
      BY <1>2, <2>4 DEF StoreInv, OrderInv, OrderOf, Ordered, Below, ToSet
    <3> QED BY <1>2, <3>1 DEF StoreInv, OrderInv, Ordered, Below, ToSet
  <2>7. Flow
    BY <1>2, <1>5, <2>5 DEF Flow
  <2> QED BY <1>2, <2>3, <2>6, <2>7, FileStays DEF StoreInv, Sound
<1> QED BY <1>4, <1>5 DEF SendBacklog

LEMMA SoundClear ==
  ASSUME StoreInv, OneWriter, NEW w \in InfluxWriters, ClearBacklog(w)
  PROVE  Sound
<1> USE InfluxTypeParts
<1>1. at[w] = "clear" /\ open = "open" /\ client /\ pending = <<>> /\ file = backlog
  BY AtWork DEF ClearBacklog
<1>2. /\ UNCHANGED <<batch, pending, held, reading, inInflux, givenUp, captured>>
      /\ UNCHANGED <<open, caller, client, influxFaults>> /\ backlog' = <<>> /\ Return(w, TRUE)
  BY DEF ClearBacklog
<1>3. file' = <<>>
  BY DEF ClearBacklog, Save, StoreInv, FileInv
<1>4. PlaceOf(w) /\ PlaceTypes /\ ToSet(backlog) \subseteq inInflux
  BY <1>1 DEF StoreInv, PlaceInv, PlaceOf
<1>5. PlaceInv'
  <2>1. PlaceOf(w)'
    BY <1>1, <1>2, <1>4, ReturnsTo DEF Calls
  <2> QED BY <1>1, <1>2, <2>1, PlaceNext
<1>6. \A v \in InfluxWriters : Asked(v)' = Asked(v) /\ Followed(v)' = Followed(v)
  BY <1>2 DEF Asked, Followed
<1>7. ToSet(backlog') = {} /\ ToSet(file') = {} /\ Ordered(backlog') /\ Ordered(file')
  BY <1>2, <1>3, EmptyPart
<1>8. InHands' = InHands /\ ToSet(batch') = ToSet(batch) /\ ToSet(pending') = ToSet(pending)
  BY <1>2, <1>6 DEF InHands, ToSet
<1>9. InMemory' \subseteq InMemory /\ InMemory \subseteq InMemory' \cup ToSet(backlog)
  <2>1. InMemory' = ToSet(batch') \cup ToSet(backlog') \cup ToSet(pending') \cup InHands'
    BY DEF InMemory, ToSet
  <2> QED BY <1>7, <1>8, <2>1 DEF InMemory
<1>10. Flow
  <2>1. Here' = InMemory' /\ Here = InMemory
    BY <1>1, <1>7 DEF Here, ToSet, InMemory
  <2> QED BY <1>1, <1>2, <1>4, <1>9, <2>1 DEF Flow
<1>11. OrderInv'
  <2>1. \A v \in InfluxWriters : OrderOf(v)'
    BY <1>2, <1>6, <1>7 DEF StoreInv, OrderInv, OrderOf, Ordered, Below, ToSet
  <2> QED BY <1>2, <1>7, <2>1 DEF StoreInv, OrderInv, Ordered, Below, ToSet
<1>12. FileInv'
  BY <1>1, <1>2, <1>3, <1>7, EmptyPart DEF FileInv, Ordered
<1> QED BY <1>5, <1>10, <1>11, <1>12 DEF Sound
LEMMA SoundConnect ==
  ASSUME StoreInv, OneWriter, NEW w \in InfluxWriters, ConnectV1(w) \/ ConnectV3(w) \/ OfferOther(w)
  PROVE  Sound
<1> USE InfluxTypeParts DEF memory
<1>1. PlaceOf(w) /\ PlaceTypes
  BY DEF StoreInv, PlaceInv
<1>2. at[w] = "idle" /\ open \in {"built", "open"} /\ pending = <<>>
  BY DEF ConnectV1, ConnectV3, ConnectEnds, OfferOther, Offer, StoreInv, PlaceInv, AllIdle
<1>3. reading[w] = 0 /\ held[w] = <<>>
  BY <1>1, <1>2 DEF PlaceOf, Calls
<1>4. UNCHANGED <<batch, backlog, pending, held, file, inInflux, givenUp, captured, snap>>
  BY DEF ConnectV1, ConnectV3, ConnectEnds, OfferOther, Offer
<1>5. reading' = reading
  <2>1. reading' = reading \/ reading' = [reading EXCEPT ![w] = 0]
    BY DEF ConnectV1, ConnectV3, ConnectEnds, OfferOther, Offer
  <2>2. [reading EXCEPT ![w] = 0] = reading
    BY <1>1, <1>3 DEF PlaceTypes
  <2> QED BY <2>1, <2>2
<1>6. open' = "open" /\ client'
  BY DEF ConnectV1, ConnectV3, ConnectEnds, OfferOther, Offer, StoreInv, PlaceInv
<1>7. at'[w] \in {"idle", "snap", "check"}
  BY <1>1 DEF ConnectV1, ConnectV3, ConnectEnds, OfferOther, Offer, Goto, PlaceTypes
<1>8. PlaceInv'
  <2>1. PlaceOf(w)'
    BY <1>3, <1>4, <1>5, <1>7 DEF PlaceOf
  <2> QED BY <1>2, <1>4, <1>6, <2>1, PlaceNext
<1>9. OrderInv' /\ Flow
  BY <1>4, <1>5, StillFlow
<1>10. FileInv'
  BY <1>2, <1>4, <1>6, FileStays DEF StoreInv
<1> QED BY <1>8, <1>9, <1>10 DEF Sound

\* A new reading comes after all that are known.
LEMMA SoundOffer ==
  ASSUME StoreInv, OneWriter, NEW w \in InfluxWriters, OfferNext(w)
  PROVE  Sound
<1> USE InfluxTypeParts DEF memory
<1>1. PlaceOf(w) /\ PlaceTypes
  BY DEF StoreInv, PlaceInv
<1>2. at[w] = "idle" /\ open = "open" /\ pending = <<>> /\ client
  BY DEF OfferNext, Offer, StoreInv, PlaceInv
<1>3. reading[w] = 0 /\ held[w] = <<>>
  BY <1>1, <1>2 DEF PlaceOf, Calls
<1>4. UNCHANGED <<batch, backlog, pending, held, file, inInflux, givenUp, snap, open, client, influxFaults>>
  BY DEF OfferNext, Offer
<1>5. /\ captured' = captured + 1 /\ captured \in Nat /\ captured + 1 # 0
      /\ reading'[w] = captured + 1 /\ at'[w] = "check" /\ caller'[w] = "route"
  BY <1>1, InfluxConstants DEF OfferNext, Offer, Goto, PlaceTypes
<1>6. PlaceInv'
  <2>1. PlaceOf(w)'
    BY <1>3, <1>4, <1>5 DEF PlaceOf, Calls
  <2> QED BY <1>2, <1>4, <2>1, PlaceNext
<1>7. Asked(w) = {} /\ Asked(w)' = {captured + 1}
  BY <1>3, <1>5 DEF Asked
<1>8. InMemory' = InMemory \cup {captured + 1}
  <2>1. InMemory = ToSet(batch) \cup ToSet(backlog) \cup ToSet(pending) \cup ToSet(held[w]) \cup Asked(w)
    BY <1>1, MemoryAt
  <2>2. InMemory' = ToSet(batch') \cup ToSet(backlog') \cup ToSet(pending') \cup ToSet(held'[w]) \cup Asked(w)'
    BY MemoryNextAt
  <2> QED BY <1>4, <1>7, <2>1, <2>2
<1>9. Flow
  <2>1. Here' = Here \cup {captured + 1}
    BY <1>4, <1>8 DEF Here, ToSet
  <2> QED BY <1>4, <1>5, <1>8, <2>1 DEF Flow
<1>10. Below(ToSet(backlog) \cup ToSet(held[w]) \cup ToSet(batch), {captured + 1})
  <2>1. ToSet(backlog) \cup ToSet(held[w]) \cup ToSet(batch) \subseteq 1..captured
    <3>1. InMemory \subseteq 1..captured
      BY DEF StoreInv, KnownInv, Here
    <3>2. InMemory = ToSet(batch) \cup ToSet(backlog) \cup ToSet(pending) \cup ToSet(held[w]) \cup Asked(w)
      BY <1>1, MemoryAt
    <3> QED BY <3>1, <3>2
  <2> QED BY <1>5, <2>1 DEF Below
<1>11. OrderInv'
  <2>1. OrderOf(w)'
    BY <1>4, <1>7, <1>10 DEF StoreInv, OrderInv, OrderOf, Ordered, Below, ToSet
  <2> QED BY <1>4, <2>1 DEF StoreInv, OrderInv, Ordered, Below, ToSet, OneWriter
<1>12. FileInv'
  BY <1>4, FileStays DEF StoreInv
<1> QED BY <1>6, <1>9, <1>11, <1>12 DEF Sound

\* Readings change hands: between the batch, the hands of the writer and the
\* reading it was called with, all after the backlog.
LEMMA SoundHands ==
  ASSUME StoreInv, OneWriter, NEW w \in InfluxWriters, at[w] # "idle", PlaceOf(w)',
         UNCHANGED <<open, client, backlog, pending, file, inInflux, captured, influxFaults>>,
         batch' \in Seq(Readings), held'[w] \in Seq(Readings),
         Ordered(batch'), Ordered(held'[w]),
         Below(ToSet(held'[w]), ToSet(batch') \cup Asked(w)'), Below(ToSet(batch'), Asked(w)'),
         ToSet(batch') \cup ToSet(held'[w]) \cup Asked(w)'
             \subseteq ToSet(batch) \cup ToSet(held[w]) \cup Asked(w),
         givenUp \subseteq givenUp', givenUp' \subseteq givenUp \cup Asked(w),
         ToSet(batch) \cup ToSet(held[w]) \cup Asked(w)
             \subseteq ToSet(batch') \cup ToSet(held'[w]) \cup Asked(w)' \cup givenUp'
  PROVE  Sound
<1> USE InfluxTypeParts
<1>1. open = "open" /\ client /\ pending = <<>> /\ file = backlog
  BY AtWork
<1>2. PlaceInv'
  BY <1>1, PlaceNext
<1>3. FileInv'
  BY FileStays DEF StoreInv
<1>4. InMemory = ToSet(batch) \cup ToSet(backlog) \cup ToSet(pending) \cup ToSet(held[w]) \cup Asked(w)
  BY MemoryAt DEF StoreInv
<1>5. InMemory' = ToSet(batch') \cup ToSet(backlog) \cup ToSet(pending) \cup ToSet(held'[w]) \cup Asked(w)'
  BY MemoryNextAt
<1>6. Flow
  <2>1. Here' = InMemory' \cup ToSet(file) /\ Here = InMemory \cup ToSet(file)
    BY DEF Here, ToSet, InMemory
  <2>2. ToSet(file') = ToSet(file)
    OBVIOUS
  <2> QED BY <1>4, <1>5, <2>1, <2>2 DEF Flow
<1>7. Below(ToSet(backlog), ToSet(batch) \cup ToSet(held[w]) \cup Asked(w))
  BY DEF StoreInv, OrderInv, OrderOf, Below
<1>8. ToSet(pending) = {}
  BY <1>1, EmptyPart
<1>9. OrderOf(w)'
  BY <1>7 DEF OrderOf, Below, ToSet, Ordered
<1>10. OrderInv'
  <2>1. Below(ToSet(backlog), ToSet(batch') \cup ToSet(pending))
    BY <1>7, <1>8 DEF Below
  <2>2. Ordered(backlog)' /\ Ordered(batch)' /\ Ordered(pending)'
    BY DEF StoreInv, OrderInv, Ordered
  <2>3. Below(ToSet(backlog), ToSet(batch) \cup ToSet(pending))'
    BY <2>1 DEF Below, ToSet
  <2> QED BY <1>9, <2>2, <2>3 DEF OrderInv, OneWriter
<1> QED BY <1>2, <1>3, <1>6, <1>10 DEF Sound

LEMMA SoundAppend ==
  ASSUME StoreInv, OneWriter, NEW w \in InfluxWriters, AppendPoint(w)
  PROVE  Sound
<1> USE InfluxTypeParts DEF outside
<1>1. PlaceOf(w) /\ PlaceTypes /\ DataTypes /\ OrderOf(w) /\ Ordered(batch)
  BY DEF StoreInv, PlaceInv, OrderInv
<1>2. at[w] = "append" /\ held[w] = <<>>
  BY <1>1 DEF AppendPoint, PlaceOf, Calls
<1>3. /\ UNCHANGED <<open, client, backlog, pending, file, inInflux, captured, influxFaults>>
      /\ UNCHANGED <<held, givenUp>> /\ batch' = batch \o Followed(w)
  BY DEF AppendPoint
<1>4. reading'[w] = 0 /\ at'[w] \in {"take", "idle"}
  BY <1>1 DEF AppendPoint, PlaceTypes, Goto
<1>5. PlaceOf(w)'
  BY <1>2, <1>3, <1>4 DEF PlaceOf
<1>6. Followed(w) \in Seq(Readings) /\ Ordered(Followed(w)) /\ ToSet(Followed(w)) = Asked(w)
  BY <1>1, FollowedPart DEF Asked
<1>7. /\ batch' \in Seq(Readings) /\ ToSet(batch') = ToSet(batch) \cup Asked(w) /\ Ordered(batch')
  BY <1>1, <1>3, <1>6, JoinedParts DEF DataTypes, OrderOf
<1>8. Asked(w)' = {} /\ held'[w] = <<>> /\ ToSet(held'[w]) = {} /\ ToSet(held[w]) = {}
  BY <1>2, <1>3, <1>4, EmptyPart DEF Asked
<1>9. held'[w] \in Seq(Readings) /\ Ordered(held'[w])
  BY <1>8, EmptyPart
<1>10. Below(ToSet(held'[w]), ToSet(batch') \cup Asked(w)') /\ Below(ToSet(batch'), Asked(w)')
  BY <1>8 DEF Below
<1> QED BY <1>2, <1>3, <1>5, <1>7, <1>8, <1>9, <1>10, SoundHands

LEMMA SoundTake ==
  ASSUME StoreInv, OneWriter, NEW w \in InfluxWriters, TakeBatch(w) \/ StorePoint(w)
  PROVE  Sound
<1> USE InfluxTypeParts DEF outside
<1>1. PlaceOf(w) /\ PlaceTypes /\ DataTypes /\ OrderOf(w) /\ Ordered(batch) /\ batch \in Seq(Readings)
  BY DEF StoreInv, PlaceInv, OrderInv, DataTypes
<1>2. at[w] \in {"take", "store"} /\ held[w] = <<>> /\ (at[w] = "take" => reading[w] = 0)
  BY <1>1 DEF TakeBatch, StorePoint, PlaceOf, Calls
<1>3. UNCHANGED <<open, client, backlog, pending, file, inInflux, captured, influxFaults>>
  BY DEF TakeBatch, StorePoint
<1>4. ToSet(held[w]) = {} /\ ToSet(<<>>) = {} /\ Ordered(<<>>) /\ <<>> \in Seq(Readings)
  BY <1>2, EmptyPart
<1>5. CASE held' = [held EXCEPT ![w] = batch] /\ batch' = <<>> /\ UNCHANGED <<reading, givenUp>>
  <2>1. held'[w] = batch /\ Asked(w)' = Asked(w)
    BY <1>1, <1>5 DEF DataTypes, Asked
  <2>2. PlaceOf(w)'
    <3>1. CASE TakeBatch(w)
      <4>1. reading[w] = 0 /\ caller'[w] = "flush" /\ at'[w] = IF batch = <<>> THEN "idle" ELSE "check"
        BY <1>1, <1>2, <3>1 DEF TakeBatch, Goto, PlaceTypes
      <4> QED BY <1>5, <2>1, <4>1 DEF PlaceOf, Calls
    <3>2. CASE StorePoint(w)
      <4>1. CASE KeepsBacklog
        <5>1. at'[w] = "drain"
          BY <1>1, <3>2, <4>1 DEF StorePoint, Goto, PlaceTypes
        <5> QED BY <1>5, <2>1, <5>1 DEF PlaceOf, Calls
      <4>2. CASE ~KeepsBacklog
        <5>1. at'[w] = "idle" /\ reading'[w] = 0 /\ batch' = batch
          BY <1>1, <3>2, <4>2 DEF StorePoint, Goto, PlaceTypes
        <5> QED BY <1>5, <2>1, <5>1 DEF PlaceOf, Calls
      <4> QED BY <4>1, <4>2
    <3> QED BY <3>1, <3>2
  <2>3. ToSet(held'[w]) = ToSet(batch) /\ ToSet(batch') = {} /\ batch' \in Seq(Readings)
        /\ held'[w] \in Seq(Readings) /\ Ordered(batch') /\ Ordered(held'[w])
    BY <1>1, <1>4, <1>5, <2>1
  <2>4. Below(ToSet(held'[w]), ToSet(batch') \cup Asked(w)') /\ Below(ToSet(batch'), Asked(w)')
    BY <1>1, <2>1, <2>3 DEF OrderOf, Below
  <2> QED BY <1>2, <1>3, <1>4, <1>5, <2>1, <2>2, <2>3, <2>4, SoundHands
<1>6. CASE /\ StorePoint(w) /\ givenUp' = givenUp \cup ToSet(Followed(w))
           /\ reading' = [reading EXCEPT ![w] = 0] /\ UNCHANGED <<held, batch>> /\ Goto(w, "idle")
  <2>1. ToSet(Followed(w)) = Asked(w) /\ Asked(w)' = {} /\ at'[w] = "idle" /\ reading'[w] = 0
    BY <1>1, <1>6, FollowedPart DEF Asked, PlaceTypes, Goto
  <2>2. PlaceOf(w)'
    BY <1>2, <1>6, <2>1 DEF PlaceOf
  <2>3. /\ held'[w] = <<>> /\ ToSet(held'[w]) = {} /\ ToSet(batch') = ToSet(batch)
        /\ Ordered(batch') /\ Ordered(held'[w]) /\ held'[w] \in Seq(Readings) /\ batch' \in Seq(Readings)
    BY <1>1, <1>2, <1>4, <1>6
  <2>4. Below(ToSet(held'[w]), ToSet(batch') \cup Asked(w)') /\ Below(ToSet(batch'), Asked(w)')
    BY <2>1, <2>3 DEF Below
  <2> QED BY <1>2, <1>3, <1>4, <1>6, <2>1, <2>2, <2>3, <2>4, SoundHands
<1> QED BY <1>5, <1>6 DEF TakeBatch, StorePoint
\* The client is there as long as the bridge is open: what the writer lets go
\* of was written.
LEMMA SoundWrite ==
  ASSUME StoreInv, OneWriter, NEW w \in InfluxWriters, WriteBatch(w) \/ RewriteBatch(w)
  PROVE  Sound
<1> USE InfluxTypeParts DEF memory
<1>1. PlaceOf(w) /\ PlaceTypes /\ DataTypes /\ OrderOf(w)
  BY DEF StoreInv, PlaceInv, OrderInv
<1>2. at[w] \in {"write", "rewrite"} /\ reading[w] = 0
  BY <1>1 DEF WriteBatch, RewriteBatch, PlaceOf, Calls
<1>3. open = "open" /\ client /\ pending = <<>> /\ file = backlog
  BY <1>2, AtWork
<1>4. UNCHANGED <<batch, backlog, pending, reading, file, givenUp, captured, open, client, snap, influxFaults>>
  BY DEF WriteBatch, RewriteBatch
<1>5. CASE UNCHANGED <<inInflux, held>> /\ client /\ ~Accepts(held[w])
  <2>1. /\ at'[w] = "dial" /\ caller'[w] = "retry"
        \/ at'[w] = "giveup"
    BY <1>1, <1>5 DEF WriteBatch, RewriteBatch, Goto, PlaceTypes
  <2>2. PlaceOf(w)'
    BY <1>2, <1>4, <2>1 DEF PlaceOf, Calls
  <2>3. PlaceInv'
    BY <1>3, <1>4, <2>2, PlaceNext
  <2>4. OrderInv' /\ Flow
    BY <1>4, <1>5, StillFlow
  <2> QED BY <1>4, <2>3, <2>4, FileStays DEF StoreInv, Sound
<1>6. CASE /\ inInflux' = inInflux \cup ToSet(held[w])
           /\ held' = [held EXCEPT ![w] = <<>>] /\ Goto(w, "idle")
  <2>1. held'[w] = <<>> /\ ToSet(held'[w]) = {} /\ Ordered(held'[w]) /\ at'[w] = "idle" /\ Asked(w)' = Asked(w)
    BY <1>1, <1>4, <1>6, EmptyPart DEF DataTypes, PlaceTypes, Goto, Asked
  <2>2. PlaceOf(w)'
    BY <1>2, <1>4, <2>1 DEF PlaceOf
  <2>3. PlaceInv'
    BY <1>3, <1>4, <2>2, PlaceNext
  <2>4. InMemory = ToSet(batch) \cup ToSet(backlog) \cup ToSet(pending) \cup ToSet(held[w]) \cup Asked(w)
    BY <1>1, MemoryAt
  <2>5. InMemory' = ToSet(batch) \cup ToSet(backlog) \cup ToSet(pending) \cup Asked(w)
    <3>1. InMemory' = ToSet(batch') \cup ToSet(backlog') \cup ToSet(pending') \cup ToSet(held'[w]) \cup Asked(w)'
      BY MemoryNextAt
    <3> QED BY <1>4, <2>1, <3>1
  <2>6. Here' = InMemory' \cup ToSet(file) /\ Here = InMemory \cup ToSet(file) /\ ToSet(file') = ToSet(file)
    BY <1>4 DEF Here, ToSet, InMemory
  <2>7. Flow
    BY <1>4, <1>6, <2>4, <2>5, <2>6 DEF Flow
  <2>8. OrderInv'
    <3>1. OrderOf(w)'
      BY <1>1, <1>4, <2>1 DEF OrderOf, Ordered, Below, ToSet
    <3> QED BY <1>4, <3>1 DEF StoreInv, OrderInv, OneWriter, Ordered, Below, ToSet
  <2> QED BY <1>4, <2>3, <2>7, <2>8, FileStays DEF StoreInv, Sound
<1>7. \/ UNCHANGED <<inInflux, held>> /\ client /\ ~Accepts(held[w])
      \/ /\ inInflux' = inInflux \cup ToSet(held[w])
         /\ held' = [held EXCEPT ![w] = <<>>] /\ Goto(w, "idle")
  BY <1>3 DEF WriteBatch, RewriteBatch
<1> QED BY <1>5, <1>6, <1>7

LEMMA SoundKeep ==
  ASSUME StoreInv, OneWriter, NEW w \in InfluxWriters, KeepBatch(w) \/ DrainBatch(w)
  PROVE  Sound
<1> USE InfluxTypeParts
<1>1. PlaceOf(w) /\ PlaceTypes /\ DataTypes /\ OrderOf(w) /\ OrderInv
  BY DEF StoreInv, PlaceInv, OrderInv
<1>2. at[w] \in {"keep", "giveup", "drain"} /\ (at[w] # "drain" => reading[w] = 0)
      /\ (at[w] = "drain" => batch = <<>>)
  BY <1>1 DEF KeepBatch, DrainBatch, PlaceOf, Calls
<1>3. open = "open" /\ client /\ pending = <<>> /\ file = backlog
  BY <1>2, AtWork
<1>4. /\ UNCHANGED <<batch, pending, reading, captured, open, client, snap, inInflux, influxFaults>>
      /\ Keep(held[w]) /\ held' = [held EXCEPT ![w] = <<>>]
      /\ at'[w] = IF at[w] = "drain" THEN "stow" ELSE "idle"
  BY <1>1, <1>2 DEF KeepBatch, DrainBatch, Goto, PlaceTypes
<1>5. /\ held'[w] = <<>> /\ ToSet(held'[w]) = {} /\ Ordered(held'[w]) /\ Asked(w)' = Asked(w)
      /\ ToSet(pending) = {}
  BY <1>1, <1>3, <1>4, EmptyPart DEF DataTypes, Asked
<1>6. PlaceInv'
  <2>1. PlaceOf(w)'
    BY <1>2, <1>4, <1>5 DEF PlaceOf
  <2> QED BY <1>3, <1>4, <2>1, PlaceNext
<1>7. /\ backlog \in Seq(Readings) /\ Len(backlog) <= MaxBacklog /\ held[w] \in Seq(Readings)
      /\ Ordered(backlog) /\ Ordered(held[w]) /\ Below(ToSet(backlog), ToSet(held[w]))
  BY <1>1 DEF DataTypes, OrderInv, OrderOf, Below
<1>8. /\ backlog' \in Seq(Readings) /\ Ordered(backlog') /\ file' = backlog'
      /\ ToSet(backlog') \subseteq ToSet(backlog) \cup ToSet(held[w]) /\ (~KeepsBacklog => file' = file)
  BY <1>3, <1>4, <1>7, KeepFacts
<1>9. FileInv'
  BY <1>3, <1>4, <1>8 DEF StoreInv, FileInv, Ordered
<1> DEFINE M == ToSet(batch) \cup Asked(w)
<1>10. Flow
  <2>1. InMemory = ToSet(backlog) \cup ToSet(held[w]) \cup M
    <3>1. InMemory = ToSet(batch) \cup ToSet(backlog) \cup ToSet(pending) \cup ToSet(held[w]) \cup Asked(w)
      BY <1>1, MemoryAt
    <3> QED BY <1>5, <3>1
  <2>2. InMemory' = ToSet(backlog') \cup M
    <3>1. InMemory' = ToSet(batch') \cup ToSet(backlog') \cup ToSet(pending') \cup ToSet(held'[w]) \cup Asked(w)'
      BY MemoryNextAt
    <3> QED BY <1>4, <1>5, <3>1
  <2>3. Below(ToSet(backlog), M)
    BY <1>1 DEF OrderInv, OrderOf, Below
  <2> HIDE DEF M
  <2> QED BY <1>3, <1>4, <1>7, <2>1, <2>2, <2>3, KeepFlow
<1>11. OrderInv'
  <2>1. Below(ToSet(backlog'), M)
    BY <1>1, <1>8 DEF OrderInv, OrderOf, Below
  <2>2. OrderOf(w)'
    BY <1>1, <1>4, <1>5, <2>1 DEF OrderOf, Ordered, Below, ToSet
  <2>3. Below(ToSet(backlog'), ToSet(batch') \cup ToSet(pending'))
    BY <1>4, <1>5, <2>1 DEF Below
  <2> QED BY <1>1, <1>4, <1>8, <2>2, <2>3 DEF OrderInv, OneWriter, Ordered, Below, ToSet
<1> QED BY <1>6, <1>9, <1>10, <1>11 DEF Sound

LEMMA SoundStow ==
  ASSUME StoreInv, OneWriter, NEW w \in InfluxWriters, StowPoint(w)
  PROVE  Sound
<1> USE InfluxTypeParts
<1>1. PlaceOf(w) /\ PlaceTypes /\ DataTypes /\ OrderOf(w) /\ OrderInv
  BY DEF StoreInv, PlaceInv, OrderInv
<1>2. at[w] = "stow" /\ held[w] = <<>> /\ batch = <<>>
  BY <1>1 DEF StowPoint, PlaceOf, Calls
<1>3. open = "open" /\ client /\ pending = <<>> /\ file = backlog
  BY <1>2, AtWork
<1>4. /\ UNCHANGED <<batch, pending, held, captured, open, client, snap, inInflux, influxFaults>>
      /\ Keep(Followed(w)) /\ reading'[w] = 0 /\ at'[w] = "idle"
  BY <1>1 DEF StowPoint, Goto, PlaceTypes
<1>5. /\ ToSet(held[w]) = {} /\ Asked(w)' = {} /\ ToSet(pending) = {} /\ ToSet(batch) = {}
      /\ Ordered(held[w])
  BY <1>2, <1>3, <1>4, EmptyPart DEF Asked
<1>6. PlaceInv'
  <2>1. PlaceOf(w)'
    BY <1>2, <1>4 DEF PlaceOf
  <2> QED BY <1>3, <1>4, <2>1, PlaceNext
<1>7. /\ backlog \in Seq(Readings) /\ Len(backlog) <= MaxBacklog /\ Followed(w) \in Seq(Readings)
      /\ Ordered(backlog) /\ Ordered(Followed(w)) /\ ToSet(Followed(w)) = Asked(w)
      /\ Below(ToSet(backlog), Asked(w))
  BY <1>1, FollowedPart DEF DataTypes, OrderInv, OrderOf, Below, Asked
<1>8. /\ backlog' \in Seq(Readings) /\ Ordered(backlog') /\ file' = backlog'
      /\ (~KeepsBacklog => file' = file)
  BY <1>3, <1>4, <1>7, KeepFacts
<1>9. FileInv'
  BY <1>3, <1>4, <1>8 DEF StoreInv, FileInv, Ordered
<1>10. Flow
  <2>1. InMemory = ToSet(backlog) \cup ToSet(Followed(w)) \cup {}
    <3>1. InMemory = ToSet(batch) \cup ToSet(backlog) \cup ToSet(pending) \cup ToSet(held[w]) \cup Asked(w)
      BY <1>1, MemoryAt
    <3> QED BY <1>5, <1>7, <3>1
  <2>2. InMemory' = ToSet(backlog') \cup {}
    <3>1. InMemory' = ToSet(batch') \cup ToSet(backlog') \cup ToSet(pending') \cup ToSet(held'[w]) \cup Asked(w)'
      BY MemoryNextAt
    <3> QED BY <1>4, <1>5, <3>1
  <2>3. Below(ToSet(backlog), {})
    BY DEF Below
  <2> QED BY <1>3, <1>4, <1>7, <2>1, <2>2, <2>3, KeepFlow
<1>11. OrderInv'
  <2>1. OrderOf(w)'
    BY <1>4, <1>5 DEF OrderOf, Ordered, Below, ToSet
  <2>2. Below(ToSet(backlog'), ToSet(batch') \cup ToSet(pending'))
    BY <1>4, <1>5 DEF Below
  <2> QED BY <1>1, <1>4, <1>8, <2>1, <2>2 DEF OrderInv, OneWriter, Ordered, Below, ToSet
<1> QED BY <1>6, <1>9, <1>10, <1>11 DEF Sound

LEMMA SoundBuild ==
  ASSUME StoreInv, BuildInflux
  PROVE  Sound
<1> USE InfluxTypeParts DEF writers
<1>1. /\ AllIdle /\ open \in {"none", "closed"} /\ open' = "built" /\ batch' = <<>> /\ LoadBacklog
      /\ UNCHANGED <<at, caller, reading, held, snap, pending, inInflux, captured>>
  BY DEF BuildInflux
<1>2. /\ InHands = {}
      /\ \A w \in InfluxWriters : held[w] = <<>> /\ reading[w] = 0
  BY <1>1, IdleHands DEF StoreInv
<1>3. file \in Seq(Readings) /\ Len(file) <= MaxBacklog /\ Ordered(file) /\ (~KeepsBacklog => file = <<>>)
  BY DEF StoreInv, FileInv, DataTypes
<1>4. /\ backlog' \in Seq(Readings) /\ ToSet(file') \subseteq ToSet(file)
      /\ ToSet(file) \ ToSet(file') \subseteq givenUp' /\ Ordered(file') /\ backlog' = file'
      /\ givenUp \subseteq givenUp' /\ givenUp' \subseteq givenUp \cup ToSet(file)
      /\ (~KeepsBacklog => file' = file)
  BY <1>1, <1>3, LoadFacts
<1>5. pending = <<>> /\ batch = <<>>
  BY <1>1 DEF StoreInv, PlaceInv
<1>6. PlaceInv'
  BY <1>1, <1>2, <1>5 DEF PlaceInv, PlaceOf, AllIdle
<1>7. FileInv'
  BY <1>1, <1>3, <1>4 DEF FileInv, Ordered
<1>8. ToSet(<<>>) = {} /\ Ordered(<<>>)
  BY EmptyPart
<1>9. InMemory' = ToSet(file')
  <2>1. InHands' = {}
    <3>1. \A w \in InfluxWriters : held'[w] = <<>> /\ reading'[w] = 0
      BY <1>1, <1>2
    <3>2. \A w \in InfluxWriters : ToSet(held[w])' = {} /\ ToSet(Followed(w))' = {}
      BY <1>8, <3>1 DEF Followed
    <3> QED BY <3>2 DEF InHands
  <2>2. InMemory' = ToSet(batch') \cup ToSet(backlog') \cup ToSet(pending') \cup InHands'
    BY DEF InMemory, ToSet
  <2> QED BY <1>1, <1>4, <1>5, <1>8, <2>1, <2>2
<1>10. Flow
  <2>1. Here' = ToSet(file')
    BY <1>9 DEF Here, ToSet, InMemory
  <2>2. InMemory \subseteq ToSet(file)
    BY <1>1, <1>2, <1>5, <1>8 DEF InMemory, StoreInv, FileInv
  <2>3. Here = ToSet(file)
    BY <2>2 DEF Here
  <2> QED BY <1>1, <1>4, <1>9, <2>1, <2>3 DEF Flow
<1>11. OrderInv'
  <2>1. ToSet(batch') = {} /\ ToSet(pending') = {} /\ Ordered(batch') /\ Ordered(pending') /\ Ordered(backlog')
    BY <1>1, <1>4, <1>5, <1>8
  <2>2. \A w \in InfluxWriters : Asked(w)' = {} /\ ToSet(held'[w]) = {} /\ Ordered(held'[w])
    BY <1>1, <1>2, <1>8 DEF Asked
  <2>3. \A w \in InfluxWriters : OrderOf(w)'
    BY <2>1, <2>2 DEF OrderOf, Ordered, Below, ToSet
  <2> QED BY <2>1, <2>3 DEF OrderInv, Ordered, Below, ToSet
<1> QED BY <1>6, <1>7, <1>10, <1>11 DEF Sound
LEMMA SoundClose ==
  ASSUME StoreInv, WaitsForWriters, CloseInflux
  PROVE  Sound
<1> USE InfluxTypeParts DEF outside
<1>1. /\ AllIdle /\ open = "open" /\ open' = "closing" /\ pending' = batch /\ batch' = <<>>
      /\ UNCHANGED <<at, caller, reading, held, snap, backlog, file, inInflux, givenUp, captured, influxFaults>>
  BY DEF CloseInflux
<1>2. /\ InHands = {}
      /\ \A w \in InfluxWriters : held[w] = <<>> /\ reading[w] = 0 /\ Asked(w) = {}
  BY <1>1, IdleHands DEF StoreInv
<1>3. pending = <<>>
  BY <1>1 DEF StoreInv, PlaceInv
<1>4. ToSet(<<>>) = {} /\ Ordered(<<>>)
  BY EmptyPart
<1>5. PlaceInv'
  BY <1>1, <1>2 DEF PlaceInv, PlaceOf, AllIdle
<1>6. FileInv'
  BY <1>1, FileStays DEF StoreInv
<1>7. \A w \in InfluxWriters : Asked(w)' = Asked(w) /\ Followed(w)' = Followed(w)
  BY <1>1 DEF Asked, Followed
<1>8. InMemory' = InMemory /\ Here' = Here
  <2>1. InHands' = InHands
    BY <1>1, <1>7 DEF InHands, ToSet
  <2>2. InMemory' = ToSet(batch') \cup ToSet(backlog') \cup ToSet(pending') \cup InHands'
    BY DEF InMemory, ToSet
  <2>3. InMemory' = InMemory
    BY <1>1, <1>3, <1>4, <2>1, <2>2 DEF InMemory
  <2> QED BY <1>1, <2>3 DEF Here, ToSet
<1>9. Flow
  BY <1>1, <1>8 DEF Flow
<1>10. OrderInv'
  <2>1. Ordered(batch') /\ Ordered(pending') /\ ToSet(batch') = {} /\ ToSet(pending') = ToSet(batch)
    BY <1>1, <1>4 DEF StoreInv, OrderInv
  <2>2. \A w \in InfluxWriters : OrderOf(w)'
    BY <1>1, <1>2, <1>4, <1>7, <2>1 DEF OrderOf, Ordered, Below, ToSet
  <2>3. Below(ToSet(backlog), ToSet(batch') \cup ToSet(pending'))
    BY <2>1 DEF StoreInv, OrderInv, Below
  <2> QED BY <1>1, <2>1, <2>2, <2>3 DEF StoreInv, OrderInv, Ordered, Below, ToSet
<1> QED BY <1>5, <1>6, <1>9, <1>10 DEF Sound

LEMMA SoundFinish ==
  ASSUME StoreInv, FinishClose
  PROVE  Sound
<1> USE InfluxTypeParts
<1>1. /\ open = "closing" /\ open' = "closed" /\ pending' = <<>>
      /\ UNCHANGED <<batch, at, caller, reading, held, snap, captured, influxFaults>>
  BY DEF FinishClose
<1>2. AllIdle /\ batch = <<>> /\ file = backlog
  BY <1>1 DEF StoreInv, PlaceInv, FileInv
<1>3. /\ InHands = {}
      /\ \A w \in InfluxWriters : held[w] = <<>> /\ reading[w] = 0 /\ Asked(w) = {}
  BY <1>2, IdleHands DEF StoreInv
<1>4. ToSet(<<>>) = {} /\ Ordered(<<>>)
  BY EmptyPart
<1>5. \A w \in InfluxWriters : Asked(w)' = {} /\ Followed(w)' = Followed(w)
  BY <1>1, <1>3 DEF Asked, Followed
<1>6. InMemory = ToSet(backlog) \cup ToSet(pending)
  BY <1>2, <1>3, <1>4 DEF InMemory
<1>7. InMemory' = ToSet(backlog')
  <2>1. InHands' = InHands
    BY <1>1, <1>5 DEF InHands, ToSet
  <2>2. InMemory' = ToSet(batch') \cup ToSet(backlog') \cup ToSet(pending') \cup InHands'
    BY DEF InMemory, ToSet
  <2> QED BY <1>1, <1>2, <1>3, <1>4, <2>1, <2>2
<1>8. PlaceInv'
  BY <1>1, <1>2, <1>3 DEF PlaceInv, PlaceOf, AllIdle
<1>9. ASSUME Ordered(backlog') PROVE OrderInv'
  <2>1. ToSet(batch') = {} /\ ToSet(pending') = {} /\ Ordered(batch') /\ Ordered(pending')
    BY <1>1, <1>2, <1>4
  <2>2. \A w \in InfluxWriters : ToSet(held'[w]) = {} /\ Ordered(held'[w])
    BY <1>1, <1>3, <1>4
  <2>3. \A w \in InfluxWriters : OrderOf(w)'
    BY <1>5, <2>1, <2>2 DEF OrderOf, Ordered, Below, ToSet
  <2> QED BY <1>9, <2>1, <2>3 DEF OrderInv, Ordered, Below, ToSet
<1>10. CASE inInflux' = inInflux \cup ToSet(pending) /\ UNCHANGED <<backlog, file, givenUp>>
  <2>1. Here' = ToSet(backlog) /\ Here = ToSet(backlog) \cup ToSet(pending) /\ ToSet(file') = ToSet(file)
    BY <1>2, <1>6, <1>7, <1>10 DEF Here, ToSet, InMemory
  <2>2. Flow
    BY <1>1, <1>10, <2>1 DEF Flow
  <2>3. Ordered(backlog')
    BY <1>10 DEF StoreInv, OrderInv
  <2>4. FileInv'
    BY <1>1, <1>10, FileStays DEF StoreInv
  <2> QED BY <1>8, <1>9, <2>2, <2>3, <2>4 DEF Sound
<1>11. CASE Keep(pending) /\ UNCHANGED inInflux
  <2>1. /\ backlog \in Seq(Readings) /\ Len(backlog) <= MaxBacklog /\ pending \in Seq(Readings)
        /\ Ordered(backlog) /\ Ordered(pending) /\ Below(ToSet(backlog), ToSet(pending))
    BY DEF StoreInv, DataTypes, OrderInv, Below
  <2>2. /\ backlog' \in Seq(Readings) /\ Ordered(backlog') /\ file' = backlog'
        /\ (~KeepsBacklog => file' = file)
    BY <1>2, <1>11, <2>1, KeepFacts
  <2>3. FileInv'
    BY <1>1, <2>2 DEF StoreInv, FileInv, Ordered
  <2>4. Flow
    <3>1. InMemory = ToSet(backlog) \cup ToSet(pending) \cup {} /\ InMemory' = ToSet(backlog') \cup {}
      BY <1>6, <1>7
    <3>2. Below(ToSet(backlog), {})
      BY DEF Below
    <3> QED BY <1>1, <1>11, <2>1, <3>1, <3>2, KeepFlow
  <2> QED BY <1>8, <1>9, <2>2, <2>3, <2>4 DEF Sound
<1> QED BY <1>10, <1>11 DEF FinishClose

\* The file is what a crash leaves, as it was.
LEMMA SoundCrash ==
  ASSUME StoreInv, ~MayTear, InfluxCrash
  PROVE  Sound
<1> USE InfluxTypeParts
<1>1. /\ open' = "none" /\ batch' = <<>> /\ backlog' = <<>> /\ pending' = <<>>
      /\ at' = [w \in InfluxWriters |-> "idle"] /\ reading' = [w \in InfluxWriters |-> 0]
      /\ held' = [w \in InfluxWriters |-> <<>>] /\ UNCHANGED <<file, inInflux, givenUp, captured>>
  BY DEF InfluxCrash
<1>2. ToSet(<<>>) = {} /\ Ordered(<<>>)
  BY EmptyPart
<1>3. \A w \in InfluxWriters : held'[w] = <<>> /\ reading'[w] = 0 /\ at'[w] = "idle"
  BY <1>1
<1>4. PlaceInv'
  BY <1>1, <1>3 DEF PlaceInv, PlaceOf, AllIdle
<1>5. FileInv'
  BY <1>1 DEF StoreInv, FileInv, Ordered
<1>6. InMemory' = {}
  <2>1. \A w \in InfluxWriters : ToSet(held[w])' = {} /\ ToSet(Followed(w))' = {}
    BY <1>2, <1>3 DEF Followed
  <2>2. InHands' = {}
    BY <2>1 DEF InHands
  <2>3. InMemory' = ToSet(batch') \cup ToSet(backlog') \cup ToSet(pending') \cup InHands'
    BY DEF InMemory, ToSet
  <2> QED BY <1>1, <1>2, <2>2, <2>3
<1>7. OrderInv'
  <2>1. /\ ToSet(batch') = {} /\ ToSet(pending') = {} /\ ToSet(backlog') = {}
        /\ Ordered(batch') /\ Ordered(pending') /\ Ordered(backlog')
    BY <1>1, <1>2
  <2>2. \A w \in InfluxWriters : Asked(w)' = {} /\ ToSet(held'[w]) = {} /\ Ordered(held'[w])
    BY <1>2, <1>3 DEF Asked
  <2>3. \A w \in InfluxWriters : OrderOf(w)'
    BY <2>1, <2>2 DEF OrderOf, Ordered, Below, ToSet
  <2> QED BY <2>1, <2>3 DEF OrderInv, Ordered, Below, ToSet
<1>8. Flow
  <2>1. Here' = ToSet(file) /\ ToSet(file) \subseteq Here /\ ToSet(file') = ToSet(file)
    BY <1>1, <1>6 DEF Here, ToSet
  <2>2. influxFaults["crash"] # influxFaults'["crash"]
    <3>1. influxFaults \in [{"outage", "crash"} -> Nat]
      BY DEF StoreInv, FlagTypes
    <3>2. influxFaults'["crash"] = influxFaults["crash"] + 1 /\ influxFaults["crash"] \in Nat
      BY <3>1 DEF InfluxCrash
    <3> QED BY <3>2
  <2> QED BY <1>1, <2>1, <2>2 DEF Flow
<1> QED BY <1>4, <1>5, <1>7, <1>8 DEF Sound

LEMMA SoundQuiet ==
  ASSUME StoreInv, ServerFails \/ ServerReturns \/ IntervalPasses \/ UNCHANGED influxVars
  PROVE  Sound
<1>1. /\ UNCHANGED <<batch, backlog, pending, held, reading, file, inInflux, givenUp, captured>>
      /\ UNCHANGED <<open, client, at, caller, snap>>
  BY DEF ServerFails, ServerReturns, IntervalPasses, influxVars, memory, writers, outside
<1>2. OrderInv' /\ Flow
  BY <1>1, StillFlow
<1>3. FileInv'
  BY <1>1, FileStays DEF StoreInv
<1>4. PlaceInv'
  <2>1. \A w \in InfluxWriters : PlaceOf(w)'
    BY <1>1 DEF StoreInv, PlaceInv, PlaceOf, ToSet
  <2> QED BY <1>1, <2>1 DEF StoreInv, PlaceInv, AllIdle
<1> QED BY <1>2, <1>3, <1>4 DEF Sound

\* How the gateway uses the bridges without concurrent reads: one thread calls
\* write_data(), cleanup() follows it, and a file is replaced as a whole.
OrderlyUse == OneWriter /\ WaitsForWriters /\ ~MayTear

LEMMA SoundNext ==
  ASSUME StoreInv, OrderlyUse, [InfluxNext]_influxVars
  PROVE  Sound
<1>1. ASSUME NEW w \in InfluxWriters, Reconnecting(w) PROVE Sound
  BY <1>1, SoundCalls, SoundSend, SoundClear DEF Reconnecting, OrderlyUse
<1>2. ASSUME NEW w \in InfluxWriters, Writing(w) PROVE Sound
  BY <1>2, SoundAppend, SoundTake, SoundWrite, SoundKeep, SoundStow DEF Writing, OrderlyUse
<1>3. ASSUME NEW w \in InfluxWriters, ConnectV1(w) \/ ConnectV3(w) \/ OfferNext(w) \/ OfferOther(w)
      PROVE  Sound
  BY <1>3, SoundConnect, SoundOffer DEF OrderlyUse
<1> QED BY <1>1, <1>2, <1>3, SoundBuild, SoundClose, SoundFinish, SoundCrash, SoundQuiet
        DEF InfluxNext, OrderlyUse

LEMMA StoreNext ==
  ASSUME StoreInv, OrderlyUse, [InfluxNext]_influxVars
  PROVE  StoreInv'
<1>1. Sound
  BY SoundNext
<1>2. InfluxTypeOK'
  BY InfluxTypeNext DEF StoreInv
<1>3. KnownInv'
  BY <1>1, KnownNext DEF Sound, StoreInv
<1> QED BY <1>1, <1>2, <1>3 DEF Sound, StoreInv

----------------------------------------------------------------------------
(* What the invariant and the flow of the readings amount to. *)

LEMMA StoreIsOrdered == StoreInv => CaptureOrder
<1> SUFFICES ASSUME StoreInv, NEW w \in InfluxWriters
             PROVE  Ordered(backlog \o held[w] \o batch \o pending \o Followed(w))
  BY DEF CaptureOrder, Ordered
<1> USE InfluxTypeParts
<1>1. /\ PlaceTypes /\ backlog \in Seq(Readings) /\ held[w] \in Seq(Readings) /\ batch \in Seq(Readings)
      /\ pending \in Seq(Readings)
  BY DEF StoreInv, DataTypes
<1>2. Followed(w) \in Seq(Readings) /\ Ordered(Followed(w)) /\ ToSet(Followed(w)) = Asked(w)
  BY <1>1, FollowedPart DEF Asked
<1>3. OrderOf(w) /\ OrderInv
  BY DEF StoreInv, OrderInv
<1>4. pending # <<>> => held[w] = <<>> /\ batch = <<>> /\ Asked(w) = {}
  <2>1. pending # <<>> => AllIdle /\ batch = <<>>
    BY DEF StoreInv, PlaceInv
  <2> QED BY <2>1, IdleHands DEF StoreInv
<1>5. ToSet(<<>>) = {}
  BY EmptyPart
<1> DEFINE a1 == backlog \o held[w]
           a2 == a1 \o batch
           a3 == a2 \o pending
<1>6. a1 \in Seq(Readings) /\ ToSet(a1) = ToSet(backlog) \cup ToSet(held[w]) /\ Ordered(a1)
  <2>1. Ordered(backlog) /\ Ordered(held[w]) /\ Below(ToSet(backlog), ToSet(held[w]))
    BY <1>3 DEF OrderInv, OrderOf, Below
  <2> QED BY <1>1, <2>1, JoinedParts
<1> HIDE DEF a1
<1>7. a2 \in Seq(Readings) /\ ToSet(a2) = ToSet(a1) \cup ToSet(batch) /\ Ordered(a2)
  <2>1. Ordered(batch) /\ Below(ToSet(a1), ToSet(batch))
    BY <1>3, <1>6 DEF OrderInv, OrderOf, Below
  <2> QED BY <1>1, <1>6, <2>1, JoinedParts
<1> HIDE DEF a2
<1>8. a3 \in Seq(Readings) /\ ToSet(a3) = ToSet(a2) \cup ToSet(pending) /\ Ordered(a3)
  <2>1. Below(ToSet(a2), ToSet(pending))
    <3>1. CASE pending = <<>>
      BY <1>5, <3>1 DEF Below
    <3>2. CASE pending # <<>>
      <4>1. ToSet(a2) = ToSet(backlog)
        BY <1>4, <1>5, <1>6, <1>7, <3>2
      <4> QED BY <1>3, <4>1 DEF OrderInv, Below
    <3> QED BY <3>1, <3>2
  <2>2. Ordered(pending)
    BY <1>3 DEF OrderInv
  <2> QED BY <1>1, <1>7, <2>1, <2>2, JoinedParts
<1> HIDE DEF a3
<1>9. Below(ToSet(a3), Asked(w))
  <2>1. CASE pending # <<>>
    BY <1>4, <2>1 DEF Below
  <2>2. CASE pending = <<>>
    BY <1>3, <1>5, <1>6, <1>7, <1>8, <2>2 DEF OrderOf, Below
  <2> QED BY <2>1, <2>2
<1>10. Ordered(a3 \o Followed(w))
  BY <1>2, <1>8, <1>9, JoinedParts
<1> QED BY <1>10 DEF a1, a2, a3

FateOf(r) ==
    IF r > captured THEN "none"
    ELSE IF r \in inInflux THEN "stored"
    ELSE IF r \in ToSet(file) THEN "durable"
    ELSE IF r \in InMemory THEN "volatile"
    ELSE IF r \in givenUp THEN "dropped"
    ELSE "lost"

LEMMA FatePart == FileInv => \A r \in Readings : influxFate[r] = FateOf(r)
<1> SUFFICES ASSUME FileInv, NEW r \in Readings PROVE influxFate[r] = FateOf(r)
  OBVIOUS
<1>1. file # Torn
  <2>1. << 0 >> \notin Seq(Readings)
    <3> SUFFICES ASSUME << 0 >> \in Seq(Readings) PROVE FALSE
      OBVIOUS
    <3>1. << 0 >>[1] \in Readings
      OBVIOUS
    <3> QED BY <3>1 DEF Readings
  <2> QED BY <2>1 DEF FileInv, Torn
<1> QED BY <1>1 DEF influxFate, FateOf, InMemory

LEMMA FatePartNext == FileInv' => \A r \in Readings : influxFate'[r] = FateOf(r)'
<1> SUFFICES ASSUME FileInv', NEW r \in Readings PROVE influxFate'[r] = FateOf(r)'
  OBVIOUS
<1>1. file' # Torn
  <2>1. << 0 >> \notin Seq(Readings)
    <3> SUFFICES ASSUME << 0 >> \in Seq(Readings) PROVE FALSE
      OBVIOUS
    <3>1. << 0 >>[1] \in Readings
      OBVIOUS
    <3> QED BY <3>1 DEF Readings
  <2> QED BY <2>1 DEF FileInv, Torn
<1> QED BY <1>1 DEF influxFate, FateOf, InMemory

LEMMA InfluxFateMoves ==
  ASSUME StoreInv, Sound, KnownInv', NEW r \in Readings
  PROVE  /\ FateOf(r)' = FateOf(r) \/ <<FateOf(r), FateOf(r)'>> \in Influx!Allowed
         /\ influxFaults["crash"] = influxFaults'["crash"] /\ FateOf(r)' = "lost" => FateOf(r) = "lost"
<1>1. captured \in Nat /\ r \in Nat
  BY InfluxTypeParts DEF StoreInv, InfluxTypeOK, Readings
<1>2. Flow
  BY DEF Sound
<1>3. r \in Here \cup inInflux \cup givenUp => r <= captured
  BY <1>1 DEF StoreInv, KnownInv
<1>4. r \in Here' \cup inInflux' \cup givenUp' => r <= captured'
  BY <1>1, <1>2 DEF KnownInv, Flow
<1> DEFINE F == ToSet(file)
           Fn == ToSet(file')
<1>5. Here = InMemory \cup F /\ Here' = InMemory' \cup Fn
  BY DEF Here, ToSet
<1>6. /\ FateOf(r) = IF r > captured THEN "none"
                     ELSE IF r \in inInflux THEN "stored"
                     ELSE IF r \in F THEN "durable"
                     ELSE IF r \in InMemory THEN "volatile"
                     ELSE IF r \in givenUp THEN "dropped" ELSE "lost"
      /\ FateOf(r)' = IF r > captured' THEN "none"
                      ELSE IF r \in inInflux' THEN "stored"
                      ELSE IF r \in Fn THEN "durable"
                      ELSE IF r \in InMemory' THEN "volatile"
                      ELSE IF r \in givenUp' THEN "dropped" ELSE "lost"
  BY DEF FateOf, ToSet
<1>7. /\ inInflux \subseteq inInflux' /\ inInflux' \subseteq inInflux \cup Here
      /\ givenUp \subseteq givenUp' /\ givenUp' \subseteq givenUp \cup Here
      /\ F \ Fn \subseteq inInflux' \cup (givenUp' \ InMemory')
      /\ influxFaults["crash"] = influxFaults'["crash"] => Here \subseteq Here' \cup inInflux' \cup givenUp'
  BY <1>2 DEF Flow
<1>8. CASE captured' = captured /\ Here' \subseteq Here
  <2> HIDE DEF F, Fn
  <2> QED BY <1>1, <1>5, <1>6, <1>7, <1>8 DEF Influx!Allowed
<1>9. CASE /\ captured' = captured + 1 /\ InMemory' = InMemory \cup {captured + 1}
           /\ UNCHANGED <<file, inInflux, givenUp>>
  <2>1. Fn = F
    BY <1>9
  <2> HIDE DEF F, Fn
  <2>2. CASE r = captured + 1
    BY <1>1, <1>3, <1>5, <1>6, <1>9, <2>1, <2>2 DEF Influx!Allowed
  <2>3. CASE r # captured + 1
    BY <1>1, <1>3, <1>6, <1>9, <2>1, <2>3
  <2> QED BY <2>2, <2>3
<1> QED BY <1>2, <1>8, <1>9 DEF Flow

\* For any number of readings, outages and crashes, any batch and backlog size
\* and with or without the backlog file: the readings a bridge has not written
\* are in the order of their capture, each in one place; what is in the file is
\* written or given up by a rule; and while the process runs none vanishes.
THEOREM InfluxReadingsSurvive == OrderlyUse => (InfluxSpec => ReadingsSurvive)
<1> SUFFICES ASSUME OrderlyUse PROVE InfluxSpec => ReadingsSurvive
  OBVIOUS
<1>1. StoreInv /\ [InfluxNext]_influxVars => StoreInv'
  BY StoreNext
<1>2. ASSUME StoreInv, [InfluxNext]_influxVars
      PROVE  /\ Influx!Next /\ DOMAIN influxFate' = Readings
             /\ influxFaults["crash"] = influxFaults'["crash"] =>
                  \A r \in Readings : influxFate'[r] = "lost" => influxFate[r] = "lost"
  <2>1. Sound /\ KnownInv'
    BY <1>2, SoundNext, StoreNext DEF StoreInv
  <2>2. \A r \in Readings : influxFate[r] = FateOf(r) /\ influxFate'[r] = FateOf(r)'
    <3>1. FileInv /\ FileInv'
      BY <1>2, <2>1 DEF StoreInv, Sound
    <3>2. \A r \in Readings : influxFate[r] = FateOf(r)
      BY <3>1, FatePart
    <3>3. \A r \in Readings : influxFate'[r] = FateOf(r)'
      BY <3>1, FatePartNext
    <3> QED BY <3>2, <3>3
  <2>3. \A r \in Readings :
          /\ FateOf(r)' = FateOf(r) \/ <<FateOf(r), FateOf(r)'>> \in Influx!Allowed
          /\ influxFaults["crash"] = influxFaults'["crash"] /\ FateOf(r)' = "lost" => FateOf(r) = "lost"
    BY <1>2, <2>1, InfluxFateMoves
  <2>4. DOMAIN influxFate' = Readings
    BY DEF influxFate
  <2> QED BY <2>2, <2>3, <2>4 DEF Influx!Next
<1>3. InfluxInit => Influx!Init
  BY InfluxTypeParts DEF InfluxInit, Influx!Init, influxFate, Readings
<1>4. StoreInv /\ [InfluxNext]_influxVars => [Influx!Next /\ DOMAIN influxFate' = Readings]_influxFate
  BY <1>2
<1>5. StoreInv /\ [InfluxNext]_influxVars =>
        [influxFaults["crash"] = influxFaults'["crash"] =>
          \A r \in Readings : influxFate'[r] = "lost" => influxFate[r] = "lost"]_influxVars
  BY <1>2
<1> QED BY StoreInit, StoreIsOrdered, <1>1, <1>3, <1>4, <1>5, PTL
        DEF InfluxSpec, ReadingsSurvive, PointsAreDurable, NoReadingVanishes, Influx!Spec

----------------------------------------------------------------------------
(* The mqtt link: what a session is subscribed to.                         *)

\* The reconnect thread waits only while it has an attempt left, and its reference
\* is cleared by nobody but itself.
LoopInv ==
    /\ ReconnectAttempts = 0 => attempts = 0
    /\ ReconnectAttempts > 0 /\ loop \in {"top", "wait"} => attempts < ReconnectAttempts

\* A session's topics, and those on_connect has still to subscribe, are all those
\* there were when its loop began; without a loop, all there are.
SubscribedInv ==
    /\ topicsSeen \subseteq writeTopics
    /\ sock = "up" /\ alive =>
          /\ subscribed \subseteq writeTopics
          /\ network = "idle" => writeTopics \subseteq subscribed
          /\ network = "resub" => topicsSeen \subseteq subscribed \cup toSubscribe
    /\ toSubscribe \subseteq topicsSeen

LinkInv == MqttLinkTypeOK /\ LoopInv /\ SubscribedInv

LEMMA LinkInitially == MqttInit => LinkInv
<1> SUFFICES ASSUME MqttInit PROVE LinkInv
  OBVIOUS
<1> USE DEF MqttInit
<1>1. {net, alive, mqttOn, loopRef} \subseteq BOOLEAN
  OBVIOUS
<1>2. toSubscribe \cup topicsSeen \cup writeTopics \cup subscribed \subseteq MqttDevices
  OBVIOUS
<1>3. ghosts \in Nat /\ attempts \in 0..ReconnectAttempts /\ linkFailures \in 0..MaxLinkFailures
  BY MqttLinkAssumption
<1>4. MqttLinkTypeOK
  BY <1>1, <1>2, <1>3 DEF MqttLinkTypeOK
<1> QED
  BY <1>4 DEF LinkInv, LoopInv, SubscribedInv

LEMMA LinkFlags ==
  ASSUME {net, alive, mqttOn, loopRef} \subseteq BOOLEAN, [MqttNext]_mqttVars
  PROVE  {net, alive, mqttOn, loopRef}' \subseteq BOOLEAN
<1>1. net \in BOOLEAN /\ alive \in BOOLEAN /\ mqttOn \in BOOLEAN /\ loopRef \in BOOLEAN
  OBVIOUS
<1>2. net' \in BOOLEAN /\ alive' \in BOOLEAN
  BY <1>1 DEF MqttNext, mqttVars, link, PahoDials, Dial, LinkFails, LinkReturns, WillFires, OnConnect,
              ResubscribeNext, OnDisconnect, LoopLooks, LoopDials, LoopJudges, LoopEnds, AddTopic, FinishStart,
              BeginWrite, EndWrite, ExitPublishes, ExitDisconnects, MqttCrash, MqttGone
<1>3. mqttOn' \in BOOLEAN
  BY <1>1 DEF MqttNext, mqttVars, PahoDials, LinkFails, LinkReturns, WillFires, OnConnect,
              ResubscribeNext, OnDisconnect, LoopLooks, LoopDials, LoopJudges, LoopEnds, AddTopic, FinishStart,
              BeginWrite, EndWrite, ExitPublishes, ExitDisconnects, MqttCrash, MqttGone
<1>4. loopRef' \in BOOLEAN
  BY <1>1 DEF MqttNext, mqttVars, reconnecting, StartLoop, PahoDials, LinkFails, LinkReturns,
              WillFires, OnConnect, ResubscribeNext, OnDisconnect, LoopLooks, LoopDials, LoopJudges, LoopEnds,
              AddTopic, FinishStart, BeginWrite, EndWrite, ExitPublishes, ExitDisconnects, MqttCrash,
              MqttGone
<1> QED
  BY <1>2, <1>3, <1>4

LEMMA LinkTypes == MqttLinkTypeOK /\ LoopInv /\ [MqttNext]_mqttVars => MqttLinkTypeOK' /\ LoopInv'
<1> SUFFICES ASSUME MqttLinkTypeOK, LoopInv, [MqttNext]_mqttVars PROVE MqttLinkTypeOK' /\ LoopInv'
  OBVIOUS
<1>0. {net, alive, mqttOn, loopRef}' \subseteq BOOLEAN
  BY LinkFlags DEF MqttLinkTypeOK
<1> USE MqttLinkAssumption DEF MqttLinkTypeOK, LoopInv, link, callbacks, reconnecting
<1>1. CASE PahoDials
  BY <1>0, <1>1 DEF PahoDials, Dial, CallbacksRun, Running
<1>2. CASE LinkFails
  BY <1>0, <1>2 DEF LinkFails
<1>3. CASE LinkReturns
  BY <1>0, <1>3 DEF LinkReturns
<1>4. CASE WillFires
  BY <1>0, <1>4 DEF WillFires
<1>5. CASE OnConnect
  BY <1>0, <1>5 DEF OnConnect, CallbacksRun, Running
<1>6. CASE ResubscribeNext
  BY <1>0, <1>6 DEF ResubscribeNext
<1>7. CASE OnDisconnect
  BY <1>0, <1>7 DEF OnDisconnect, StartLoop
<1>8. CASE LoopLooks \/ LoopDials
  BY <1>0, <1>8 DEF LoopLooks, LoopDials, Dial
<1>9. CASE LoopJudges
  BY <1>0, <1>9 DEF LoopJudges
<1>10. CASE LoopEnds
  BY <1>0, <1>10 DEF LoopEnds
<1>11. CASE \E d \in MqttDevices : AddTopic(d)
  BY <1>0, <1>11 DEF AddTopic
<1>12. CASE FinishStart \/ BeginWrite \/ EndWrite
  BY <1>0, <1>12 DEF FinishStart, BeginWrite, EndWrite
<1>13. CASE ExitPublishes \/ ExitDisconnects \/ MqttCrash
  BY <1>0, <1>13 DEF ExitPublishes, ExitDisconnects, MqttCrash
<1>14. CASE MqttGone \/ UNCHANGED mqttVars
  BY <1>0, <1>14 DEF MqttGone, mqttVars
<1> QED
  BY <1>1, <1>2, <1>3, <1>4, <1>5, <1>6, <1>7, <1>8, <1>9, <1>10, <1>11, <1>12, <1>13, <1>14
  DEF MqttNext

\* A new session starts from the topics there are; a topic added under a loop ends it.
LEMMA SubscribedStep == MqttLinkTypeOK /\ SubscribedInv /\ [MqttNext]_mqttVars => SubscribedInv'
<1> SUFFICES ASSUME MqttLinkTypeOK, SubscribedInv, [MqttNext]_mqttVars PROVE SubscribedInv'
  OBVIOUS
<1> USE DEF SubscribedInv, link, callbacks
<1>1. CASE OnConnect
  BY <1>1 DEF OnConnect
<1>2. CASE ResubscribeNext
  BY <1>2 DEF ResubscribeNext
<1>3. CASE OnDisconnect
  BY <1>3 DEF OnDisconnect
<1>4. CASE \E d \in MqttDevices : AddTopic(d)
  BY <1>4 DEF AddTopic
<1>5. CASE PahoDials \/ LoopDials
  BY <1>5 DEF PahoDials, LoopDials, Dial
<1>6. CASE LinkFails \/ LinkReturns \/ WillFires \/ LoopLooks \/ LoopJudges \/ LoopEnds
  BY <1>6 DEF LinkFails, LinkReturns, WillFires, LoopLooks, LoopJudges, LoopEnds
<1>7. CASE FinishStart \/ BeginWrite \/ EndWrite \/ ExitPublishes \/ ExitDisconnects \/ MqttCrash
  BY <1>7 DEF FinishStart, BeginWrite, EndWrite, ExitPublishes, ExitDisconnects, MqttCrash
<1>8. CASE MqttGone \/ UNCHANGED mqttVars
  BY <1>8 DEF MqttGone, mqttVars
<1> QED
  BY <1>1, <1>2, <1>3, <1>4, <1>5, <1>6, <1>7, <1>8 DEF MqttNext

\* However sessions are lost and dialled by two threads, and topics added while one
\* is set up (on_connect, init_bridge(), _reconnect_loop()): a connected session
\* that has been set up is subscribed to all the write topics.
THEOREM SessionsAreWhole == MqttSpec => [](MqttLinkTypeOK /\ ServedIsSubscribed)
<1>1. MqttInit => LinkInv
  BY LinkInitially
<1>2. LinkInv /\ [MqttNext]_mqttVars => LinkInv'
  BY LinkTypes, SubscribedStep DEF LinkInv
<1>3. LinkInv => MqttLinkTypeOK /\ ServedIsSubscribed
  BY DEF LinkInv, SubscribedInv, ServedIsSubscribed, Serving
<1> QED
  BY <1>1, <1>2, <1>3, PTL DEF MqttSpec

\* The parts of MCDelivery together: whatever they do, each keeps the types of its
\* variables (write_data() and flushes, mqtt's callbacks, the read paths).
THEOREM DeliveryIsTyped == PartSpec => []DeliveryTypeOK
<1> DEFINE Typed == InfluxTypeOK /\ MqttLinkTypeOK /\ LoopInv /\ RegisterReadsTypeOK
<1>1. PartInit => Typed
  BY InfluxTypeInit, LinkInitially, ReadsTypeInit DEF PartInit, LinkInv
<1>2. Typed /\ [PartNext]_partVars => Typed'
  <2>1. Typed /\ [PartNext]_partVars =>
          [InfluxNext]_influxVars /\ [MqttNext]_mqttVars /\ [RegisterReadsNext]_readVars
    BY DEF PartNext, partVars
  <2> QED
    BY <2>1, InfluxTypeNext, LinkTypes, ReadsTypeNext
<1>3. Typed => DeliveryTypeOK
  BY DEF DeliveryTypeOK
<1> QED
  BY <1>1, <1>2, <1>3, PTL DEF PartSpec
=============================================================================
