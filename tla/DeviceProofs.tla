---------------------------- MODULE DeviceProofs ----------------------------
(***************************************************************************)
(* What a device is and what is asked of it, for any number of files,      *)
(* modules, entries, registers, transports, failed reads and reloads: the  *)
(* map of its registers, from its file to what is delivered, the identity  *)
(* of an EG4 device, the start-up of a Modbus transport, the writes, the   *)
(* chunks of its table, and the parts together.                            *)
(***************************************************************************)
EXTENDS MCDevices, InductionLemmas

----------------------------------------------------------------------------
(* From a file to a map. *)

\* A map with nothing but entries of a file in it.
Rows(m, last) ==
    /\ m \in Seq(Entry)
    /\ \A e \in Range(m) :
          /\ e.source = NoName /\ e.var[1] # "" /\ e.var[2] # "desc"
          /\ EndRegister(e) <= last
          /\ \A r \in Range(e.list) : e.register <= r
          /\ e.cat # <<>> => e.list = <<>>
          /\ PartsAreThere(e, m)
          /\ \A d \in Range(m) :
                /\ d.register = e.register /\ d.var[1] = e.var[1] => d.readable = e.readable
                /\ e.doc[2] = "h" => d.doc # <<e.doc[1], "">>

\* An entry needs the registers from its own to its end.
LEMMA EntryEnds ==
  ASSUME NEW e \in Entry, \A r \in Range(e.list) : e.register <= r
  PROVE  /\ EndRegister(e) \in Nat /\ e.register \in Nat /\ e.register <= EndRegister(e)
         /\ \A r \in Range(e.list) : r \in e.register..EndRegister(e)
         /\ e.list = <<>> /\ e.cat = <<>> => EndRegister(e) = e.register + WordsOf(e.type) - 1
<1>1. e.register \in Nat /\ e.list \in Seq(Nat) /\ e.cat \in Seq(Nat)
  BY DEF Entry
<1>2. CASE e.list # <<>>
  <2>1. PICK b \in Nat : \A i \in DOMAIN e.list : e.list[i] <= b
    BY <1>1, BoundOfSequence
  <2>2. Range(e.list) \subseteq Nat /\ Head(e.list) \in Range(e.list)
    BY <1>1, <1>2, HeadAndTail
  <2>3. \A i \in Range(e.list) : i <= b
    BY <2>1 DEF Range
  <2>4. Max(Range(e.list)) \in Range(e.list) /\ \A i \in Range(e.list) : i <= Max(Range(e.list))
    BY <2>1, <2>2, <2>3, LeastAndGreatest
  <2> QED
    BY <1>1, <1>2, <2>2, <2>4 DEF EndRegister
<1>3. CASE e.list = <<>>
  <2>1. Range(e.list) = {}
    BY <1>3 DEF Range
  <2>2. e.cat # <<>> => Len(e.cat) \in Nat \ {0}
    BY <1>1
  <2>3. WordsOf(e.type) \in Nat \ {0}
    BY DEF WordsOf
  <2>4. WordCount(e) \in Nat \ {0} /\ (e.cat = <<>> => WordCount(e) = WordsOf(e.type))
    BY <1>3, <2>2, <2>3 DEF WordCount
  <2>5. EndRegister(e) = e.register + WordCount(e) - 1
    BY <1>3 DEF EndRegister
  <2> QED
    BY <1>1, <1>3, <2>1, <2>4, <2>5
<1> QED
  BY <1>2, <1>3

LEMMA KeptIs ==
  ASSUME NEW T, NEW m \in Seq(T), NEW S
  PROVE  Kept(m, S) \in Seq(T) /\ Range(Kept(m, S)) = Range(m) \cap S
<1> DEFINE n == Len(m)
           seqs == [i \in 1..n |-> IF m[i] \in S THEN <<m[i]>> ELSE <<>>]
<1>1. n \in Nat /\ DOMAIN m = 1..n /\ \A i \in 1..n : m[i] \in T
  OBVIOUS
<1>2. seqs \in [1..n -> Seq(T)]
  BY <1>1
<1>3. \A i \in 1..n : Range(seqs[i]) = {m[i]} \cap S
  <2> TAKE i \in 1..n
  <2>1. CASE m[i] \in S
    <3>1. seqs[i] = <<m[i]>> /\ DOMAIN <<m[i]>> = {1} /\ <<m[i]>>[1] = m[i]
      BY <2>1
    <3>2. Range(<<m[i]>>) = {m[i]}
      BY <3>1 DEF Range
    <3> QED
      BY <2>1, <3>1, <3>2
  <2>2. CASE m[i] \notin S
    BY <2>2 DEF Range
  <2> QED
    BY <2>1, <2>2
<1>4. Kept(m, S) = FlattenSeq(seqs)
  BY <1>1 DEF Kept
<1> HIDE DEF n, seqs
<1>5. FlattenSeq(seqs) \in Seq(T) /\ Range(FlattenSeq(seqs)) = UNION {Range(seqs[i]) : i \in 1..n}
  BY <1>1, <1>2, Flattened
<1>6. UNION {Range(seqs[i]) : i \in 1..n} = Range(m) \cap S
  BY <1>1, <1>3 DEF Range
<1> QED
  BY <1>4, <1>5, <1>6

LEMMA JoinedEntry ==
  ASSUME NEW low \in Entry, NEW high \in Entry, Halves(low, high)
  PROVE  LET j == Joined(low, high) IN
         /\ j \in Entry /\ low.doc[2] = "l" /\ high.doc = <<low.doc[1], "h">>
         /\ j.register = low.register /\ j.list = low.list /\ j.cat = low.cat /\ j.source = low.source
         /\ j.readable = low.readable /\ j.every = low.every
         /\ j.doc = <<low.doc[1], "">> /\ j.var[1] = low.var[1] /\ (j.var[2] = low.var[2] \/ j.var[2] = "")
<1> DEFINE type == IF low.type # "USHORT" THEN low.type ELSE IF high.type # "USHORT" THEN high.type ELSE "UINT"
           var == IF low.var = low.doc THEN <<low.var[1], "">> ELSE low.var
           j == [low EXCEPT !.type = type, !.var = var, !.doc = <<low.doc[1], "">>]
<1>1. Joined(low, high) = j
  BY DEF Joined
<1>2. low.doc \in Names /\ low.var \in Names /\ type \in Types
  <2>1. low.type \in Types /\ high.type \in Types /\ "UINT" \in Types
    BY DEF Entry, Types
  <2>2. low.doc \in Names /\ low.var \in Names
    BY DEF Entry
  <2> QED
    BY <2>1, <2>2
<1>3. var \in Names /\ <<low.doc[1], "">> \in Names /\ var[1] = low.var[1] /\ (var[2] = low.var[2] \/ var[2] = "")
  <2>1. \A n \in Names : n[1] \in STRING /\ <<n[1], "">> \in Names /\ <<n[1], "">>[1] = n[1] /\ <<n[1], "">>[2] = ""
    BY DEF Names
  <2>2. CASE low.var = low.doc
    BY <1>2, <2>1, <2>2
  <2>3. CASE low.var # low.doc
    BY <1>2, <2>1, <2>3
  <2> QED
    BY <2>2, <2>3
<1> HIDE DEF type, var
<1>4. j \in Entry
  BY <1>2, <1>3 DEF Entry
<1>5. /\ j.register = low.register /\ j.list = low.list /\ j.cat = low.cat /\ j.source = low.source
      /\ j.readable = low.readable /\ j.every = low.every
      /\ j.doc = <<low.doc[1], "">> /\ j.var = var
  BY DEF Entry
<1> HIDE DEF j
<1> QED
  BY <1>1, <1>3, <1>4, <1>5 DEF Halves

LEMMA RangeOfSequence == ASSUME NEW S, NEW s \in Seq(S) PROVE Range(s) \subseteq S
  BY DEF Range

LEMMA PairsAgree == \A a, b, c, d : <<a, b>> = <<c, d>> => a = c /\ b = d
  OBVIOUS

LEMMA PairIs == ASSUME NEW S, NEW T, NEW n \in S \X T PROVE n = <<n[1], n[2]>>
  OBVIOUS

LEMMA NamesArePairs == \A n \in Names : n = <<n[1], n[2]>>
  BY PairIs, Zenon DEF Names

\* Joining keeps the entries that are no halves, and makes of two halves one.
Uncut(m, i) == ~(i > 1 /\ Halves(m[i - 1], m[i])) /\ ~(i < Len(m) /\ Halves(m[i], m[i + 1]))
LEMMA HalvesJoinedIs ==
  ASSUME NEW m \in Seq(Entry)
  PROVE  LET w == WithHalvesJoined(m) IN
         /\ w \in Seq(Entry)
         /\ \A e \in Range(w) : \E i \in DOMAIN m :
               \/ e = m[i] /\ Uncut(m, i)
               \/ i + 1 \in DOMAIN m /\ Halves(m[i], m[i + 1]) /\ e = Joined(m[i], m[i + 1])
         /\ \A i \in DOMAIN m : m[i].doc[2] \notin {"l", "h"} => m[i] \in Range(w)
<1> DEFINE n == Len(m)
           Second(i) == i > 1 /\ Halves(m[i - 1], m[i])
           First(i) == i < n /\ Halves(m[i], m[i + 1])
           seqs == [i \in 1..n |-> IF Second(i) THEN <<>> ELSE IF First(i) THEN <<Joined(m[i], m[i + 1])>> ELSE <<m[i]>>]
           w == FlattenSeq(seqs)
<1>1. n \in Nat /\ DOMAIN m = 1..n /\ \A i \in 1..n : m[i] \in Entry
  OBVIOUS
<1>2. WithHalvesJoined(m) = w
  BY <1>1 DEF WithHalvesJoined
<1>3. ASSUME NEW i \in 1..n, First(i) PROVE Joined(m[i], m[i + 1]) \in Entry /\ i + 1 \in 1..n
  <2>1. i + 1 \in 1..n
    BY <1>1, <1>3
  <2> QED
    BY <1>1, <1>3, <2>1, JoinedEntry
<1>4. ASSUME NEW e \in Entry PROVE <<e>> \in Seq(Entry) /\ Range(<<e>>) = {e}
  <2>1. DOMAIN <<e>> = {1} /\ <<e>>[1] = e
    OBVIOUS
  <2> QED
    BY <2>1 DEF Range
<1>5. <<>> \in Seq(Entry) /\ Range(<<>>) = {}
  BY DEF Range
<1>6. seqs \in [1..n -> Seq(Entry)]
  <2> HIDE DEF Second, First
  <2> QED
    BY <1>1, <1>3, <1>4, <1>5
<1>7. \A i \in 1..n : Range(seqs[i]) =
        IF Second(i) THEN {} ELSE IF First(i) THEN {Joined(m[i], m[i + 1])} ELSE {m[i]}
  <2> HIDE DEF Second, First
  <2> QED
    BY <1>1, <1>3, <1>4, <1>5
<1>8. w \in Seq(Entry) /\ Range(w) = UNION {Range(seqs[i]) : i \in 1..n}
  <2> HIDE DEF seqs
  <2> QED
    BY <1>1, <1>6, Flattened
<1> HIDE DEF seqs, w
<1>9. \A i \in 1..n : Uncut(m, i) <=> ~Second(i) /\ ~First(i)
  BY DEF Uncut
<1>10. \A i \in 1..n : First(i) => Halves(m[i], m[i + 1])
  OBVIOUS
<1>11. ASSUME NEW i \in 1..n, m[i].doc[2] \notin {"l", "h"} PROVE ~Second(i) /\ ~First(i)
  <2>1. ~First(i)
    BY <1>11 DEF Halves
  <2>2. ~Second(i)
    <3> SUFFICES ASSUME Second(i) PROVE FALSE
      OBVIOUS
    <3>1. m[i].doc = <<m[i - 1].doc[1], "h">>
      BY DEF Halves
    <3> QED
      BY <1>11, <3>1
  <2> QED
    BY <2>1, <2>2
<1> HIDE DEF Second, First, n
<1>12. \A e \in Range(w) : \E i \in 1..n :
          \/ e = m[i] /\ Uncut(m, i)
          \/ i + 1 \in 1..n /\ Halves(m[i], m[i + 1]) /\ e = Joined(m[i], m[i + 1])
  <2> SUFFICES ASSUME NEW i \in 1..n, NEW e \in Range(seqs[i])
               PROVE  \/ e = m[i] /\ Uncut(m, i)
                      \/ i + 1 \in 1..n /\ Halves(m[i], m[i + 1]) /\ e = Joined(m[i], m[i + 1])
    BY <1>8
  <2> QED
    BY <1>3, <1>7, <1>9, <1>10
<1>13. \A i \in 1..n : m[i].doc[2] \notin {"l", "h"} => m[i] \in Range(w)
  BY <1>7, <1>8, <1>11
<1> QED
  BY <1>1, <1>2, <1>8, <1>12, <1>13

\* So the joined map of a sound file has rows only.
LEMMA FileRows ==
  ASSUME NEW file, SoundFile(file)
  PROVE  Rows(WithHalvesJoined(Parsed(file)), Beyond + LastOf(file))
<1> DEFINE m == Parsed(file)
           w == WithHalvesJoined(m)
           last == Beyond + LastOf(file)
<1>1. m \in Seq(Entry)
  BY DEF SoundFile
<1>2. /\ w \in Seq(Entry)
      /\ \A e \in Range(w) : \E i \in DOMAIN m :
            \/ e = m[i] /\ Uncut(m, i)
            \/ i + 1 \in DOMAIN m /\ Halves(m[i], m[i + 1]) /\ e = Joined(m[i], m[i + 1])
      /\ \A i \in DOMAIN m : m[i].doc[2] \notin {"l", "h"} => m[i] \in Range(w)
  BY <1>1, HalvesJoinedIs
<1>3. DOMAIN m = 1..Len(m) /\ Len(m) \in Nat /\ \A i \in DOMAIN m : m[i] \in Entry /\ m[i] \in Range(m)
  <2>1. DOMAIN m = 1..Len(m) /\ Len(m) \in Nat /\ \A i \in DOMAIN m : m[i] \in Entry
    BY <1>1
  <2> QED
    BY <2>1 DEF Range
<1>4. /\ \A e \in Range(m) :
            /\ e.source = NoName /\ e.var[1] # "" /\ e.var[2] # "desc"
            /\ EndRegister(e) <= last
            /\ \A r \in Range(e.list) : e.register <= r
            /\ e.cat # <<>> => e.list = <<>> /\ e.doc[2] \notin {"l", "h"}
            /\ PartsAreThere(e, m)
            /\ \A d \in Range(m) :
                  /\ d.register = e.register /\ d.var[1] = e.var[1] => d.readable = e.readable
                  /\ e.doc[2] = "h" => d.doc # <<e.doc[1], "">>
      /\ \A i, j \in DOMAIN m : m[i].doc = m[j].doc /\ m[i].doc[2] \in {"l", "h"} => i = j
      /\ \A i \in DOMAIN m : i < Len(m) /\ Halves(m[i], m[i + 1]) => EndRegister(Joined(m[i], m[i + 1])) <= last
  BY Zenon DEF SoundFile
<1> HIDE DEF m, w, last
\* Each entry of the joined map, and the row it is of.
<1> DEFINE Of(e, o) == /\ e.register = o.register /\ e.list = o.list /\ e.cat = o.cat /\ e.source = o.source
                       /\ e.readable = o.readable /\ e.every = o.every
                       /\ e.var[1] = o.var[1] /\ (e.var[2] = o.var[2] \/ e.var[2] = "")
<1>5. ASSUME NEW e \in Range(w)
      PROVE  \E i \in DOMAIN m :
                /\ Of(e, m[i])
                /\ \/ e = m[i] /\ Uncut(m, i)
                   \/ /\ i + 1 \in DOMAIN m /\ Halves(m[i], m[i + 1]) /\ e = Joined(m[i], m[i + 1])
                      /\ m[i].doc[2] = "l" /\ m[i + 1].doc = <<m[i].doc[1], "h">> /\ e.doc = <<m[i].doc[1], "">>
  <2>1. PICK i \in DOMAIN m :
            \/ e = m[i] /\ Uncut(m, i)
            \/ i + 1 \in DOMAIN m /\ Halves(m[i], m[i + 1]) /\ e = Joined(m[i], m[i + 1])
    BY <1>2
  <2>2. CASE e = m[i] /\ Uncut(m, i)
    BY <2>2
  <2>3. CASE i + 1 \in DOMAIN m /\ Halves(m[i], m[i + 1]) /\ e = Joined(m[i], m[i + 1])
    <3>1. m[i] \in Entry /\ m[i + 1] \in Entry
      BY <1>3, <2>3
    <3>2. Of(e, m[i]) /\ m[i].doc[2] = "l" /\ m[i + 1].doc = <<m[i].doc[1], "h">> /\ e.doc = <<m[i].doc[1], "">>
      BY <2>3, <3>1, JoinedEntry
    <3> HIDE DEF Of
    <3> QED
      BY <2>3, <3>2
  <2> QED
    BY <2>1, <2>2, <2>3
<1>6. ASSUME NEW e \in Range(w)
      PROVE  /\ e.source = NoName /\ e.var[1] # "" /\ e.var[2] # "desc" /\ EndRegister(e) <= last
             /\ \A r \in Range(e.list) : e.register <= r
             /\ e.cat # <<>> => e.list = <<>>
             /\ PartsAreThere(e, w)
  <2>1. PICK i \in DOMAIN m :
                /\ Of(e, m[i])
                /\ \/ e = m[i] /\ Uncut(m, i)
                   \/ /\ i + 1 \in DOMAIN m /\ Halves(m[i], m[i + 1]) /\ e = Joined(m[i], m[i + 1])
                      /\ m[i].doc[2] = "l"
    BY <1>5
  <2>2. m[i] \in Range(m)
    BY <1>3
  <2>3. EndRegister(e) <= last
    <3>1. i + 1 \in DOMAIN m => i < Len(m)
      BY <1>3
    <3> QED
      BY <1>4, <2>1, <2>2, <3>1
  <2>4. ASSUME NEW r \in Range(e.cat)
        PROVE  \E d \in Range(w) :
                  d.register = r /\ d.cat # <<>> /\ d.doc = e.doc /\ d.var = e.var /\ d.every = e.every /\ d.readable = e.readable
    <3>1. e.cat # <<>>
      BY <2>4 DEF Range
    <3>2. e = m[i] /\ m[i].doc[2] \notin {"l", "h"}
      BY <1>4, <2>1, <2>2, <3>1
    <3>3. PICK d \in Range(m) :
              d.register = r /\ d.cat # <<>> /\ d.doc = e.doc /\ d.var = e.var /\ d.every = e.every /\ d.readable = e.readable
      <4>1. PartsAreThere(e, m) /\ e \in Range(m)
        BY <1>4, <2>2, <3>2
      <4> QED
        BY <2>4, <4>1 DEF PartsAreThere
    <3>4. d \in Range(w)
      BY <1>2, <3>2, <3>3 DEF Range
    <3> QED
      BY <3>3, <3>4
  <2>5. PartsAreThere(e, w)
    BY <2>4 DEF PartsAreThere
  <2> QED
    BY <1>4, <2>1, <2>2, <2>3, <2>5
<1>7. ASSUME NEW e \in Range(w), NEW d \in Range(w), d.register = e.register, d.var[1] = e.var[1]
      PROVE  d.readable = e.readable
  <2>1. PICK i \in DOMAIN m : Of(e, m[i])
    BY <1>5
  <2>2. PICK j \in DOMAIN m : Of(d, m[j])
    BY <1>5
  <2>3. m[i] \in Range(m) /\ m[j] \in Range(m)
    BY <1>3
  <2>4. m[j].register = m[i].register /\ m[j].var[1] = m[i].var[1]
    BY <1>7, <2>1, <2>2
  <2>5. m[j].readable = m[i].readable
    BY <1>4, <2>3, <2>4
  <2> QED
    BY <2>1, <2>2, <2>5
<1>8. ASSUME NEW e \in Range(w), NEW d \in Range(w), e.doc[2] = "h", d.doc = <<e.doc[1], "">>
      PROVE  FALSE
  <2>1. PICK i \in DOMAIN m : e = m[i] /\ Uncut(m, i)
    <3>1. \A a : <<a, "">>[2] # "h"
      OBVIOUS
    <3> HIDE DEF Of
    <3> QED
      BY <1>5, <1>8, <3>1
  <2>2. CASE \E j \in DOMAIN m : d = m[j]
    BY <1>3, <1>4, <1>8, <2>1, <2>2
  <2>3. CASE \E j \in DOMAIN m :
                /\ j + 1 \in DOMAIN m /\ Halves(m[j], m[j + 1])
                /\ m[j + 1].doc = <<m[j].doc[1], "h">> /\ d.doc = <<m[j].doc[1], "">>
    <3>1. PICK j \in DOMAIN m :
                /\ j + 1 \in DOMAIN m /\ Halves(m[j], m[j + 1])
                /\ m[j + 1].doc = <<m[j].doc[1], "h">> /\ d.doc = <<m[j].doc[1], "">>
      BY <2>3
    <3>2. m[j].doc[1] = e.doc[1]
      <4>1. <<m[j].doc[1], "">> = <<e.doc[1], "">>
        BY <1>8, <3>1, Zenon
      <4> QED
        BY <4>1, PairsAgree, Zenon
    <3>3. e.doc \in Names
      BY <1>3, <2>1 DEF Entry
    <3>4. e.doc = <<e.doc[1], "h">>
      BY <1>8, <3>3, NamesArePairs
    <3>5. m[j + 1].doc = m[i].doc /\ m[i].doc[2] = "h"
      BY <1>8, <2>1, <3>1, <3>2, <3>4
    <3>6. j + 1 = i
      BY <1>4, <3>1, <3>5
    <3>7. i > 1 /\ i - 1 = j
      BY <1>3, <3>6
    <3> QED
      BY <2>1, <3>1, <3>6, <3>7 DEF Uncut
  <2> QED
    BY <1>5, <2>2, <2>3
<1>9. Rows(w, last)
  BY <1>2, <1>6, <1>7, <1>8, Zenon DEF Rows
<1> QED
  BY <1>9 DEF m, w, last

\* Rows that are named like one another stay together.
LEMMA SomeRows ==
  ASSUME NEW m, NEW last, Rows(m, last), NEW k \in Seq(Entry), Range(k) \subseteq Range(m),
         \A e \in Range(k) : \A d \in Range(m) : d.doc = e.doc /\ d.var = e.var => d \in Range(k)
  PROVE  Rows(k, last)
<1>1. ASSUME NEW e \in Range(k) PROVE PartsAreThere(e, k)
  <2>1. PartsAreThere(e, m)
    BY <1>1 DEF Rows
  <2> QED
    BY <1>1, <2>1 DEF PartsAreThere
<1> QED
  BY <1>1 DEF Rows

\* Of the filters, the mask wins: its names are kept, or those of the screen are not.
Selected(e, f) == IF f.mask # {} THEN NamedIn(e, f.mask) ELSE ~NamedIn(e, f.screen)
LEMMA FilteredIs ==
  ASSUME NEW m, NEW last, Rows(m, last), NEW f
  PROVE  /\ Rows(Filtered(m, f), last) /\ Range(Filtered(m, f)) \subseteq Range(m)
         /\ \A e \in Range(Filtered(m, f)) : Selected(e, f)
<1>1. m \in Seq(Entry)
  BY DEF Rows
<1>2. \A names : \A e, d \in Range(m) : d.doc = e.doc /\ d.var = e.var => (NamedIn(d, names) <=> NamedIn(e, names))
  BY DEF NamedIn
<1>3. CASE f.mask # {}
  <2> DEFINE S == {e \in Range(m) : NamedIn(e, f.mask)}
             k == Kept(m, S)
  <2>1. Filtered(m, f) = k
    BY <1>3 DEF Filtered
  <2>2. k \in Seq(Entry) /\ Range(k) = Range(m) \cap S
    BY <1>1, KeptIs
  <2> HIDE DEF k
  <2>3. Rows(k, last)
    BY <1>2, <2>2, SomeRows
  <2> QED
    BY <1>3, <2>1, <2>2, <2>3 DEF Selected
<1>4. CASE f.mask = {} /\ f.screen = {}
  <2>1. Filtered(m, f) = m
    BY <1>4 DEF Filtered
  <2> QED
    BY <1>4, <2>1 DEF Selected, NamedIn
<1>5. CASE f.mask = {} /\ f.screen # {} /\ \E e \in Range(m) : NamedIn(e, f.screen)
  <2> DEFINE S == {e \in Range(m) : ~NamedIn(e, f.screen)}
             k == Kept(m, S)
  <2>1. Filtered(m, f) = k
    BY <1>5 DEF Filtered
  <2>2. k \in Seq(Entry) /\ Range(k) = Range(m) \cap S
    BY <1>1, KeptIs
  <2> HIDE DEF k
  <2>3. Rows(k, last)
    BY <1>2, <2>2, SomeRows
  <2> QED
    BY <1>5, <2>1, <2>2, <2>3 DEF Selected
<1>6. CASE f.mask = {} /\ f.screen # {} /\ ~\E e \in Range(m) : NamedIn(e, f.screen)
  <2>1. Filtered(m, f) = <<>> /\ Range(<<>>) = {} /\ <<>> \in Seq(Entry)
    BY <1>6 DEF Filtered, Range
  <2>2. Rows(<<>>, last)
    BY <2>1, SomeRows
  <2> QED
    BY <2>1, <2>2
<1> QED
  BY <1>3, <1>4, <1>5, <1>6

\* A description is at the register of its value, and is not read.
Describes(e, s) ==
    /\ e.source = s.var /\ e.register = s.register /\ e.list = <<>> /\ e.cat = <<>> /\ e.type = "STRING"
    /\ ~e.readable /\ e.doc[2] = "desc" /\ e.var[2] = "desc" /\ \A d : <<d, "">> # e.doc
LEMMA DescribedIs ==
  ASSUME NEW m \in Seq(Entry), NEW f
  PROVE  /\ Described(m, f) \in Seq(Entry) /\ Range(m) \subseteq Range(Described(m, f))
         /\ \A e \in Range(Described(m, f)) : e \in Range(m) \/ \E s \in Range(m) : Describes(e, s)
<1> DEFINE names == {e.var : e \in Range(m)}
           desc(e) == <<e.var[1], "desc">>
           S == {e \in Range(m) : e.codes /\ desc(e) \notin names \cup f.screen}
           new == Kept(m, S)
           as(e) == [e EXCEPT !.doc = <<@[1], "desc">>, !.var = desc(e), !.source = e.var, !.list = <<>>,
                              !.cat = <<>>, !.type = "STRING", !.codes = FALSE, !.readable = FALSE]
           more == [i \in DOMAIN new |-> as(new[i])]
<1>1. Described(m, f) = m \o more
  BY DEF Described
<1>2. new \in Seq(Entry) /\ Range(new) \subseteq Range(m)
  BY KeptIs
<1> HIDE DEF new
<1>3. ASSUME NEW e \in Entry PROVE as(e) \in Entry /\ Describes(as(e), e)
  <2>1. e.doc \in Names /\ e.var \in Names
    BY DEF Entry
  <2>2. \A n \in Names : <<n[1], "desc">> \in Names
    BY DEF Names
  <2>3. <<e.doc[1], "desc">> \in Names /\ desc(e) \in Names
    BY <2>1, <2>2
  <2>4. "STRING" \in Types /\ <<>> \in Seq(Nat)
    BY DEF Types
  <2> DEFINE a == <<e.doc[1], "desc">>
             b == desc(e)
             r == [e EXCEPT !.doc = a, !.var = b, !.source = e.var, !.list = <<>>,
                            !.cat = <<>>, !.type = "STRING", !.codes = FALSE, !.readable = FALSE]
  <2>5. as(e) = r
    OBVIOUS
  <2>6. a[2] = "desc" /\ b[2] = "desc" /\ \A d : <<d, "">> # a
    OBVIOUS
  <2> HIDE DEF a, b
  <2>7. a \in Names /\ b \in Names
    BY <2>3 DEF a, b
  <2>8. r \in Entry
    BY <2>1, <2>4, <2>7 DEF Entry
  <2>9. /\ r.source = e.var /\ r.register = e.register /\ r.list = <<>> /\ r.cat = <<>> /\ r.type = "STRING"
        /\ r.readable = FALSE /\ r.doc = a /\ r.var = b
    BY DEF Entry
  <2> HIDE DEF r
  <2>10. Describes(r, e)
    BY <2>6, <2>9 DEF Describes
  <2> HIDE DEF as
  <2> QED
    BY <2>5, <2>8, <2>10
<1> HIDE DEF as
<1>4. new \in Seq(Entry) /\ DOMAIN new = 1..Len(new) /\ Len(new) \in Nat /\ \A i \in DOMAIN new : new[i] \in Entry
  BY <1>2
<1>5. more \in Seq(Entry) /\ DOMAIN more = DOMAIN new /\ \A i \in DOMAIN new : more[i] = as(new[i])
  <2>1. \A i \in DOMAIN new : as(new[i]) \in Entry
    BY <1>3, <1>4
  <2>2. more \in [1..Len(new) -> Entry]
    BY <1>4, <2>1
  <2>3. DOMAIN more = DOMAIN new /\ \A i \in DOMAIN new : more[i] = as(new[i])
    OBVIOUS
  <2> HIDE DEF more
  <2>4. more \in Seq(Entry)
    BY <1>4, <2>2
  <2> QED
    BY <2>3, <2>4
<1> HIDE DEF more
<1>6. m \o more \in Seq(Entry) /\ Range(m \o more) = Range(m) \cup Range(more)
  BY <1>5, JoinedRange
<1>7. \A e \in Range(more) : \E s \in Range(m) : Describes(e, s)
  <2> SUFFICES ASSUME NEW i \in DOMAIN new PROVE \E s \in Range(m) : Describes(more[i], s)
    BY <1>5 DEF Range
  <2>1. new[i] \in Range(m)
    BY <1>2 DEF Range
  <2> QED
    BY <1>3, <1>4, <1>5, <2>1
<1> QED
  BY <1>1, <1>6, <1>7

\* What load__registry() makes of a sound file and any filters.
Served(m, f, last) ==
    /\ m \in Seq(Entry)
    /\ \A e \in Range(m) :
          /\ EndRegister(e) <= last
          /\ \A r \in Range(e.list) : e.register <= r
          /\ e.cat # <<>> => e.list = <<>>
          /\ e.readable => e.source = NoName /\ PartsAreThere(e, m)
          /\ e.source = NoName => Selected(e, f) /\ e.var[1] # ""
          /\ e.source # NoName => e.var[2] = "desc" /\ \E s \in Range(m) : s.var = e.source /\ s.source = NoName
          /\ e.doc[2] = "h" => \A d \in Range(m) : d.doc # <<e.doc[1], "">>
LEMMA LoadedIs ==
  ASSUME NEW file, SoundFile(file), NEW f
  PROVE  Served(LoadedMap(file, f), f, Beyond + LastOf(file))
<1> DEFINE last == Beyond + LastOf(file)
           m == Filtered(WithHalvesJoined(Parsed(file)), f)
           w == Described(m, f)
<1>1. LoadedMap(file, f) = w
  BY DEF LoadedMap
<1>2. Rows(m, last) /\ \A e \in Range(m) : Selected(e, f)
  BY FileRows, FilteredIs
<1> HIDE DEF m, last
<1>3. m \in Seq(Entry)
  BY <1>2 DEF Rows
<1>4. w \in Seq(Entry) /\ Range(m) \subseteq Range(w) /\ \A e \in Range(w) : e \in Range(m) \/ \E s \in Range(m) : Describes(e, s)
  BY <1>3, DescribedIs
<1> HIDE DEF w
<1>5. \A e \in Range(w) : e \in Entry
  BY <1>4, RangeOfSequence
<1>6. ASSUME NEW e \in Range(m)
      PROVE  /\ EndRegister(e) <= last /\ e.source = NoName /\ Selected(e, f) /\ e.var[1] # ""
             /\ \A r \in Range(e.list) : e.register <= r
             /\ e.cat # <<>> => e.list = <<>>
             /\ PartsAreThere(e, m)
             /\ e.doc[2] = "h" => \A d \in Range(m) : d.doc # <<e.doc[1], "">>
  BY <1>2, <1>6 DEF Rows
<1>7. ASSUME NEW e \in Range(m) PROVE PartsAreThere(e, w)
  <2>1. PartsAreThere(e, m)
    BY <1>6
  <2> QED
    BY <1>4, <2>1 DEF PartsAreThere
<1>8. ASSUME NEW e \in Range(w), NEW s \in Range(m), Describes(e, s)
      PROVE  /\ EndRegister(e) <= last /\ e.source # NoName /\ ~e.readable /\ Range(e.list) = {} /\ e.cat = <<>>
             /\ e.var[2] = "desc" /\ s \in Range(w) /\ s.var = e.source /\ s.source = NoName /\ e.doc[2] # "h"
  <2>1. s \in Entry /\ e \in Entry /\ s \in Range(w)
    BY <1>4, <1>5
  <2>2. EndRegister(s) \in Nat /\ s.register \in Nat /\ s.register <= EndRegister(s)
    BY <1>6, <2>1, EntryEnds
  <2>3. /\ e.source = s.var /\ e.register = s.register /\ e.list = <<>> /\ e.cat = <<>> /\ e.type = "STRING"
        /\ ~e.readable /\ e.doc[2] = "desc" /\ e.var[2] = "desc"
    BY <1>8, Zenon DEF Describes
  <2>4. EndRegister(e) = e.register
    <3>1. WordCount(e) = WordsOf(e.type)
      BY <2>3 DEF WordCount
    <3>2. WordCount(e) = 1
      BY <2>3, <3>1 DEF WordsOf
    <3>3. EndRegister(e) = e.register + WordCount(e) - 1
      BY <2>3 DEF EndRegister
    <3> QED
      BY <2>2, <2>3, <3>2, <3>3
  <2>5. e.source # NoName
    <3>1. NoName[1] = ""
      BY DEF NoName
    <3> QED
      BY <1>6, <2>3, <3>1
  <2>6. EndRegister(e) <= last
    <3>1. LastOf(file) \in Nat /\ Beyond \in Nat
      BY RegisterMapAssumption, Zenon DEF SoundFile
    <3>2. last \in Nat
      BY <3>1 DEF last
    <3>3. EndRegister(s) <= last
      BY <1>6
    <3> QED
      BY <2>2, <2>3, <2>4, <3>2, <3>3
  <2>7. Range(e.list) = {}
    BY <2>3 DEF Range
  <2> QED
    BY <1>6, <2>1, <2>3, <2>5, <2>6, <2>7
<1>9. ASSUME NEW e \in Range(m), e.doc[2] = "h", NEW d \in Range(w) PROVE d.doc # <<e.doc[1], "">>
  BY <1>4, <1>6, <1>9 DEF Describes
<1>10. ASSUME NEW e \in Range(w)
       PROVE  /\ EndRegister(e) <= last
              /\ \A r \in Range(e.list) : e.register <= r
              /\ e.cat # <<>> => e.list = <<>>
              /\ e.readable => e.source = NoName /\ PartsAreThere(e, w)
              /\ e.source = NoName => Selected(e, f) /\ e.var[1] # ""
              /\ e.source # NoName => e.var[2] = "desc" /\ \E s \in Range(w) : s.var = e.source /\ s.source = NoName
              /\ e.doc[2] = "h" => \A d \in Range(w) : d.doc # <<e.doc[1], "">>
  <2>1. CASE e \in Range(m)
    BY <1>6, <1>7, <1>9, <2>1
  <2>2. CASE \E s \in Range(m) : Describes(e, s)
    BY <1>8, <2>2
  <2> QED
    BY <1>4, <2>1, <2>2
<1> QED
  BY <1>1, <1>4, <1>10, Zenon DEF Served, last

\* Two members with one file agree on what can be read, whatever their filters.
LEMMA LoadedAgree ==
  ASSUME NEW file, SoundFile(file), NEW f, NEW g,
         NEW e \in Range(LoadedMap(file, f)), NEW d \in Range(LoadedMap(file, g)),
         e.register = d.register, e.var = d.var
  PROVE  e.readable = d.readable
<1> DEFINE w == WithHalvesJoined(Parsed(file))
           last == Beyond + LastOf(file)
<1>1. Rows(w, last)
  BY FileRows
<1> HIDE DEF w, last
<1>2. ASSUME NEW h, NEW x \in Range(LoadedMap(file, h))
      PROVE  (x \in Range(w) /\ x.var[2] # "desc") \/ (x.var[2] = "desc" /\ x.readable = FALSE)
  <2> DEFINE m == Filtered(w, h)
  <2>1. Rows(m, last) /\ Range(m) \subseteq Range(w)
    BY <1>1, FilteredIs
  <2> HIDE DEF m
  <2>2. m \in Seq(Entry)
    BY <2>1 DEF Rows
  <2>3. x \in Range(Described(m, h))
    BY <1>2 DEF LoadedMap, m, w
  <2>4. x \in Range(m) \/ \E s \in Range(m) : Describes(x, s)
    BY <2>2, <2>3, DescribedIs
  <2>5. Described(m, h) \in Seq(Entry)
    BY <2>2, DescribedIs
  <2>6. x.readable \in BOOLEAN
    BY <2>3, <2>5, RangeOfSequence DEF Entry
  <2> QED
    BY <1>1, <2>1, <2>4, <2>6 DEF Rows, Describes
<1>3. CASE e.var[2] = "desc"
  BY <1>2, <1>3
<1>4. CASE e.var[2] # "desc"
  <2>1. e \in Range(w) /\ d \in Range(w)
    BY <1>2, <1>4
  <2> QED
    BY <1>1, <2>1 DEF Rows
<1> QED
  BY <1>3, <1>4

----------------------------------------------------------------------------
(* From a map to the ranges of a cycle. *)

LEMMA JoinedPairs ==
  ASSUME NEW n \in Nat, NEW seqs \in [1..n -> Seq(Nat \X Nat)]
  PROVE  FlattenSeq(seqs) \in Seq(Nat \X Nat) /\ Range(FlattenSeq(seqs)) = UNION {Range(seqs[i]) : i \in 1..n}
  BY Flattened

\* calculate_registry_ranges() covers every entry that can be read, and asks for no register
\* that none of them needs.
LEMMA PlannedRanges ==
  ASSUME NEW es, NEW last \in Nat, NEW top \in Nat,
         \A e \in es : /\ e.register \in Nat /\ EndRegister(e) \in Nat /\ EndRegister(e) <= last
                       /\ e.readable => e.register <= top
  PROVE  /\ RangesFor(es, top) \in Seq(Nat \X Nat)
         /\ \A r \in Range(RangesFor(es, top)) : r[2] <= last
         /\ \A e \in es : e.readable =>
               \E r \in Range(RangesFor(es, top)) : r[1] <= e.register /\ EndRegister(e) <= r[2]
<1> DEFINE n == top \div BatchSize + 1
           In(i) == InWindow(es, i - 1)
           seqs == [i \in 1..n |-> IF In(i) = {} THEN <<>> ELSE <<Span(In(i))>>]
<1>1. BatchSize \in Nat \ {0} /\ top \div BatchSize \in Nat /\ n \in Nat
  <2>1. BatchSize \in Nat \ {0}
    BY RegisterMapAssumption
  <2> QED
    BY <2>1
<1>2. ASSUME NEW ws \in SUBSET es, ws # {}
      PROVE  /\ Span(ws) \in Nat \X Nat /\ Span(ws)[2] <= last
             /\ \A e \in ws : Span(ws)[1] <= e.register /\ EndRegister(e) <= Span(ws)[2]
  <2> DEFINE A == {e.register : e \in ws}
             B == {EndRegister(e) : e \in ws}
  <2>1. B \in SUBSET Nat /\ B # {} /\ \A i \in B : i <= last
    BY <1>2
  <2>2. Max(B) \in B /\ \A i \in B : i <= Max(B)
    BY <2>1, LeastAndGreatest
  <2>3. A \in SUBSET Nat /\ A # {}
    BY <1>2
  <2>4. Min(A) \in A /\ \A i \in A : Min(A) <= i
    <3>1. \E z \in A : \A j \in A : z <= j
      BY <2>3, LeastNumber
    <3> QED
      BY <3>1 DEF Min
  <2>5. Span(ws) = <<Min(A), Max(B)>>
    BY DEF Span
  <2>6. \A e \in ws : e.register \in A /\ EndRegister(e) \in B
    OBVIOUS
  <2>7. Min(A) \in Nat /\ Max(B) \in Nat /\ Max(B) <= last
    BY <2>1, <2>2, <2>3, <2>4
  <2>8. \A e \in ws : Min(A) <= e.register /\ EndRegister(e) <= Max(B)
    <3> HIDE DEF A, B
    <3> QED
      BY <2>2, <2>4, <2>6
  <2> DEFINE a == Min(A)
             b == Max(B)
  <2>9. Span(ws) = <<a, b>>
    BY <2>5
  <2>10. a \in Nat /\ b \in Nat /\ b <= last
    BY <2>7
  <2>11. \A e \in ws : a <= e.register /\ EndRegister(e) <= b
    BY <2>8
  <2> HIDE DEF a, b
  <2> QED
    BY <2>9, <2>10, <2>11
<1>3. \A i \in 1..n : In(i) \in SUBSET es
  BY DEF InWindow
<1> HIDE DEF n, In
<1>4. ASSUME NEW p \in Nat \X Nat PROVE <<p>> \in Seq(Nat \X Nat) /\ Range(<<p>>) = {p}
  <2>1. DOMAIN <<p>> = {1} /\ <<p>>[1] = p
    OBVIOUS
  <2> QED
    BY <2>1 DEF Range
<1>5. <<>> \in Seq(Nat \X Nat) /\ Range(<<>>) = {}
  BY DEF Range
<1>6. seqs \in [1..n -> Seq(Nat \X Nat)]
  BY <1>2, <1>3, <1>4, <1>5
<1>7. \A i \in 1..n : Range(seqs[i]) = IF In(i) = {} THEN {} ELSE {Span(In(i))}
  BY <1>2, <1>3, <1>4, <1>5
<1>8. RangesFor(es, top) = FlattenSeq(seqs)
  BY DEF RangesFor, n, In
<1> HIDE DEF seqs
<1>9. FlattenSeq(seqs) \in Seq(Nat \X Nat) /\ Range(FlattenSeq(seqs)) = UNION {Range(seqs[i]) : i \in 1..n}
  BY <1>1, <1>6, JoinedPairs
<1>10. \A r \in UNION {Range(seqs[i]) : i \in 1..n} : r[2] <= last
  BY <1>2, <1>3, <1>7
<1>11. ASSUME NEW e \in es, e.readable
       PROVE  \E r \in UNION {Range(seqs[i]) : i \in 1..n} : r[1] <= e.register /\ EndRegister(e) <= r[2]
  <2> DEFINE w == e.register \div BatchSize
             i == w + 1
  <2>1. w \in Nat /\ w <= top \div BatchSize
    BY <1>1, <1>11
  <2>2. i \in 1..n /\ i - 1 = w
    BY <1>1, <2>1 DEF n
  <2>3. e \in In(i)
    BY <1>11, <2>2 DEF In, InWindow
  <2> HIDE DEF i, w
  <2>4. Span(In(i)) \in Range(seqs[i]) /\ Span(In(i))[1] <= e.register /\ EndRegister(e) <= Span(In(i))[2]
    BY <1>2, <1>3, <1>7, <2>2, <2>3
  <2> QED
    BY <2>2, <2>4
<1> QED
  BY <1>8, <1>9, <1>10, <1>11

\* What the members' maps are.
MapsServed ==
    /\ lastRegister \in Nat /\ maps \in Seq(Seq(Entry)) /\ Len(maps) \in {1, 2}
    /\ \A k \in DOMAIN maps : Served(maps[k], filters[k], lastRegister)
    /\ \A k, l \in DOMAIN maps : \A e \in Range(maps[k]), d \in Range(maps[l]) :
          e.register = d.register /\ e.var = d.var => e.readable = d.readable

\* read_group_data() has one for each of the entries.
LEMMA UnionCovers ==
  ASSUME MapsServed
  PROVE  /\ \A u \in Union : \E k \in DOMAIN maps : u \in Range(maps[k])
         /\ \A k \in DOMAIN maps : \A e \in Range(maps[k]) :
               \E u \in Union : u.register = e.register /\ u.var = e.var /\ u.readable = e.readable
<1> DEFINE all == FlattenSeq(maps)
           First(j) == \A k \in 1..(j - 1) : all[k].register # all[j].register \/ all[k].var # all[j].var
<1>1. all \in Seq(Entry) /\ Range(all) = UNION {Range(maps[k]) : k \in DOMAIN maps}
  <2>1. Len(maps) \in Nat /\ maps \in [1..Len(maps) -> Seq(Entry)] /\ DOMAIN maps = 1..Len(maps)
    BY DEF MapsServed
  <2> QED
    BY <2>1, Flattened
<1>2. Union = {all[j] : j \in {j \in DOMAIN all : First(j)}}
  BY DEF Union
<1> HIDE DEF all
<1>3. DOMAIN all = 1..Len(all) /\ Len(all) \in Nat
  BY <1>1
<1>4. \A j \in DOMAIN all : all[j] \in Range(all)
  BY DEF Range
<1>5. ASSUME NEW k \in DOMAIN maps, NEW e \in Range(maps[k])
      PROVE  \E u \in Union : u.register = e.register /\ u.var = e.var
  <2> DEFINE T == {j \in DOMAIN all : all[j].register = e.register /\ all[j].var = e.var}
  <2>1. e \in Range(all)
    BY <1>1
  <2>2. T # {} /\ T \subseteq Nat
    BY <1>3, <2>1 DEF Range
  <2>3. PICK j \in T : \A i \in T : j <= i
    BY <2>2, LeastNumber
  <2>4. First(j)
    <3> SUFFICES ASSUME NEW i \in 1..(j - 1), i \in T PROVE FALSE
      BY <1>3
    <3> QED
      BY <1>3, <2>3
  <2> QED
    BY <1>2, <2>3, <2>4
<1>6. \A u \in Union : \E k \in DOMAIN maps : u \in Range(maps[k])
  BY <1>1, <1>2, <1>4
<1>7. ASSUME NEW k \in DOMAIN maps, NEW e \in Range(maps[k])
      PROVE  \E u \in Union : u.register = e.register /\ u.var = e.var /\ u.readable = e.readable
  <2>1. PICK u \in Union : u.register = e.register /\ u.var = e.var
    BY <1>5
  <2> QED
    BY <1>6, <2>1 DEF MapsServed
<1> QED
  BY <1>6, <1>7

\* Of each map, the entries are where they say.
LEMMA ServedEntry ==
  ASSUME MapsServed, NEW k \in DOMAIN maps, NEW e \in Range(maps[k])
  PROVE  /\ e \in Entry /\ e.register \in Nat /\ EndRegister(e) \in Nat
         /\ e.register <= EndRegister(e) /\ EndRegister(e) <= lastRegister
         /\ \A r \in Range(e.list) : r \in e.register..EndRegister(e)
         /\ e.list = <<>> /\ e.cat = <<>> => EndRegister(e) = e.register + WordsOf(e.type) - 1
         /\ e.cat # <<>> => e.list = <<>>
         /\ e.readable => e.source = NoName /\ PartsAreThere(e, maps[k])
         /\ Range(e.cat) \subseteq Nat
<1>1. Served(maps[k], filters[k], lastRegister)
  BY DEF MapsServed
<1>2. maps[k] \in Seq(Entry)
  BY <1>1 DEF Served
<1>3. e \in Entry
  BY <1>2, RangeOfSequence
<1>4. /\ EndRegister(e) <= lastRegister
      /\ \A r \in Range(e.list) : e.register <= r
      /\ e.cat # <<>> => e.list = <<>>
      /\ e.readable => e.source = NoName /\ PartsAreThere(e, maps[k])
  BY <1>1 DEF Served
<1>5. Range(e.cat) \subseteq Nat
  <2>1. e.cat \in Seq(Nat)
    BY <1>3 DEF Entry
  <2> QED
    BY <2>1, RangeOfSequence
<1> QED
  BY <1>3, <1>4, <1>5, EntryEnds

----------------------------------------------------------------------------
(* From the ranges of a cycle to what it delivers. *)

\* What it takes to decode an entry: its registers, and those of the other parts.
Needs(e) == (e.register..EndRegister(e)) \cup Range(e.cat)
Known(q) == q \in registry \/ \E r \in Range(ranges) : q \in r[1]..r[2]

\* Entries read at one interval are due together; the ranges of a cycle are within the device,
\* and until one is not answered they and the registers there are what is due needs.
DueInv ==
    /\ MapsServed
    /\ DOMAIN left = DOMAIN maps[1] /\ \A i \in DOMAIN left : left[i] \in 0..maps[1][i].every
    /\ \A i, j \in DOMAIN left :
          maps[1][i].readable /\ maps[1][j].readable /\ maps[1][i].every = maps[1][j].every => left[i] = left[j]
    /\ inCycle \in BOOLEAN /\ missed \in BOOLEAN /\ registry \subseteq Nat
    /\ ranges \in Seq(Nat \X Nat) /\ \A r \in Range(ranges) : r[2] <= lastRegister
    /\ \A d \in due : d[1] \in DOMAIN maps /\ d[2] \in DOMAIN maps[d[1]]
    /\ inCycle /\ ~missed => \A d \in due : \E k \in DOMAIN maps : \E e \in Range(maps[k]) :
          e.var = maps[d[1]][d[2]].var /\ e.readable /\ \A q \in Needs(e) : Known(q)
    /\ DueIsDelivered
    /\ SelectionIsDelivered

LEMMA MapsAreThere ==
  ASSUME MapsServed
  PROVE  /\ 1 \in DOMAIN maps /\ (Alone => DOMAIN maps = {1}) /\ Alone \in BOOLEAN
         /\ \A k \in DOMAIN maps : /\ maps[k] \in Seq(Entry) /\ DOMAIN maps[k] = 1..Len(maps[k]) /\ Len(maps[k]) \in Nat
                                   /\ \A i \in DOMAIN maps[k] : maps[k][i] \in Range(maps[k])
<1>1. DOMAIN maps = 1..Len(maps) /\ 1..1 = {1} /\ \A k \in DOMAIN maps : maps[k] \in Seq(Entry)
  BY DEF MapsServed
<1>2. \A k \in DOMAIN maps : DOMAIN maps[k] = 1..Len(maps[k]) /\ Len(maps[k]) \in Nat
  BY <1>1
<1>3. 1 \in DOMAIN maps /\ (Alone => DOMAIN maps = {1}) /\ Alone \in BOOLEAN
  BY <1>1 DEF MapsServed, Alone
<1> QED
  BY <1>1, <1>2, <1>3 DEF Range

\* What the cycle of a transport alone plans, and of members read together.
PlanOf(rs, ds) ==
    /\ rs \in Seq(Nat \X Nat) /\ \A r \in Range(rs) : r[2] <= lastRegister
    /\ \A d \in ds : \E k \in DOMAIN maps : \E e \in Range(maps[k]) :
          e.var = maps[d[1]][d[2]].var /\ e.readable /\ \A q \in Needs(e) : \E r \in Range(rs) : q \in r[1]..r[2]

\* Ranges that cover an entry and its parts cover what it needs.
LEMMA CoveredNeeds ==
  ASSUME MapsServed, NEW k \in DOMAIN maps, NEW e \in Range(maps[k]), e.readable,
         NEW rs \in Seq(Nat \X Nat),
         NEW R \in Range(rs), R[1] <= e.register, EndRegister(e) <= R[2],
         \A d \in Range(maps[k]) : d.readable /\ d.every = e.every =>
            \E r \in Range(rs) : r[1] <= d.register /\ d.register <= r[2]
  PROVE  \A q \in Needs(e) : \E r \in Range(rs) : q \in r[1]..r[2]
<1>1. e.register \in Nat /\ EndRegister(e) \in Nat /\ PartsAreThere(e, maps[k])
  BY ServedEntry
<1>2. \A r \in Range(rs) : r[1] \in Nat /\ r[2] \in Nat
  <2>1. \A r \in Range(rs) : r \in Nat \X Nat
    BY RangeOfSequence
  <2> QED
    BY <2>1
<1>3. ASSUME NEW q \in e.register..EndRegister(e) PROVE q \in R[1]..R[2]
  BY <1>1, <1>2
<1>4. ASSUME NEW q \in Range(e.cat) PROVE \E r \in Range(rs) : q \in r[1]..r[2]
  <2>1. PICK d \in Range(maps[k]) : d.register = q /\ d.every = e.every /\ d.readable = e.readable
    BY <1>1 DEF PartsAreThere
  <2>2. PICK r \in Range(rs) : r[1] <= d.register /\ d.register <= r[2]
    BY <2>1
  <2>3. d.register \in Nat
    BY ServedEntry
  <2> QED
    BY <1>2, <2>1, <2>2, <2>3
<1> QED
  BY <1>3, <1>4 DEF Needs

LEMMA PlanAlone ==
  ASSUME DueInv, Alone
  PROVE  PlanOf(RangesFor({maps[1][d[2]] : d \in DueEntries}, SizeOf(maps[1])), DueEntries)
<1> DEFINE es == {maps[1][d[2]] : d \in DueEntries}
           top == SizeOf(maps[1])
           rs == RangesFor(es, top)
<1>1. MapsServed /\ DOMAIN left = DOMAIN maps[1]
  BY DEF DueInv
<1>2. 1 \in DOMAIN maps /\ DOMAIN maps = {1}
  BY <1>1, MapsAreThere
<1>3. \A d \in DueEntries : d[1] = 1 /\ d[2] \in DOMAIN maps[1] /\ maps[1][d[2]].readable /\ left[d[2]] = 0
  BY <1>2 DEF DueEntries
<1>4. \A i \in DOMAIN maps[1] : maps[1][i].readable /\ left[i] = 0 => <<1, i>> \in DueEntries
  BY <1>2 DEF DueEntries
<1>5. es \subseteq Range(maps[1])
  BY <1>3 DEF Range
<1>6. lastRegister \in Nat
  BY <1>1 DEF MapsServed
<1>7. \A e \in Range(maps[1]) : e.register \in Nat /\ EndRegister(e) \in Nat /\ e.register <= EndRegister(e) /\ EndRegister(e) <= lastRegister
  BY <1>1, <1>2, ServedEntry
<1>8. top \in Nat /\ \A e \in Range(maps[1]) : e.register <= top
  <2> DEFINE S == {0} \cup {EndRegister(e) : e \in Range(maps[1])}
  <2>1. S \in SUBSET Nat /\ S # {} /\ \A i \in S : i <= lastRegister
    BY <1>6, <1>7
  <2>2. Max(S) \in S /\ \A i \in S : i <= Max(S)
    BY <1>6, <2>1, LeastAndGreatest
  <2>3. top = Max(S)
    BY DEF SizeOf
  <2>4. Max(S) \in Nat
    BY <2>1, <2>2
  <2>5. \A e \in Range(maps[1]) : EndRegister(e) <= Max(S)
    BY <2>2
  <2> HIDE DEF S, top
  <2> QED
    BY <1>7, <2>3, <2>4, <2>5
<1> HIDE DEF top, es
<1>9. /\ rs \in Seq(Nat \X Nat) /\ \A r \in Range(rs) : r[2] <= lastRegister
      /\ \A e \in es : e.readable => \E r \in Range(rs) : r[1] <= e.register /\ EndRegister(e) <= r[2]
  BY <1>5, <1>6, <1>7, <1>8, PlannedRanges
<1> HIDE DEF rs
<1>10. ASSUME NEW d \in DueEntries
       PROVE  \E k \in DOMAIN maps : \E e \in Range(maps[k]) :
                 e.var = maps[d[1]][d[2]].var /\ e.readable /\ \A q \in Needs(e) : \E r \in Range(rs) : q \in r[1]..r[2]
  <2> DEFINE e == maps[1][d[2]]
  <2>1. e \in es /\ e \in Range(maps[1]) /\ e.readable /\ d[1] = 1 /\ d[2] \in DOMAIN maps[1] /\ left[d[2]] = 0
    BY <1>3, <1>5 DEF es
  <2>2. PICK R \in Range(rs) : R[1] <= e.register /\ EndRegister(e) <= R[2]
    BY <1>9, <2>1
  <2>3. ASSUME NEW x \in Range(maps[1]), x.readable, x.every = e.every
        PROVE  \E r \in Range(rs) : r[1] <= x.register /\ x.register <= r[2]
    <3>1. PICK j \in DOMAIN maps[1] : x = maps[1][j]
      BY DEF Range
    <3>2. left[j] = left[d[2]]
      BY <1>1, <2>1, <2>3, <3>1 DEF DueInv
    <3>3. x \in es
      <4>1. <<1, j>> \in DueEntries /\ <<1, j>>[2] = j
        BY <1>4, <2>1, <2>3, <3>1, <3>2
      <4> QED
        BY <3>1, <4>1, Zenon DEF es
    <3>4. PICK r \in Range(rs) : r[1] <= x.register /\ EndRegister(x) <= r[2]
      BY <1>9, <2>3, <3>3
    <3>5. r[2] \in Nat
      <4>1. r \in Nat \X Nat
        BY <1>9, RangeOfSequence
      <4> QED
        BY <4>1
    <3> QED
      BY <1>7, <3>4, <3>5
  <2> HIDE DEF e
  <2>4. \A q \in Needs(e) : \E r \in Range(rs) : q \in r[1]..r[2]
    BY <1>1, <1>2, <1>9, <2>1, <2>2, <2>3, CoveredNeeds
  <2> QED
    BY <1>2, <2>1, <2>4 DEF e
<1> QED
  BY <1>9, <1>10 DEF PlanOf, rs, es, top

LEMMA PlanTogether ==
  ASSUME DueInv, ~Alone
  PROVE  PlanOf(RangesFor(Union, Max({0} \cup {e.register : e \in Union})), DueEntries)
<1> DEFINE S == {0} \cup {e.register : e \in Union}
           top == Max(S)
           rs == RangesFor(Union, top)
<1>1. MapsServed /\ lastRegister \in Nat
  BY DEF DueInv, MapsServed
<1>2. /\ \A u \in Union : \E k \in DOMAIN maps : u \in Range(maps[k])
      /\ \A k \in DOMAIN maps : \A e \in Range(maps[k]) :
            \E u \in Union : u.register = e.register /\ u.var = e.var /\ u.readable = e.readable
  BY <1>1, UnionCovers
<1>3. \A e \in Union : e.register \in Nat /\ EndRegister(e) \in Nat /\ e.register <= EndRegister(e) /\ EndRegister(e) <= lastRegister
  BY <1>1, <1>2, ServedEntry
<1>4. top \in Nat /\ \A e \in Union : e.register <= top
  <2>1. S \in SUBSET Nat /\ S # {} /\ \A i \in S : i <= lastRegister
    BY <1>1, <1>3
  <2>2. Max(S) \in S /\ \A i \in S : i <= Max(S)
    BY <1>1, <2>1, LeastAndGreatest
  <2> QED
    BY <2>1, <2>2
<1> HIDE DEF top
<1>5. /\ rs \in Seq(Nat \X Nat) /\ \A r \in Range(rs) : r[2] <= lastRegister
      /\ \A e \in Union : e.readable => \E r \in Range(rs) : r[1] <= e.register /\ EndRegister(e) <= r[2]
  BY <1>1, <1>3, <1>4, PlannedRanges
<1> HIDE DEF rs
<1>6. \A r \in Range(rs) : r[2] \in Nat
  <2>1. \A r \in Range(rs) : r \in Nat \X Nat
    BY <1>5, RangeOfSequence
  <2> QED
    BY <2>1
<1>7. ASSUME NEW d \in DueEntries
      PROVE  \E k \in DOMAIN maps : \E e \in Range(maps[k]) :
                e.var = maps[d[1]][d[2]].var /\ e.readable /\ \A q \in Needs(e) : \E r \in Range(rs) : q \in r[1]..r[2]
  <2>1. d[1] \in DOMAIN maps /\ d[2] \in DOMAIN maps[d[1]] /\ maps[d[1]][d[2]].readable
    BY DEF DueEntries
  <2>2. maps[d[1]][d[2]] \in Range(maps[d[1]])
    BY <2>1 DEF Range
  <2>3. PICK u \in Union : u.var = maps[d[1]][d[2]].var /\ u.readable
    BY <1>2, <2>1, <2>2
  <2>4. PICK k \in DOMAIN maps : u \in Range(maps[k])
    BY <1>2
  <2>5. PICK R \in Range(rs) : R[1] <= u.register /\ EndRegister(u) <= R[2]
    BY <1>5, <2>3
  <2>6. ASSUME NEW x \in Range(maps[k]), x.readable
        PROVE  \E r \in Range(rs) : r[1] <= x.register /\ x.register <= r[2]
    <3>1. PICK v \in Union : v.register = x.register /\ v.readable
      BY <1>2, <2>6
    <3>2. PICK r \in Range(rs) : r[1] <= v.register /\ EndRegister(v) <= r[2]
      BY <1>5, <3>1
    <3> QED
      BY <1>3, <1>6, <3>1, <3>2
  <2>7. \A q \in Needs(u) : \E r \in Range(rs) : q \in r[1]..r[2]
    BY <1>1, <1>5, <2>3, <2>4, <2>5, <2>6, CoveredNeeds
  <2> QED
    BY <2>3, <2>4, <2>7
<1> QED
  BY <1>5, <1>7 DEF PlanOf, rs, top

\* When its registers are all there, an entry is delivered.
LEMMA KnownIsDelivered ==
  ASSUME MapsServed, NEW k \in DOMAIN maps, NEW e \in Range(maps[k]), e.readable, Needs(e) \subseteq registry
  PROVE  e.var \in Delivered(maps[k])
<1> DEFINE here == {x \in Range(maps[k]) : x.source = NoName /\ Decodes(x)}
           parts == {x.register : x \in {d \in here : d.cat # <<>>}}
<1>1. /\ e.register \in Nat /\ EndRegister(e) \in Nat /\ e.register <= EndRegister(e)
      /\ \A r \in Range(e.list) : r \in e.register..EndRegister(e)
      /\ e.list = <<>> /\ e.cat = <<>> => EndRegister(e) = e.register + WordsOf(e.type) - 1
      /\ e.source = NoName /\ PartsAreThere(e, maps[k])
  BY ServedEntry
<1>2. e \in here
  <2>1. e.register \in registry /\ \A r \in e.register..EndRegister(e) : r \in registry
    BY <1>1 DEF Needs
  <2>2. Decodes(e)
    BY <1>1, <2>1 DEF Decodes
  <2> QED
    BY <1>1, <2>2
<1>3. ASSUME NEW r \in Range(e.cat) PROVE r \in parts
  <2>1. PICK d \in Range(maps[k]) : d.register = r /\ d.cat # <<>> /\ d.readable = e.readable
    BY <1>1 DEF PartsAreThere
  <2>2. d.list = <<>> /\ d.source = NoName
    BY <2>1, ServedEntry
  <2>3. r \in registry
    BY DEF Needs
  <2>4. Decodes(d)
    BY <2>1, <2>2, <2>3 DEF Decodes
  <2> QED
    BY <2>1, <2>2, <2>4
<1> HIDE DEF here, parts
<1>4. e.var \in {x.var : x \in {d \in here : Range(d.cat) \subseteq parts}}
  BY <1>2, <1>3
<1> QED
  BY <1>4 DEF Delivered, here, parts

\* What is delivered is what the filters let through, or a description of it.
LEMMA DeliveredIsSelected ==
  ASSUME MapsServed, NEW k \in DOMAIN maps, NEW n \in Delivered(maps[k])
  PROVE  \/ \E e \in Range(maps[k]) : e.var = n /\ e.source = NoName /\ Selected(e, filters[k])
         \/ n[2] = "desc" /\ \E e \in Range(maps[k]) : e.var = n /\ e.source \in Delivered(maps[k])
<1> DEFINE here == {x \in Range(maps[k]) : x.source = NoName /\ Decodes(x)}
           parts == {x.register : x \in {d \in here : d.cat # <<>>}}
           names == {x.var : x \in {d \in here : Range(d.cat) \subseteq parts}}
<1>1. Delivered(maps[k]) = names \cup {e.var : e \in {d \in Range(maps[k]) : d.source \in names}}
  BY DEF Delivered
<1>2. Served(maps[k], filters[k], lastRegister)
  BY DEF MapsServed
<1>3. \A x \in names : \E e \in Range(maps[k]) : e.var = x /\ e.source = NoName
  OBVIOUS
<1> HIDE DEF names
<1>4. NoName \notin names
  <2>1. NoName[1] = ""
    BY DEF NoName
  <2>2. \A e \in Range(maps[k]) : e.source = NoName => e.var[1] # ""
    BY <1>2 DEF Served
  <2> QED
    BY <1>3, <2>1, <2>2
<1>5. CASE n \in names
  BY <1>2, <1>3, <1>5 DEF Served
<1>6. CASE n \notin names
  <2>1. PICK e \in Range(maps[k]) : e.var = n /\ e.source \in names
    BY <1>1, <1>6
  <2>2. e.var[2] = "desc"
    BY <1>2, <1>4, <2>1 DEF Served
  <2> QED
    BY <1>1, <2>1, <2>2
<1> QED
  BY <1>5, <1>6

LEMMA InfoIsSelected ==
  ASSUME MapsServed, UNCHANGED loaded, info' = UNION {Delivered(m) : m \in Range(maps)}
  PROVE  SelectionIsDelivered'
<1>1. maps' = maps /\ filters' = filters
  BY DEF loaded
<1>2. \A k \in DOMAIN maps : maps[k] \in Range(maps)
  BY DEF Range
<1> SUFFICES ASSUME NEW n \in info'
             PROVE  \/ \E m \in DOMAIN maps : \E e \in Range(maps[m]) :
                          /\ e.var = n /\ e.source = NoName /\ Selected(e, filters[m])
                    \/ n[2] = "desc" /\ \E e \in UNION {Range(m) : m \in Range(maps)} : e.var = n /\ e.source \in info'
  BY <1>1 DEF SelectionIsDelivered, Selected
<1>3. PICK k \in DOMAIN maps : n \in Delivered(maps[k])
  BY DEF Range
<1>4. CASE \E e \in Range(maps[k]) : e.var = n /\ e.source = NoName /\ Selected(e, filters[k])
  BY <1>4
<1>5. CASE n[2] = "desc" /\ \E e \in Range(maps[k]) : e.var = n /\ e.source \in Delivered(maps[k])
  BY <1>2, <1>5
<1> QED
  BY <1>3, <1>4, <1>5, DeliveredIsSelected

LEMMA MapsAreConsistent == MapsServed => MapIsConsistent
<1> SUFFICES ASSUME MapsServed, NEW k \in DOMAIN maps, NEW e \in Range(maps[k])
             PROVE  /\ e.source # NoName => \E s \in Range(maps[k]) : s.var = e.source /\ s.source = NoName
                    /\ e.doc[2] = "h" => <<e.doc[1], "">> \notin {s.doc : s \in Range(maps[k])}
  BY DEF MapIsConsistent
<1>1. Served(maps[k], filters[k], lastRegister)
  BY DEF MapsServed
<1> QED
  BY <1>1 DEF Served

----------------------------------------------------------------------------
(* The cycles. *)

LEMMA DueInit == ASSUME SoundFiles, RegisterMapInit PROVE DueInv
<1>1. PICK n \in MemberCounts, file \in MapFiles :
          /\ filters \in [1..n -> Filters] /\ lastRegister = Beyond + LastOf(file)
          /\ maps = [i \in 1..n |-> LoadedMap(file, filters[i])]
  BY DEF RegisterMapInit
<1>2. SoundFile(file) /\ n \in {1, 2}
  BY RegisterMapAssumption DEF SoundFiles
<1>3. lastRegister \in Nat
  <2>1. LastOf(file) \in Nat /\ Beyond \in Nat
    BY <1>2, RegisterMapAssumption, Zenon DEF SoundFile
  <2> QED
    BY <1>1, <2>1
<1>4. \A k \in 1..n : Served(LoadedMap(file, filters[k]), filters[k], lastRegister)
  BY <1>1, <1>2, LoadedIs
<1>5. \A k \in 1..n : LoadedMap(file, filters[k]) \in Seq(Entry)
  BY <1>4 DEF Served
<1>6. maps \in Seq(Seq(Entry)) /\ Len(maps) = n /\ DOMAIN maps = 1..n /\ \A k \in 1..n : maps[k] = LoadedMap(file, filters[k])
  <2>1. maps \in [1..n -> Seq(Entry)]
    BY <1>1, <1>5
  <2> QED
    BY <1>1, <1>2, <2>1
<1>7. MapsServed
  <2>1. \A k, l \in DOMAIN maps : \A e \in Range(maps[k]), d \in Range(maps[l]) :
          e.register = d.register /\ e.var = d.var => e.readable = d.readable
    BY <1>2, <1>6, LoadedAgree
  <2> QED
    BY <1>2, <1>3, <1>4, <1>6, <2>1 DEF MapsServed
<1>8. \A i \in DOMAIN maps[1] : maps[1][i].every \in Nat
  <2>1. \A i \in DOMAIN maps[1] : maps[1][i] \in Entry
    BY <1>7, MapsAreThere
  <2> QED
    BY <2>1 DEF Entry
<1>9. left = [i \in DOMAIN maps[1] |-> 0]
  BY DEF RegisterMapInit
<1>10. DOMAIN left = DOMAIN maps[1] /\ \A i \in DOMAIN left : left[i] \in 0..maps[1][i].every /\ left[i] = 0
  BY <1>8, <1>9
<1>11. ranges = <<>> /\ inCycle = FALSE /\ registry = {} /\ due = {} /\ missed = FALSE /\ info = {}
  BY DEF RegisterMapInit
<1>12. ranges \in Seq(Nat \X Nat) /\ Range(ranges) = {}
  BY <1>11 DEF Range
<1> QED
  BY <1>7, <1>10, <1>11, <1>12 DEF DueInv, DueIsDelivered, SelectionIsDelivered

SelectedFrom(ms, fs, names) ==
    \A n \in names :
        \/ \E m \in DOMAIN ms : \E e \in Range(ms[m]) :
              /\ e.var = n /\ e.source = NoName
              /\ IF fs[m].mask # {} THEN NamedIn(e, fs[m].mask) ELSE ~NamedIn(e, fs[m].screen)
        \/ n[2] = "desc" /\ \E e \in UNION {Range(m) : m \in Range(ms)} : e.var = n /\ e.source \in names
LEMMA SelectionStays ==
  ASSUME SelectionIsDelivered, maps' = maps, filters' = filters, info' = info
  PROVE  SelectionIsDelivered'
<1>1. SelectedFrom(maps, filters, info)
  BY Zenon DEF SelectedFrom, SelectionIsDelivered
<1>2. SelectedFrom(maps', filters', info')
  BY <1>1, Zenon
<1> QED
  BY <1>2, Zenon DEF SelectedFrom, SelectionIsDelivered

LEMMA DueStep == ASSUME DueInv, [RegisterMapNext]_mapVars PROVE DueInv'
<1>1. MapsServed
  BY DEF DueInv
<1>2. 1 \in DOMAIN maps /\ \A i \in DOMAIN maps[1] : maps[1][i] \in Entry
  BY <1>1, MapsAreThere
<1>3. \A i \in DOMAIN maps[1] : maps[1][i].every \in Nat \ {0}
  BY <1>2 DEF Entry
<1>4. CASE PlanCycle
  <2>1. /\ ~inCycle /\ inCycle' = TRUE /\ due' = DueEntries /\ registry' = {} /\ missed' = FALSE
        /\ filters' = filters /\ maps' = maps /\ lastRegister' = lastRegister /\ info' = info
    BY <1>4 DEF PlanCycle, loaded
  <2>2. PlanOf(ranges', DueEntries)
    <3>1. CASE Alone
      BY <1>4, <3>1, PlanAlone DEF PlanCycle
    <3>2. CASE ~Alone
      BY <1>4, <3>2, PlanTogether DEF PlanCycle
    <3> QED
      BY <3>1, <3>2
  <2>3. /\ DOMAIN left' = DOMAIN maps[1] /\ \A i \in DOMAIN left' : left'[i] \in 0..maps[1][i].every
        /\ \A i, j \in DOMAIN left' :
              maps[1][i].readable /\ maps[1][j].readable /\ maps[1][i].every = maps[1][j].every => left'[i] = left'[j]
    <3>1. CASE Alone
      <4>1. left' = [i \in DOMAIN left |->
                        IF ~maps[1][i].readable THEN 0
                        ELSE IF left[i] = 0 THEN maps[1][i].every - 1 ELSE left[i] - 1]
        BY <1>4, <3>1 DEF PlanCycle
      <4>2. DOMAIN left = DOMAIN maps[1] /\ \A i \in DOMAIN left : left[i] \in 0..maps[1][i].every
        BY DEF DueInv
      <4>3. \A i \in DOMAIN left : left'[i] \in 0..maps[1][i].every
        BY <1>3, <4>1, <4>2
      <4>4. \A i, j \in DOMAIN left :
              maps[1][i].readable /\ maps[1][j].readable /\ maps[1][i].every = maps[1][j].every => left'[i] = left'[j]
        BY <4>1, <4>2 DEF DueInv
      <4> QED
        BY <4>1, <4>2, <4>3, <4>4
    <3>2. CASE ~Alone
      <4>1. left' = left
        BY <1>4, <3>2 DEF PlanCycle
      <4> QED
        BY <4>1 DEF DueInv
    <3> QED
      BY <3>1, <3>2
  <2>4. \A d \in due' : d[1] \in DOMAIN maps /\ d[2] \in DOMAIN maps[d[1]]
    BY <2>1 DEF DueEntries
  <2>5. \A d \in due' : \E k \in DOMAIN maps : \E e \in Range(maps[k]) :
           e.var = maps[d[1]][d[2]].var /\ e.readable /\ \A q \in Needs(e) : Known(q)'
    BY <2>1, <2>2 DEF PlanOf, Known
  <2>6. MapsServed'
    BY <1>1, <2>1 DEF MapsServed
  <2>7. SelectionIsDelivered'
    BY <2>1, SelectionStays DEF DueInv
  <2>8. DueIsDelivered'
    BY <2>1 DEF DueIsDelivered
  <2>9. ranges' \in Seq(Nat \X Nat) /\ \A r \in Range(ranges') : r[2] <= lastRegister
    BY <2>2 DEF PlanOf
  <2> QED
    BY <2>1, <2>3, <2>4, <2>5, <2>6, <2>7, <2>8, <2>9 DEF DueInv, Needs
<1>5. CASE ReadRange
  <2>1. /\ inCycle /\ ranges # <<>> /\ ranges' = Tail(ranges) /\ inCycle' = inCycle
        /\ filters' = filters /\ maps' = maps /\ lastRegister' = lastRegister /\ info' = info /\ left' = left /\ due' = due
    BY <1>5 DEF ReadRange, loaded
  <2>2. /\ ranges' \in Seq(Nat \X Nat) /\ Range(ranges) = {Head(ranges)} \cup Range(ranges')
        /\ Range(ranges) \subseteq Nat \X Nat
    <3>1. ranges \in Seq(Nat \X Nat)
      BY DEF DueInv
    <3> QED
      BY <2>1, <3>1, HeadAndTail
  <2>3. Head(ranges) \in Nat \X Nat /\ Head(ranges)[2] <= lastRegister
    BY <2>2 DEF DueInv
  <2>4. /\ missed' = TRUE \/ (missed' = missed /\ registry' = registry \cup (Head(ranges)[1]..Head(ranges)[2]))
        /\ registry' \subseteq Nat /\ missed' \in BOOLEAN
    <3>1. Head(ranges)[1]..Head(ranges)[2] \subseteq Nat /\ lastRegister \in Nat /\ Head(ranges)[2] \in Nat
      BY <1>1, <2>3 DEF MapsServed
    <3>2. registry \subseteq Nat /\ missed \in BOOLEAN
      BY DEF DueInv
    <3>3. \/ missed' = missed /\ registry' = registry \cup (Head(ranges)[1]..Head(ranges)[2])
          \/ missed' = TRUE /\ registry' = registry
      BY <1>5, <2>3, <3>1 DEF ReadRange
    <3> QED
      BY <3>1, <3>2, <3>3
  <2>5. ASSUME ~missed' PROVE ~missed /\ \A q : Known(q) => Known(q)'
    BY <2>2, <2>4, <2>5 DEF Known
  <2>6. inCycle' /\ ~missed' => \A d \in due' : \E k \in DOMAIN maps : \E e \in Range(maps[k]) :
           e.var = maps[d[1]][d[2]].var /\ e.readable /\ \A q \in Needs(e) : Known(q)'
    <3> SUFFICES ASSUME inCycle', ~missed', NEW d \in due'
                 PROVE  \E k \in DOMAIN maps : \E e \in Range(maps[k]) :
                           e.var = maps[d[1]][d[2]].var /\ e.readable /\ \A q \in Needs(e) : Known(q)'
      OBVIOUS
    <3>1. ~missed /\ inCycle /\ d \in due
      BY <2>1, <2>5
    <3>2. PICK k \in DOMAIN maps : \E e \in Range(maps[k]) :
             e.var = maps[d[1]][d[2]].var /\ e.readable /\ \A q \in Needs(e) : Known(q)
      BY <3>1 DEF DueInv
    <3> HIDE DEF Known
    <3> QED
      BY <2>5, <3>2
  <2>7. MapsServed'
    BY <1>1, <2>1 DEF MapsServed
  <2>8. SelectionIsDelivered' /\ DueIsDelivered'
    BY <2>1, SelectionStays DEF DueInv, DueIsDelivered
  <2>9. \A r \in Range(ranges') : r[2] <= lastRegister
    BY <2>2 DEF DueInv
  <2>10. \A d \in due' : d[1] \in DOMAIN maps /\ d[2] \in DOMAIN maps[d[1]]
    BY <2>1 DEF DueInv
  <2>11. /\ DOMAIN left' = DOMAIN maps'[1] /\ \A i \in DOMAIN left' : left'[i] \in 0..maps'[1][i].every
         /\ \A i, j \in DOMAIN left' :
               maps'[1][i].readable /\ maps'[1][j].readable /\ maps'[1][i].every = maps'[1][j].every => left'[i] = left'[j]
         /\ inCycle' \in BOOLEAN
    BY <2>1 DEF DueInv
  <2> QED
    BY <2>1, <2>2, <2>4, <2>6, <2>7, <2>8, <2>9, <2>10, <2>11 DEF DueInv, Needs
<1>6. CASE DecodeCycle
  <2>1. /\ inCycle /\ ranges = <<>> /\ inCycle' = FALSE /\ info' = UNION {Delivered(m) : m \in Range(maps)}
        /\ filters' = filters /\ maps' = maps /\ lastRegister' = lastRegister /\ left' = left /\ ranges' = ranges
        /\ registry' = registry /\ due' = due /\ missed' = missed
    BY <1>6 DEF DecodeCycle, loaded
  <2>2. Range(ranges) = {}
    BY <2>1 DEF Range
  <2>3. ASSUME ~missed, NEW d \in due PROVE maps[d[1]][d[2]].var \in info'
    <3>1. PICK k \in DOMAIN maps : \E e \in Range(maps[k]) :
             e.var = maps[d[1]][d[2]].var /\ e.readable /\ \A q \in Needs(e) : Known(q)
      BY <2>1, <2>3 DEF DueInv
    <3>2. PICK e \in Range(maps[k]) : e.var = maps[d[1]][d[2]].var /\ e.readable /\ \A q \in Needs(e) : Known(q)
      BY <3>1
    <3>3. Needs(e) \subseteq registry
      BY <2>2, <3>2 DEF Known
    <3>4. e.var \in Delivered(maps[k])
      BY <1>1, <3>2, <3>3, KnownIsDelivered
    <3>5. maps[k] \in Range(maps)
      BY DEF Range
    <3> QED
      BY <2>1, <3>2, <3>4, <3>5
  <2>4. DueIsDelivered'
    BY <2>1, <2>3 DEF DueIsDelivered
  <2>5. SelectionIsDelivered'
    BY <1>1, <2>1, InfoIsSelected DEF loaded
  <2>6. MapsServed'
    BY <1>1, <2>1 DEF MapsServed
  <2> QED
    BY <2>1, <2>4, <2>5, <2>6 DEF DueInv
<1>7. CASE ResetTimestamps
  <2>1. /\ ~inCycle /\ left' = [i \in DOMAIN left |-> 0] /\ UNCHANGED <<filters, maps, lastRegister, ranges, inCycle, registry, due, missed, info>>
    BY <1>7 DEF ResetTimestamps, loaded, cycleVars
  <2>2. DOMAIN left' = DOMAIN maps[1] /\ \A i \in DOMAIN left' : left'[i] = 0 /\ left'[i] \in 0..maps[1][i].every
    BY <1>3, <2>1 DEF DueInv
  <2>3. MapsServed'
    BY <1>1, <2>1 DEF MapsServed
  <2>4. DueIsDelivered' /\ SelectionIsDelivered'
    <3>1. DueIsDelivered /\ SelectionIsDelivered
      BY DEF DueInv
    <3> QED
      BY <2>1, <3>1, SelectionStays, Zenon DEF DueIsDelivered
  <2> QED
    BY <2>1, <2>2, <2>3, <2>4 DEF DueInv
<1>8. CASE UNCHANGED mapVars
  <2>1. UNCHANGED <<filters, maps, lastRegister, left, ranges, inCycle, registry, due, missed, info>>
    BY <1>8 DEF mapVars, loaded, cycleVars
  <2>2. MapsServed'
    BY <1>1, <2>1 DEF MapsServed
  <2>3. DueIsDelivered' /\ SelectionIsDelivered'
    <3>1. DueIsDelivered /\ SelectionIsDelivered
      BY DEF DueInv
    <3> QED
      BY <2>1, <3>1, SelectionStays, Zenon DEF DueIsDelivered
  <2>4. \A q : Known(q)' <=> Known(q)
    BY <2>1 DEF Known
  <2> QED
    BY <2>1, <2>2, <2>3, <2>4 DEF DueInv, Needs
<1> QED
  BY <1>4, <1>5, <1>6, <1>7, <1>8 DEF RegisterMapNext

LEMMA MapTypes == DueInv => RegisterMapTypeOK
<1> SUFFICES ASSUME DueInv PROVE RegisterMapTypeOK
  OBVIOUS
<1>1. MapsServed
  BY DEF DueInv
<1>2. 1 \in DOMAIN maps /\ \A k \in DOMAIN maps : maps[k] \in Seq(Entry)
  BY <1>1, MapsAreThere
<1>3. \A k \in DOMAIN maps : \A e \in Range(maps[k]) : e.register \in Nat /\ e.every \in Nat \ {0}
  <2>1. \A k \in DOMAIN maps : \A e \in Range(maps[k]) : e \in Entry
    BY <1>2, RangeOfSequence
  <2> QED
    BY <2>1 DEF Entry
<1>4. \A i \in DOMAIN maps[1] : maps[1][i].every \in Nat
  BY <1>2, <1>3 DEF Range
<1> QED
  BY <1>3, <1>4 DEF DueInv, RegisterMapTypeOK

\* In any map, of any length and with any filters, what is due is delivered by the cycle whose
\* ranges were all answered, and the selection is delivered.
THEOREM DueStaysDelivered == SoundFiles => (RegisterMapSpec => [](RegisterMapTypeOK /\ MapIsServed))
<1> SUFFICES ASSUME SoundFiles PROVE RegisterMapSpec => [](RegisterMapTypeOK /\ MapIsServed)
  OBVIOUS
<1>1. RegisterMapInit => DueInv
  BY DueInit
<1>2. DueInv /\ [RegisterMapNext]_mapVars => DueInv'
  BY DueStep
<1>3. DueInv => RegisterMapTypeOK /\ MapIsServed
  BY MapTypes, MapsAreConsistent DEF DueInv, MapIsServed
<1> QED
  BY <1>1, <1>2, <1>3, PTL DEF RegisterMapSpec

----------------------------------------------------------------------------
(* What an EG4 device is. Each retry of the identity also asks for the kind  *)
(* again, and runs with or without an answer, so what keeps a retry from     *)
(* taking back what is known is what is known already.                       *)

\* The kind is decided with the first metadata, which are of that kind; an instance that has not
\* connected knows nothing; serial numbers are all there once they count as loaded.
EgInv ==
    /\ egKind \in EgKinds /\ kindCache \in {"none", "inverter", "battery"} /\ metadata \in Identities
    /\ egConnected \in BOOLEAN /\ serialsLoaded \in BOOLEAN /\ moduleSerials \subseteq BatteryModules
    /\ metadata = "battery" => kindCache = "battery"
    /\ metadata \in {"bare", "whole"} => kindCache = "inverter"
    /\ kindCache = "none" <=> metadata = "none"
    /\ ~egConnected => metadata = "none" /\ moduleSerials = {} /\ ~serialsLoaded
    /\ serialsLoaded => moduleSerials = BatteryModules
    /\ metadata = "whole" => egKind = "inverter"
    /\ kindCache # "none" => misjudged \/ kindCache = egKind

\* What a series of reads makes of the device is a state of its own.
LEMMA FreshIdentity ==
  ASSUME EgInv, NEW ok \in BOOLEAN
  PROVE  /\ KindOf(ok) \in {"inverter", "battery"} /\ Identified(ok) \in {"battery", "bare", "whole"}
         /\ Identified(ok) = "battery" <=> KindOf(ok) = "battery"
         /\ Identified(ok) = "whole" => egKind = "inverter"
         /\ kindCache # "none" => KindOf(ok) = kindCache
         /\ kindCache = "none" /\ ok => KindOf(ok) = egKind
  BY Eg4IdentityAssumption DEF EgInv, KindOf, Identified

LEMMA RetryKeeps ==
  ASSUME EgInv, NEW ok \in BOOLEAN, DetectKind(ok),
         metadata' = Better(Identified(ok)) \/ (metadata = "none" /\ metadata' = Identified(ok)),
         egConnected', egConnected \/ UNCHANGED <<moduleSerials, serialsLoaded>>,
         UNCHANGED <<egKind, moduleSerials, serialsLoaded>>
  PROVE  EgInv' /\ (kindCache # "none" => kindCache' = kindCache)
<1>1. PICK kind, fresh : kind = KindOf(ok) /\ fresh = Identified(ok)
  OBVIOUS
<1>2. /\ kind \in {"inverter", "battery"} /\ fresh \in {"battery", "bare", "whole"}
      /\ fresh = "battery" <=> kind = "battery"
      /\ fresh = "whole" => egKind = "inverter"
      /\ kindCache # "none" => kind = kindCache
      /\ kindCache = "none" /\ ok => kind = egKind
  BY <1>1, FreshIdentity
<1>3. kindCache' = kind /\ (misjudged' <=> misjudged \/ (kindCache = "none" /\ ~ok))
  BY <1>1 DEF DetectKind
<1>4. metadata' = fresh \/ (metadata' = metadata /\ metadata # "none")
  BY <1>1 DEF Better
<1>5. metadata = "battery" => kind = "battery"
  BY <1>2 DEF EgInv
<1>6. metadata \in {"bare", "whole"} => kind = "inverter"
  BY <1>2 DEF EgInv
<1>7. EgInv'
  BY <1>2, <1>3, <1>4, <1>5, <1>6 DEF EgInv, Identities
<1> QED BY <1>2, <1>3, <1>7

LEMMA EgStep ==
  ASSUME EgInv, [EgNext]_egVars
  PROVE  /\ EgInv'
         /\ UNCHANGED egVars \/
            (egSessions' = egSessions =>
              /\ IdentityComplete(metadata) => metadata' = metadata
              /\ kindCache # "none" => kindCache' = kindCache
              /\ moduleSerials \subseteq moduleSerials' /\ (serialsLoaded => serialsLoaded'))
<1>1. CASE IdentifyAtConnect
  <2>1. PICK ok \in BOOLEAN : DetectKind(ok) /\ metadata' = Identified(ok)
    BY <1>1 DEF IdentifyAtConnect
  <2>2. metadata = "none" /\ egConnected' = TRUE /\ UNCHANGED <<egKind, moduleSerials, serialsLoaded>>
    BY <1>1 DEF IdentifyAtConnect, modules, EgInv
  <2>3. EgInv' /\ (kindCache # "none" => kindCache' = kindCache)
    BY <2>1, <2>2, RetryKeeps
  <2> QED BY <2>2, <2>3 DEF IdentityComplete
<1>2. CASE RetryIdentity
  <2>1. PICK ok \in BOOLEAN : DetectKind(ok) /\ metadata' = Better(Identified(ok))
    BY <1>2 DEF RetryIdentity
  <2>2. ~IdentityComplete(metadata) /\ egConnected /\ UNCHANGED <<egKind, moduleSerials, serialsLoaded, egConnected>>
    BY <1>2 DEF RetryIdentity, modules
  <2>3. EgInv' /\ (kindCache # "none" => kindCache' = kindCache)
    BY <2>1, <2>2, RetryKeeps
  <2> QED BY <2>2, <2>3
<1>3. CASE RetryModules
  <2>1. PICK fresh \in SUBSET BatteryModules :
          moduleSerials' = moduleSerials \cup fresh /\ (serialsLoaded' <=> fresh = BatteryModules)
    BY <1>3 DEF RetryModules, Gathered
  <2>2. serialsLoaded' \in BOOLEAN
    BY <1>3 DEF RetryModules
  <2>3. ~serialsLoaded /\ egConnected /\ UNCHANGED <<egKind, identity, egConnected, egSessions>>
    BY <1>3 DEF RetryModules
  <2> QED BY <2>1, <2>2, <2>3 DEF EgInv, identity
<1>4. CASE ConnectAfterReload
  BY <1>4 DEF ConnectAfterReload, identity, modules, EgInv
<1>5. CASE EgTimePasses
  BY <1>5 DEF EgTimePasses, EgInv
<1>6. CASE EgFails
  BY <1>6 DEF EgFails, identity, modules, EgInv
<1>7. CASE EgReload
  <2>1. egSessions' = egSessions + 1
    BY <1>7 DEF EgReload
  <2>2. EgInv'
    BY <1>7 DEF EgReload, EgInv, Identities
  <2> QED BY <1>7, <2>1, <2>2 DEF EgReload
<1>8. CASE UNCHANGED egVars
  BY <1>8 DEF egVars, identity, modules, EgInv
<1> QED BY <1>1, <1>2, <1>3, <1>4, <1>5, <1>6, <1>7, <1>8 DEF EgNext

\* A power of two is more than its exponent: the delay reaches its greatest.
LEMMA PowersOutgrow == \A n \in Nat : 2^n \in Nat \ {0} /\ n < 2^n
<1> DEFINE T == {n \in Nat : 2^n \in Nat \ {0} /\ n < 2^n}
<1>1. 0 \in T
  <2>1. 2^0 = 1
    OBVIOUS
  <2> QED
    BY <2>1
<1>2. ASSUME NEW n \in Nat, n \in T PROVE n + 1 \in T
  <2> DEFINE p == 2^n   q == 2^(n + 1)
  <2>1. q = 2 * p /\ q \in Nat \ {0}
    <3>1. q \in Nat \ {0}
      BY DoubledPower
    <3> QED
      BY <3>1, DoubledPower
  <2>2. p \in Nat \ {0} /\ n < p
    BY <1>2
  <2> HIDE DEF p, q
  <2>3. q \in Nat \ {0} /\ n + 1 < q
    BY <2>1, <2>2
  <2> QED
    BY <2>3 DEF q
<1>3. \A n \in Nat : n \in T
  <2> HIDE DEF T
  <2> QED
    BY <1>1, <1>2, Induction
<1> QED
  BY <1>3

LEMMA TryLimitIs == TryLimit \in Nat \ {0}
<1>1. SlowestTry \in Nat /\ SlowestTry >= 1
  BY Eg4IdentityAssumption
<1> DEFINE T == {m \in Nat : 2^m >= SlowestTry}
<1>2. SlowestTry \in T
  BY <1>1, PowersOutgrow
<1>3. PICK m \in T : \A k \in T : m <= k
  <2> HIDE DEF T
  <2>1. T \subseteq Nat
    BY DEF T
  <2> QED
    BY <1>2, <2>1, LeastNumber
<1>4. m \in Nat /\ 2^m >= SlowestTry /\ m <= SlowestTry
  BY <1>2, <1>3
<1>5. m # 0 => 2^(m - 1) < SlowestTry
  <2> HAVE m # 0
  <2>1. m - 1 \in Nat /\ ~(m <= m - 1)
    BY <1>4
  <2>2. m - 1 \notin T
    BY <1>3, <2>1
  <2>3. 2^(m - 1) \in Nat
    BY <2>1, PowersOutgrow
  <2> QED
    BY <1>1, <2>1, <2>2, <2>3
<1> DEFINE Is(n) == 2^(n - 1) >= SlowestTry /\ (n = 1 \/ 2^(n - 2) < SlowestTry)
<1>6. m + 1 \in 1..(SlowestTry + 1) /\ m + 1 - 1 = m /\ m + 1 - 2 = m - 1 /\ (m = 0 => m + 1 = 1)
  BY <1>1, <1>4
<1>7. Is(m + 1)
  BY <1>4, <1>5, <1>6
<1>8. TryLimit = CHOOSE n \in 1..(SlowestTry + 1) : Is(n)
  BY Zenon DEF TryLimit
<1> HIDE DEF Is
<1>9. TryLimit \in 1..(SlowestTry + 1)
  BY <1>6, <1>7, <1>8
<1> QED
  BY <1>1, <1>9

\* The tries that are counted, and what is waited for the next.
EgWaits ==
    /\ egAnswers \in BOOLEAN /\ misjudged \in BOOLEAN
    /\ egAttempts \in 0..TryLimit /\ serialTries \in 0..TryLimit
    /\ egWait \in 0..SlowestTry /\ serialWait \in 0..SlowestTry

LEMMA TriesAreCounted ==
  ASSUME NEW n \in 0..TryLimit
  PROVE  Counted(n) \in 0..TryLimit /\ RetryDelay(Counted(n)) \in 0..SlowestTry
<1>1. TryLimit \in Nat /\ SlowestTry \in Nat
  BY TryLimitIs, Eg4IdentityAssumption
<1>2. Counted(n) \in 0..TryLimit
  BY <1>1 DEF Counted
<1>3. ASSUME NEW k \in Nat PROVE RetryDelay(k) \in 0..SlowestTry
  <2>1. CASE k = 0
    BY <1>1, <2>1 DEF RetryDelay
  <2>2. CASE k # 0
    <3>1. k - 1 \in Nat
      BY <2>2
    <3> DEFINE p == 2^(k - 1)
    <3>2. p \in Nat
      BY <3>1, PowersOutgrow
    <3>3. RetryDelay(k) = IF p < SlowestTry THEN p ELSE SlowestTry
      BY <2>2 DEF RetryDelay
    <3> HIDE DEF p
    <3> QED
      BY <1>1, <3>2, <3>3
  <2> QED
    BY <2>1, <2>2
<1>4. Counted(n) \in Nat
  BY <1>1, <1>2
<1> QED
  BY <1>2, <1>3, <1>4

LEMMA EgWaitsStep == ASSUME EgWaits, [EgNext]_egVars PROVE EgWaits'
<1>1. SlowestTry \in Nat /\ TryLimit \in Nat
  BY TryLimitIs, Eg4IdentityAssumption
<1>2. CASE IdentifyAtConnect
  <2>1. misjudged' \in BOOLEAN
    BY <1>2 DEF IdentifyAtConnect, DetectKind
  <2> QED
    BY <1>2, <2>1 DEF IdentifyAtConnect, modules, EgWaits
<1>3. CASE RetryIdentity
  <2>1. misjudged' \in BOOLEAN
    BY <1>3 DEF RetryIdentity, DetectKind
  <2>2. egAttempts' \in 0..TryLimit /\ egWait' \in 0..SlowestTry
    BY <1>3, TriesAreCounted DEF RetryIdentity, EgWaits
  <2> QED
    BY <1>3, <2>1, <2>2 DEF RetryIdentity, modules, EgWaits
<1>4. CASE RetryModules
  <2>1. serialTries' \in 0..TryLimit /\ serialWait' \in 0..SlowestTry
    BY <1>4, TriesAreCounted DEF RetryModules, EgWaits
  <2> QED
    BY <1>4, <2>1 DEF RetryModules, identity, EgWaits
<1>5. CASE ConnectAfterReload
  BY <1>5 DEF ConnectAfterReload, identity, modules, EgWaits
<1>6. CASE EgTimePasses
  <2>1. egWait' \in 0..SlowestTry /\ serialWait' \in 0..SlowestTry
    BY <1>1, <1>6 DEF EgTimePasses, EgWaits
  <2> QED
    BY <1>6, <2>1 DEF EgTimePasses, EgWaits
<1>7. CASE EgFails
  <2>1. egAnswers' \in BOOLEAN
    BY <1>7 DEF EgFails
  <2> QED
    BY <1>7, <2>1 DEF EgFails, identity, modules, EgWaits
<1>8. CASE EgReload
  <2>1. /\ egAttempts' = 0 /\ egWait' = 0 /\ serialTries' = 0 /\ serialWait' = 0
        /\ egAnswers' = egAnswers
    BY <1>8 DEF EgReload
  <2>2. misjudged' \in BOOLEAN
    BY <1>8, Zenon DEF EgReload
  <2> QED
    BY <1>1, <2>1, <2>2 DEF EgWaits
<1>9. CASE UNCHANGED egVars
  BY <1>9 DEF egVars, identity, modules, EgWaits
<1> QED
  BY <1>2, <1>3, <1>4, <1>5, <1>6, <1>7, <1>8, <1>9 DEF EgNext

LEMMA EgWaitsInit == ASSUME EgInit PROVE EgWaits
<1>1. SlowestTry \in Nat /\ TryLimit \in Nat
  BY TryLimitIs, Eg4IdentityAssumption
<1>2. egAnswers \in BOOLEAN /\ misjudged \in BOOLEAN
  BY Zenon DEF EgInit
<1> QED
  BY <1>1, <1>2 DEF EgInit, EgWaits

LEMMA EgTypes == EgInv /\ EgWaits => EgTypeOK
  BY DEF EgInv, EgWaits, EgTypeOK

LEMMA EgBegins == EgInit => EgInv
  BY Eg4IdentityAssumption DEF EgInit, EgInv, Identities

\* The invariant, of every behaviour.
LEMMA EgAlways == EgSpec => []EgInv
<1>1. EgInv /\ [EgNext]_egVars => EgInv'
  BY EgStep
<1> QED BY <1>1, EgBegins, PTL DEF EgSpec

\* What an instance knows of its device, its kind, its serial number and those of
\* its modules, it does not lose to a later bad read (get_cached_eg4_metadata(),
\* get_cached_battery_serial_fields()).
THEOREM IdentityStays == EgSpec => IdentityIsKept
<1>1. EgInv /\ [EgNext]_egVars =>
        [egSessions' = egSessions =>
          /\ IdentityComplete(metadata) => metadata' = metadata
          /\ kindCache # "none" => kindCache' = kindCache
          /\ moduleSerials \subseteq moduleSerials' /\ (serialsLoaded => serialsLoaded')]_egVars
  BY EgStep
<1> QED BY <1>1, EgAlways, PTL DEF EgSpec, IdentityIsKept

\* The metadata and the kind an instance has agree, and are those of the device
\* unless the read that decided the kind failed (detect_eg4_hardware_kind()).
KindIsTrue ==
    /\ metadata = "battery" => kindCache = "battery"
    /\ metadata \in {"bare", "whole"} => kindCache = "inverter"
    /\ metadata = "whole" => egKind = "inverter"
    /\ kindCache # "none" => misjudged \/ kindCache = egKind
    /\ serialsLoaded => moduleSerials = BatteryModules

THEOREM KindStaysTrue == EgSpec => []KindIsTrue
<1>1. EgInv => KindIsTrue
  BY DEF EgInv, KindIsTrue
<1> QED BY <1>1, EgAlways, PTL

----------------------------------------------------------------------------
(* Start-up: what the chain of the device is, the rows in force, their trackers, *)
(* and the permission to write. *)

(* The chain of a device. *)

\* The models of a chain, where they are.
Found == [kind : Kinds, length : Nat, n : Nat, at : Nat]

LEMMA InSequence ==
  ASSUME NEW S, NEW s \in Seq(S)
  PROVE  Len(s) \in Nat /\ DOMAIN s = 1..Len(s) /\ \A i \in 1..Len(s) : s[i] \in S
  OBVIOUS

LEMMA FoundIs == \A m \in Found : m.kind \in Kinds /\ m.length \in Nat /\ m.n \in Nat /\ m.at \in Nat
  BY DEF Found

LEMMA ModelIs == \A m \in Models : m.kind \in Kinds /\ m.length \in Nat /\ m.n \in Nat
  BY DEF Models

LEMMA SameFound ==
  ASSUME NEW x \in Found, NEW y \in Found, x.kind = y.kind, x.length = y.length, x.n = y.n, x.at = y.at
  PROVE  x = y
  BY DEF Found

\* Located() goes from one header to the next.
Chaining(base, l, k, f) == f = [i \in 1..k |-> IF i = 1 THEN base + 2 ELSE f[i - 1] + 2 + l[i - 1].length]

LEMMA ChainingGrows ==
  ASSUME NEW base, NEW l, NEW k \in Nat, NEW f, Chaining(base, l, k, f)
  PROVE  \E g : Chaining(base, l, k + 1, g)
<1> DEFINE Next(x, i) == IF i = 1 THEN base + 2 ELSE x[i - 1] + 2 + l[i - 1].length
           g == [i \in 1..(k + 1) |-> Next(f, i)]
           h == [i \in 1..k |-> Next(f, i)]
<1>1. f = h
  BY DEF Chaining
<1>2. \A i \in 1..k : g[i] = h[i]
  <2> HIDE DEF Next
  <2> QED
    OBVIOUS
<1>3. \A i \in 1..k : g[i] = f[i]
  <2> HIDE DEF g, h
  <2> QED
    BY <1>1, <1>2
<1>4. \A i \in 1..(k + 1) : i = 1 \/ i - 1 \in 1..k
  OBVIOUS
<1>5. \A i \in 1..(k + 1) : Next(f, i) = Next(g, i)
  <2> HIDE DEF g
  <2> QED
    BY <1>3, <1>4
<1>6. g = [i \in 1..(k + 1) |-> Next(g, i)]
  <2> DEFINE g2 == [i \in 1..(k + 1) |-> Next(g, i)]
  <2>1. g = g2
    <3> HIDE DEF Next
    <3> QED
      BY <1>5
  <2> QED
    BY <2>1, Zenon
<1>7. Chaining(base, l, k + 1, g)
  <2> HIDE DEF g
  <2> QED
    BY <1>6, Zenon DEF Chaining
<1> QED
  BY <1>7, Zenon

LEMMA ChainingExists ==
  ASSUME NEW base, NEW l, NEW n \in Nat
  PROVE  \E f : Chaining(base, l, n, f)
<1> DEFINE T == {k \in Nat : \E f : Chaining(base, l, k, f)}
<1>1. 0 \in T
  <2> DEFINE f == [i \in 1..0 |-> 0]
  <2>1. f = [i \in 1..0 |-> IF i = 1 THEN base + 2 ELSE f[i - 1] + 2 + l[i - 1].length]
    OBVIOUS
  <2> HIDE DEF f
  <2>2. Chaining(base, l, 0, f)
    BY <2>1, Zenon DEF Chaining
  <2>3. 0 \in Nat
    OBVIOUS
  <2> QED
    BY <2>2, <2>3, Zenon
<1>2. ASSUME NEW k \in Nat, k \in T PROVE k + 1 \in T
  <2>1. PICK f : Chaining(base, l, k, f)
    BY <1>2, Zenon
  <2>2. \E g : Chaining(base, l, k + 1, g)
    BY <2>1, ChainingGrows
  <2>3. k + 1 \in Nat
    OBVIOUS
  <2> QED
    BY <2>2, <2>3, Zenon
<1>3. n \in T
  <2> HIDE DEF T
  <2> QED
    BY <1>1, <1>2, Induction
<1> QED
  BY <1>3, Zenon

\* The addresses of a chain: the first header after the marker, each next one after the model before it.
LEMMA Addresses ==
  ASSUME NEW base \in Nat, NEW l \in Seq(Models), NEW n \in Nat, n = Len(l) + 1,
         NEW f, Chaining(base, l, n, f)
  PROVE  /\ f[1] = base + 2 /\ \A i \in 1..n : f[i] \in Nat
         /\ \A i \in 1..Len(l) : f[i + 1] = f[i] + 2 + l[i].length
<1>1. f[1] = base + 2 /\ \A i \in 2..n : f[i] = f[i - 1] + 2 + l[i - 1].length
  <2> DEFINE g == [i \in 1..n |-> IF i = 1 THEN base + 2 ELSE f[i - 1] + 2 + l[i - 1].length]
  <2>1. f = g
    BY DEF Chaining
  <2>2. g[1] = base + 2 /\ \A i \in 2..n : g[i] = f[i - 1] + 2 + l[i - 1].length
    OBVIOUS
  <2> HIDE DEF g
  <2> QED
    BY <2>1, <2>2
<1>2. \A i \in 1..Len(l) : f[i + 1] = f[i] + 2 + l[i].length
  <2> TAKE i \in 1..Len(l)
  <2>1. i + 1 \in 2..n /\ i + 1 - 1 = i
    OBVIOUS
  <2> QED
    BY <1>1, <2>1
<1>3. \A i \in 1..Len(l) : l[i].length \in Nat
  BY InSequence, ModelIs
<1> DEFINE T == {k \in Nat : k + 1 <= n => f[k + 1] \in Nat}
<1>4. 0 \in T
  BY <1>1
<1>5. ASSUME NEW k \in Nat, k \in T PROVE k + 1 \in T
  <2> SUFFICES ASSUME k + 2 <= n PROVE f[k + 2] \in Nat
    OBVIOUS
  <2>1. k + 1 \in 1..Len(l) /\ f[k + 1] \in Nat /\ k + 1 + 1 = k + 2
    BY <1>5
  <2>2. f[k + 2] = f[k + 1] + 2 + l[k + 1].length
    BY <1>2, <2>1
  <2> QED
    BY <1>3, <2>1, <2>2
<1>6. \A k \in Nat : k \in T
  <2> HIDE DEF T
  <2> QED
    BY <1>4, <1>5, Induction
<1>7. \A i \in 1..n : f[i] \in Nat
  <2> TAKE i \in 1..n
  <2>1. i - 1 \in Nat /\ i - 1 + 1 = i /\ i <= n
    OBVIOUS
  <2> QED
    BY <1>6, <2>1
<1> QED
  BY <1>1, <1>2, <1>7

LEMMA LocatedIs ==
  ASSUME NEW base \in Nat, NEW l \in Seq(Models)
  PROVE  /\ Located(base, l) \in Seq(Found) /\ Len(Located(base, l)) = Len(l)
         /\ \A i \in 1..Len(l) :
               /\ Located(base, l)[i].length = l[i].length
               /\ Located(base, l)[i].kind = l[i].kind /\ Located(base, l)[i].n = l[i].n
               /\ i = 1 => Located(base, l)[i].at = base + 2
               /\ i # 1 => Located(base, l)[i].at = Located(base, l)[i - 1].at + 2 + l[i - 1].length
<1> DEFINE n == Len(l) + 1
           at == CHOOSE f : f = [i \in 1..n |-> IF i = 1 THEN base + 2 ELSE f[i - 1] + 2 + l[i - 1].length]
           m == [i \in DOMAIN l |-> [kind |-> l[i].kind, length |-> l[i].length, n |-> l[i].n, at |-> at[i]]]
<1>1. Located(base, l) = m
  BY Zenon DEF Located
<1>2. n \in Nat /\ DOMAIN l = 1..Len(l) /\ Len(l) \in Nat /\ \A i \in 1..Len(l) : l[i] \in Models
  OBVIOUS
<1>3. Chaining(base, l, n, at)
  <2>1. \E f : f = [i \in 1..n |-> IF i = 1 THEN base + 2 ELSE f[i - 1] + 2 + l[i - 1].length]
    <3>1. \E f : Chaining(base, l, n, f)
      BY <1>2, ChainingExists
    <3> QED
      BY <3>1, Zenon DEF Chaining
  <2>2. at = [i \in 1..n |-> IF i = 1 THEN base + 2 ELSE at[i - 1] + 2 + l[i - 1].length]
    BY <2>1, Zenon
  <2> HIDE DEF at
  <2> QED
    BY <2>2, Zenon DEF Chaining
<1> HIDE DEF at
<1>4. /\ at[1] = base + 2 /\ \A i \in 1..n : at[i] \in Nat
      /\ \A i \in 1..Len(l) : at[i + 1] = at[i] + 2 + l[i].length
  <2> DEFINE Is(f) == /\ f[1] = base + 2 /\ \A i \in 1..n : f[i] \in Nat
                      /\ \A i \in 1..Len(l) : f[i + 1] = f[i] + 2 + l[i].length
  <2>1. n \in Nat /\ n = Len(l) + 1
    BY <1>2
  <2> HIDE DEF n, m
  <2>2. \A f : Chaining(base, l, n, f) => Is(f)
    BY <2>1, Addresses
  <2> QED
    BY <1>3, <2>2, Zenon
<1>5. \A i \in 1..Len(l) : m[i] = [kind |-> l[i].kind, length |-> l[i].length, n |-> l[i].n, at |-> at[i]]
  BY <1>2
<1>6. \A i \in 1..Len(l) : m[i] \in Found /\ m[i].kind = l[i].kind /\ m[i].length = l[i].length /\ m[i].n = l[i].n /\ m[i].at = at[i]
  BY <1>2, <1>4, <1>5 DEF Found, Models
<1>7. m \in Seq(Found) /\ Len(m) = Len(l)
  BY <1>2, <1>6
<1> HIDE DEF m
<1>8. \A i \in 1..Len(l) : i # 1 => m[i].at = m[i - 1].at + 2 + l[i - 1].length
  <2> TAKE i \in 1..Len(l)
  <2> HAVE i # 1
  <2>1. i - 1 \in 1..Len(l) /\ i - 1 + 1 = i
    OBVIOUS
  <2>2. at[i] = at[i - 1] + 2 + l[i - 1].length
    BY <1>4, <2>1
  <2> QED
    BY <1>6, <2>1, <2>2
<1> QED
  BY <1>1, <1>4, <1>6, <1>7, <1>8

\* The first models of a chain are where they are in the whole.
LEMMA LocatedFirst ==
  ASSUME NEW base \in Nat, NEW l \in Seq(Models), NEW k \in 0..Len(l)
  PROVE  /\ SubSeq(l, 1, k) \in Seq(Models)
         /\ Located(base, SubSeq(l, 1, k)) = SubSeq(Located(base, l), 1, k)
<1> DEFINE s == SubSeq(l, 1, k)
           a == Located(base, s)
           b == Located(base, l)
<1>1. s \in Seq(Models) /\ Len(s) = k /\ \A i \in 1..k : s[i] = l[i]
  OBVIOUS
<1> HIDE DEF s
<1>2. /\ a \in Seq(Found) /\ Len(a) = k
      /\ \A i \in 1..k :
            /\ a[i].length = s[i].length /\ a[i].kind = s[i].kind /\ a[i].n = s[i].n
            /\ i = 1 => a[i].at = base + 2
            /\ i # 1 => a[i].at = a[i - 1].at + 2 + s[i - 1].length
  BY <1>1, LocatedIs
<1>3. /\ b \in Seq(Found) /\ Len(b) = Len(l)
      /\ \A i \in 1..Len(l) :
            /\ b[i].length = l[i].length /\ b[i].kind = l[i].kind /\ b[i].n = l[i].n
            /\ i = 1 => b[i].at = base + 2
            /\ i # 1 => b[i].at = b[i - 1].at + 2 + l[i - 1].length
  BY LocatedIs
<1> HIDE DEF a, b
<1> DEFINE T == {i \in Nat : i + 1 <= k => a[i + 1].at = b[i + 1].at}
<1>4. 0 \in T
  BY <1>2, <1>3
<1>5. ASSUME NEW i \in Nat, i \in T PROVE i + 1 \in T
  <2> SUFFICES ASSUME i + 2 <= k PROVE a[i + 2].at = b[i + 2].at
    OBVIOUS
  <2>1. i + 2 \in 1..k /\ i + 2 \in 1..Len(l) /\ i + 2 # 1 /\ i + 2 - 1 = i + 1 /\ i + 1 \in 1..k
    OBVIOUS
  <2>2. a[i + 2].at = a[i + 1].at + 2 + s[i + 1].length
    BY <1>2, <2>1
  <2>3. b[i + 2].at = b[i + 1].at + 2 + l[i + 1].length
    BY <1>3, <2>1
  <2>4. a[i + 1].at = b[i + 1].at
    BY <1>5, <2>1
  <2> QED
    BY <1>1, <2>1, <2>2, <2>3, <2>4
<1>6. \A i \in Nat : i \in T
  <2> HIDE DEF T
  <2> QED
    BY <1>4, <1>5, Induction
<1>7. \A i \in 1..k : a[i].at = b[i].at
  <2> TAKE i \in 1..k
  <2>1. i - 1 \in Nat /\ i - 1 + 1 = i /\ i <= k
    OBVIOUS
  <2> QED
    BY <1>6, <2>1
<1>8. \A i \in 1..k : a[i] = b[i]
  <2> TAKE i \in 1..k
  <2>1. a[i] \in Found /\ b[i] \in Found
    <3>1. i \in 1..Len(a) /\ i \in 1..Len(b)
      BY <1>2, <1>3
    <3> QED
      BY <1>2, <1>3, <3>1, InSequence, Zenon
  <2>2. a[i].kind = b[i].kind /\ a[i].length = b[i].length /\ a[i].n = b[i].n /\ a[i].at = b[i].at
    <3>1. i \in 1..Len(l) /\ s[i] = l[i]
      BY <1>1
    <3>2. a[i].kind = s[i].kind /\ a[i].length = s[i].length /\ a[i].n = s[i].n
      BY <1>2, Zenon
    <3>3. b[i].kind = l[i].kind /\ b[i].length = l[i].length /\ b[i].n = l[i].n
      BY <1>3, <3>1, Zenon
    <3>4. a[i].at = b[i].at
      BY <1>7, Zenon
    <3> QED
      BY <3>1, <3>2, <3>3, <3>4, Zenon
  <2> QED
    BY <2>1, <2>2, SameFound
<1>9. a = SubSeq(b, 1, k)
  BY <1>2, <1>3, <1>8
<1> QED
  BY <1>1, <1>9 DEF a, b, s

\* No two models are at one address, and none is behind the last.
LEMMA AddressesDiffer ==
  ASSUME NEW base \in Nat, NEW l \in Seq(Models)
  PROVE  /\ \A i, j \in 1..Len(l) : Located(base, l)[i].at = Located(base, l)[j].at => i = j
         /\ \A i \in 1..Len(l) :
               Located(base, l)[i].at < Located(base, l)[Len(l)].at + 2 + Located(base, l)[Len(l)].length
<1> DEFINE b == Located(base, l)
<1>1. /\ b \in Seq(Found) /\ Len(b) = Len(l)
      /\ \A i \in 1..Len(l) :
            /\ b[i].length = l[i].length
            /\ i # 1 => b[i].at = b[i - 1].at + 2 + l[i - 1].length
  BY LocatedIs
<1> HIDE DEF b
<1>2. \A i \in 1..Len(l) : b[i].at \in Nat /\ l[i].length \in Nat
  BY <1>1, InSequence, FoundIs, ModelIs
<1> DEFINE T == {d \in Nat : \A i, j \in 1..Len(l) : j = i + d + 1 => b[i].at < b[j].at}
<1>3. 0 \in T
  <2> SUFFICES ASSUME NEW i \in 1..Len(l), NEW j \in 1..Len(l), j = i + 0 + 1 PROVE b[i].at < b[j].at
    OBVIOUS
  <2>1. j # 1 /\ j - 1 = i
    OBVIOUS
  <2>2. b[j].at = b[i].at + 2 + l[i].length
    BY <1>1, <2>1
  <2> QED
    BY <1>2, <2>2
<1>4. ASSUME NEW d \in Nat, d \in T PROVE d + 1 \in T
  <2>0. d + 1 \in Nat
    OBVIOUS
  <2> SUFFICES ASSUME NEW i \in 1..Len(l), NEW j \in 1..Len(l), j = i + (d + 1) + 1 PROVE b[i].at < b[j].at
    BY <2>0, Zenon
  <2>1. j # 1 /\ j - 1 \in 1..Len(l) /\ j - 1 = i + d + 1
    OBVIOUS
  <2>2. b[i].at < b[j - 1].at
    BY <1>4, <2>1
  <2>3. b[j].at = b[j - 1].at + 2 + l[j - 1].length
    BY <1>1, <2>1
  <2> QED
    BY <1>2, <2>1, <2>2, <2>3
<1>5. \A d \in Nat : d \in T
  <2> HIDE DEF T
  <2> QED
    BY <1>3, <1>4, Induction
<1>6. ASSUME NEW i \in 1..Len(l), NEW j \in 1..Len(l), i < j PROVE b[i].at < b[j].at
  <2>1. j - i - 1 \in Nat /\ j = i + (j - i - 1) + 1
    BY <1>6
  <2> QED
    BY <1>5, <2>1
<1>7. ASSUME NEW i \in 1..Len(l), NEW j \in 1..Len(l), b[i].at = b[j].at PROVE i = j
  <2>1. i < j \/ j < i \/ i = j
    OBVIOUS
  <2> QED
    BY <1>2, <1>6, <1>7, <2>1
<1>8. ASSUME NEW i \in 1..Len(l) PROVE b[i].at < b[Len(l)].at + 2 + b[Len(l)].length
  <2>1. Len(l) \in 1..Len(l) /\ (i < Len(l) \/ i = Len(l))
    OBVIOUS
  <2>2. b[Len(l)].at \in Nat /\ b[Len(l)].length \in Nat /\ b[i].at \in Nat
    BY <1>1, <1>2, <2>1
  <2>3. b[i].at <= b[Len(l)].at
    BY <1>6, <2>1, <2>2
  <2> QED
    BY <2>2, <2>3
<1> QED
  BY <1>7, <1>8 DEF b

(* Anchors and rows. *)

\* A row of a discovered map is of a model that was found, in its place.
LEMMA OfKindIs ==
  ASSUME NEW ms \in Seq(Found), NEW k
  PROVE  OfKind(ms, k) \in Seq(Found) /\ \A m \in Range(OfKind(ms, k)) : m \in Range(ms) /\ m.kind = k
<1> DEFINE S == {m \in Range(ms) : m.kind = k}
<1>1. \A i \in DOMAIN ms : ms[i] \in Range(ms)
  BY DEF Range
<1>2. \A i \in DOMAIN ms : ms[i].kind = k <=> ms[i] \in S
  BY <1>1
<1>3. [i \in DOMAIN ms |-> IF ms[i].kind = k THEN <<ms[i]>> ELSE <<>>] = [i \in DOMAIN ms |-> IF ms[i] \in S THEN <<ms[i]>> ELSE <<>>]
  <2> HIDE DEF S
  <2> QED
    BY <1>2
<1>4. OfKind(ms, k) = Kept(ms, S)
  BY <1>3, Zenon DEF OfKind, Kept
<1>5. Kept(ms, S) \in Seq(Found) /\ Range(Kept(ms, S)) = Range(ms) \cap S
  BY KeptIs
<1> QED
  BY <1>4, <1>5

\* A model has room for its blocks.
LEMMA BlocksFit ==
  ASSUME NEW m \in Found, NEW read, NEW b \in 1..BlocksOf(m, read)
  PROVE  BlocksOf(m, read) \in Nat /\ m.at + FirstBlock + (b - 1) * BlockLength \in m.at..(m.at + 1 + m.length)
<1>1. m.length \in Nat /\ m.at \in Nat /\ m.n \in Nat
  BY FoundIs
<1>2. Capacity(m) \in Nat /\ (Capacity(m) # 0 => Capacity(m) * 2 <= m.length - 1)
  BY <1>1 DEF Capacity, FirstBlock, BlockLength
<1>3. BlocksOf(m, read) \in Nat /\ BlocksOf(m, read) <= Capacity(m)
  BY <1>1, <1>2 DEF BlocksOf, Smaller
<1>4. b \in Nat /\ 1 <= b /\ b <= Capacity(m)
  BY <1>2, <1>3
<1>5. (b - 1) * 2 <= m.length - 3 /\ 0 <= (b - 1) * 2 /\ (b - 1) * 2 \in Nat
  BY <1>1, <1>2, <1>4
<1> QED
  BY <1>1, <1>3, <1>4, <1>5 DEF FirstBlock, BlockLength

LEMMA BlockStartsAre ==
  ASSUME NEW ms \in Seq(Found), NEW read
  PROVE  /\ BlockStarts(ms, read) \in Seq(Nat)
         /\ \A x \in Range(BlockStarts(ms, read)) : \E m \in Range(ms) : m.kind = "mppt" /\ x \in m.at..(m.at + 1 + m.length)
<1> DEFINE s == OfKind(ms, "mppt")
           n == Len(s)
           blocks == [i \in DOMAIN s |-> [b \in 1..BlocksOf(s[i], read) |-> s[i].at + FirstBlock + (b - 1) * BlockLength]]
<1>1. s \in Seq(Found) /\ \A m \in Range(s) : m \in Range(ms) /\ m.kind = "mppt"
  BY OfKindIs
<1>2. BlockStarts(ms, read) = FlattenSeq(blocks)
  BY DEF BlockStarts
<1> HIDE DEF s
<1>3. n \in Nat /\ DOMAIN s = 1..n /\ \A i \in 1..n : s[i] \in Found /\ s[i] \in Range(s)
  BY <1>1, InSequence DEF Range
<1>4. ASSUME NEW i \in 1..n
      PROVE  blocks[i] \in Seq(Nat) /\ \A x \in Range(blocks[i]) : x \in s[i].at..(s[i].at + 1 + s[i].length)
  <2> DEFINE k == BlocksOf(s[i], read)
             q == [b \in 1..k |-> s[i].at + FirstBlock + (b - 1) * BlockLength]
  <2>1. s[i] \in Found /\ blocks[i] = q
    BY <1>3
  <2>2. s[i].at \in Nat /\ s[i].length \in Nat
    BY <2>1, FoundIs
  <2>3. k \in Nat
    <3>1. CASE 1..k = {}
      <4>1. s[i].n \in Nat
        BY <2>1, FoundIs
      <4>2. Capacity(s[i]) \in Nat
        BY <2>2 DEF Capacity, FirstBlock, BlockLength
      <4> QED
        BY <4>1, <4>2 DEF BlocksOf, Smaller
    <3>2. CASE 1..k # {}
      BY <2>1, <3>2, BlocksFit
    <3> QED
      BY <3>1, <3>2
  <2>4. \A b \in 1..k : q[b] \in s[i].at..(s[i].at + 1 + s[i].length)
    BY <2>1, BlocksFit
  <2> HIDE DEF k
  <2>5. \A b \in 1..k : q[b] \in Nat
    BY <2>2, <2>4
  <2>6. DOMAIN q = 1..k
    OBVIOUS
  <2> HIDE DEF q
  <2>7. q \in [1..k -> Nat]
    <3>1. q = [b \in 1..k |-> q[b]]
      BY DEF q
    <3> QED
      BY <2>5, <3>1
  <2>8. \A f \in [1..k -> Nat] : f \in Seq(Nat)
    BY <2>3
  <2> QED
    BY <2>1, <2>4, <2>6, <2>7, <2>8 DEF Range
<1> HIDE DEF n
<1>5. blocks \in [1..n -> Seq(Nat)]
  <2>1. DOMAIN blocks = 1..n /\ blocks = [i \in 1..n |-> blocks[i]]
    BY <1>3
  <2> HIDE DEF blocks
  <2> QED
    BY <1>4, <2>1
<1> HIDE DEF blocks
<1>6. FlattenSeq(blocks) \in Seq(Nat) /\ Range(FlattenSeq(blocks)) = UNION {Range(blocks[i]) : i \in 1..n}
  BY <1>3, <1>5, Flattened
<1>7. \A x \in Range(FlattenSeq(blocks)) : \E i \in 1..n : x \in Range(blocks[i])
  BY <1>6
<1>8. \A i \in 1..n : s[i] \in Range(ms) /\ s[i].kind = "mppt"
  BY <1>1, <1>3
<1> QED
  BY <1>2, <1>4, <1>6, <1>7, <1>8

LEMMA HeadersAre ==
  ASSUME NEW ms \in Seq(Found), NEW k
  PROVE  /\ Headers(ms, k) \in Seq(Nat)
         /\ \A x \in Range(Headers(ms, k)) : \E m \in Range(ms) : m.kind = k /\ x \in m.at..(m.at + 1 + m.length)
<1> DEFINE s == OfKind(ms, k)
           n == Len(s)
           h == [i \in 1..n |-> s[i].at]
<1>1. s \in Seq(Found) /\ \A m \in Range(s) : m \in Range(ms) /\ m.kind = k
  BY OfKindIs
<1>2. Headers(ms, k) = [i \in DOMAIN s |-> s[i].at]
  BY DEF Headers
<1> HIDE DEF s
<1>3. n \in Nat /\ DOMAIN s = 1..n /\ \A i \in 1..n : s[i] \in Found /\ s[i] \in Range(s)
  BY <1>1, InSequence DEF Range
<1>4. \A i \in 1..n : s[i].at \in Nat /\ s[i].length \in Nat
  BY <1>3, FoundIs
<1>5. h \in Seq(Nat) /\ Headers(ms, k) = h
  BY <1>2, <1>3, <1>4
<1>6. \A x \in Range(h) : \E i \in 1..n : x = s[i].at
  BY DEF Range
<1>7. \A i \in 1..n : s[i].at \in s[i].at..(s[i].at + 1 + s[i].length)
  BY <1>4
<1> HIDE DEF h
<1>8. ASSUME NEW x \in Range(h)
      PROVE  \E m \in Range(ms) : m.kind = k /\ x \in m.at..(m.at + 1 + m.length)
  <2>1. PICK i \in 1..n : x = s[i].at
    BY <1>6
  <2>2. s[i] \in Range(ms) /\ s[i].kind = k
    BY <1>1, <1>3
  <2> QED
    BY <1>7, <2>1, <2>2
<1> QED
  BY <1>5, <1>8

\* What owned anchors are: a list of addresses per kind.
AnchorLists == [inverter : Seq(Nat), meter : Seq(Nat), mppt : Seq(Nat)]

LEMMA AnchorsAre ==
  ASSUME NEW ms \in Seq(Found), NEW read
  PROVE  /\ BuildAnchors(ms, read) \in AnchorLists
         /\ \A k \in Kinds : \A i \in DOMAIN BuildAnchors(ms, read)[k] :
               \E m \in Range(ms) : m.kind = k /\ BuildAnchors(ms, read)[k][i] \in m.at..(m.at + 1 + m.length)
<1>1. BuildAnchors(ms, read) \in AnchorLists
  BY HeadersAre, BlockStartsAre, Zenon DEF BuildAnchors, AnchorLists
<1>2. /\ BuildAnchors(ms, read)["inverter"] = Headers(ms, "inverter")
      /\ BuildAnchors(ms, read)["meter"] = Headers(ms, "meter")
      /\ BuildAnchors(ms, read)["mppt"] = BlockStarts(ms, read)
  BY DEF BuildAnchors
<1>3. \A q : \A i \in DOMAIN q : q[i] \in Range(q)
  BY DEF Range
<1>4. ASSUME NEW k \in Kinds, NEW i \in DOMAIN BuildAnchors(ms, read)[k]
      PROVE  \E m \in Range(ms) : m.kind = k /\ BuildAnchors(ms, read)[k][i] \in m.at..(m.at + 1 + m.length)
  <2>1. CASE k = "inverter"
    BY <1>2, <1>3, <1>4, <2>1, HeadersAre
  <2>2. CASE k = "meter"
    BY <1>2, <1>3, <1>4, <2>2, HeadersAre
  <2>3. CASE k = "mppt"
    BY <1>2, <1>3, <1>4, <2>3, BlockStartsAre
  <2> QED
    BY <2>1, <2>2, <2>3 DEF Kinds
<1> QED
  BY <1>1, <1>4

\* The rows of a list of addresses per kind, and at most the one of a probe.
LEMMA RowsAre ==
  ASSUME NEW anch, anch.owned \in AnchorLists, NEW row \in ExpandRows(anch)
  PROVE  \/ row = <<"legacy", 1, 0>>
         \/ \E k \in Kinds : \E i \in DOMAIN anch.owned[k] :
               row = <<k, i, anch.owned[k][i]>> /\ i \in Nat /\ anch.owned[k][i] \in Nat
<1>1. \A k \in Kinds : anch.owned[k] \in Seq(Nat)
  BY DEF Kinds, AnchorLists
<1>2. \A k \in Kinds : \A i \in DOMAIN anch.owned[k] : i \in Nat /\ anch.owned[k][i] \in Nat
  BY <1>1, InSequence
<1>3. \/ row \in UNION {{<<k, i, anch.owned[k][i]>> : i \in DOMAIN anch.owned[k]} : k \in Kinds}
      \/ row \in (IF anch.legacy = 1 THEN {<<"legacy", 1, 0>>} ELSE {})
  BY Zenon DEF ExpandRows
<1>4. CASE row \in (IF anch.legacy = 1 THEN {<<"legacy", 1, 0>>} ELSE {})
  BY <1>4
<1>5. CASE row \in UNION {{<<k, i, anch.owned[k][i]>> : i \in DOMAIN anch.owned[k]} : k \in Kinds}
  <2>1. PICK k \in Kinds : row \in {<<k, i, anch.owned[k][i]>> : i \in DOMAIN anch.owned[k]}
    BY <1>5, Zenon
  <2> QED
    BY <1>2, <2>1, Zenon
<1> QED
  BY <1>3, <1>4, <1>5

Chain == Located(markerAt, layout)
Reach == Smaller(Len(layout), MaxModels)

\* The header that follows the models walked.
HeaderAfter(base, ms) == IF ms = <<>> THEN base + 2 ELSE ms[Len(ms)].at + 2 + ms[Len(ms)].length

\* The types, and what is known of an instance before its walk.
WalkTypes ==
    /\ layout \in Layouts /\ markerAt \in Range(Bases) /\ early \in {0, 1} /\ missedNothing \in BOOLEAN
    /\ suits \in BOOLEAN /\ identified \in BOOLEAN
    /\ stage \in {"off", "writes", "marker", "headers", "counts", "probe", "apply", "identify", "ready"}
    /\ candidate \in 1..Len(Bases) /\ nextHeader \in Nat /\ probe \in 0..2
    /\ walked \in Seq(Found) /\ Len(walked) <= MaxModels
    /\ anchors \in [owned : AnchorLists, legacy : {0, 1}]

FreshInv ==
    /\ firstConnect => stage = "off"
    /\ firstConnect \/ stage = "writes" => candidate = 1
    /\ firstConnect \/ stage \in {"writes", "marker"} => nextHeader = 0 /\ walked = <<>>

\* A walk goes along the chain, one header after the other; one that got every answer
\* has found the marker, the whole chain, the block counts and what the probe looks for.
WalkInv ==
    /\ stage = "marker" /\ missedNothing => \E j \in candidate..Len(Bases) : Bases[j] = markerAt
    /\ stage = "headers" =>
          /\ Provided /\ nextHeader = HeaderAfter(markerAt, walked)
          /\ Len(walked) <= Reach /\ walked = SubSeq(Chain, 1, Len(walked))
    /\ missedNothing /\ stage \notin {"writes", "marker", "headers"} =>
          Provided /\ walked = SubSeq(Chain, 1, Reach)
    /\ missedNothing /\ stage \notin {"writes", "marker", "headers", "counts"} => counts = NReadable(walked)
    /\ missedNothing /\ stage \notin {"writes", "marker", "headers", "counts", "probe"} => probe = early
    /\ Provided /\ stage \notin {"writes", "marker", "headers", "counts", "probe", "apply"} => anchors = Merged

DeviceInv == WalkTypes /\ FreshInv /\ WalkInv

LEMMA BasesAre == Bases \in Seq(Nat) /\ Len(Bases) \in Nat \ {0} /\ \A j \in 1..Len(Bases) : Bases[j] \in Nat
<1>1. Bases \in Seq(Nat) /\ DefaultBase \in Range(Bases)
  BY DeviceStartupAssumption
<1>2. Len(Bases) \in Nat /\ DOMAIN Bases = 1..Len(Bases) /\ \A j \in 1..Len(Bases) : Bases[j] \in Nat
  BY <1>1, InSequence
<1> QED
  BY <1>1, <1>2 DEF Range

LEMMA ChainIs ==
  ASSUME WalkTypes
  PROVE  /\ markerAt \in Nat /\ layout \in Seq(Models) /\ Len(layout) \in Nat
         /\ Chain \in Seq(Found) /\ Len(Chain) = Len(layout)
         /\ Reach \in Nat /\ Reach <= Len(layout) /\ Reach <= MaxModels /\ (Reach = Len(layout) \/ Reach = MaxModels)
<1>1. markerAt \in Nat
  BY BasesAre DEF WalkTypes, Range
<1>2. layout \in Seq(Models) /\ Len(layout) \in Nat
  BY DeviceStartupAssumption, InSequence DEF WalkTypes
<1>3. Chain \in Seq(Found) /\ Len(Chain) = Len(layout)
  BY <1>1, <1>2, LocatedIs DEF Chain
<1> QED
  BY <1>1, <1>2, <1>3, DeviceStartupAssumption DEF Reach, Smaller

\* The models found are the first of the chain: the next header is that of the next one, if there is one.
LEMMA NextInChain ==
  ASSUME NEW base \in Nat, NEW l \in Seq(Models), NEW k \in 0..Len(l),
         NEW ms, ms = SubSeq(Located(base, l), 1, k)
  PROVE  /\ ms \in Seq(Found) /\ Len(ms) = k
         /\ \A j \in 1..Len(l) : Located(base, l)[j].at = HeaderAfter(base, ms) => j = k + 1
         /\ k < Len(l) => Located(base, l)[k + 1].at = HeaderAfter(base, ms)
<1> DEFINE b == Located(base, l)
<1>1. /\ b \in Seq(Found) /\ Len(b) = Len(l)
      /\ \A i \in 1..Len(l) :
            /\ b[i].length = l[i].length
            /\ i = 1 => b[i].at = base + 2
            /\ i # 1 => b[i].at = b[i - 1].at + 2 + l[i - 1].length
  BY LocatedIs
<1>2. /\ \A i, j \in 1..Len(l) : b[i].at = b[j].at => i = j
      /\ \A i \in 1..Len(l) : b[i].at < b[Len(l)].at + 2 + b[Len(l)].length
  BY AddressesDiffer
<1>3. Len(l) \in Nat
  BY InSequence
<1>4. ms = SubSeq(b, 1, k)
  OBVIOUS
<1> HIDE DEF b
<1>5. ms \in Seq(Found) /\ Len(ms) = k /\ \A i \in 1..k : ms[i] = b[i]
  BY <1>1, <1>3, <1>4
<1>6. \A j \in 1..Len(l) : b[j].at \in Nat /\ b[j].length \in Nat
  BY <1>1, InSequence, FoundIs
<1>7. k < Len(l) => b[k + 1].at = HeaderAfter(base, ms)
  <2> HAVE k < Len(l)
  <2>1. CASE k = 0
    <3>1. ms = <<>> /\ 1 \in 1..Len(l)
      BY <1>3, <1>5, <2>1
    <3>2. HeaderAfter(base, ms) = base + 2
      BY <3>1 DEF HeaderAfter
    <3> QED
      BY <1>1, <2>1, <3>1, <3>2
  <2>2. CASE k # 0
    <3>0. ms # <<>>
      BY <1>5, <2>2, Len(<<>>) = 0
    <3>1. ms # <<>> /\ k \in 1..k /\ k + 1 \in 1..Len(l) /\ k + 1 # 1 /\ k + 1 - 1 = k /\ k \in 1..Len(l)
      BY <1>3, <2>2, <3>0
    <3>2. HeaderAfter(base, ms) = b[k].at + 2 + b[k].length
      BY <1>5, <3>1 DEF HeaderAfter
    <3> QED
      BY <1>1, <3>1, <3>2
  <2> QED
    BY <2>1, <2>2
<1>8. ASSUME NEW j \in 1..Len(l), b[j].at = HeaderAfter(base, ms) PROVE j = k + 1
  <2>1. CASE k < Len(l)
    <3>1. k + 1 \in 1..Len(l)
      BY <1>3, <2>1
    <3> QED
      BY <1>2, <1>7, <1>8, <2>1, <3>1
  <2>2. CASE k = Len(l)
    <3>0. k # 0
      BY <1>3, <2>2
    <3>1. ms # <<>>
      BY <1>5, <3>0, Len(<<>>) = 0
    <3>2. HeaderAfter(base, ms) = b[Len(l)].at + 2 + b[Len(l)].length
      <4>1. k \in 1..k /\ HeaderAfter(base, ms) = ms[k].at + 2 + ms[k].length
        BY <1>5, <3>0, <3>1 DEF HeaderAfter
      <4> QED
        BY <1>5, <2>2, <4>1
    <3>3. b[j].at < b[j].at /\ b[j].at \in Nat
      BY <1>2, <1>6, <1>8, <3>2
    <3> QED
      BY <3>3
  <2> QED
    BY <1>3, <2>1, <2>2
<1> QED
  BY <1>5, <1>7, <1>8 DEF b

LEMMA DefaultsAre == DefaultAnchors \in [owned : AnchorLists, legacy : {0, 1}]
<1>1. DefaultBase \in Nat
  BY BasesAre, DeviceStartupAssumption DEF Range
<1>2. DefaultLayout \in Seq(Models)
  BY DeviceStartupAssumption
<1>3. Located(DefaultBase, DefaultLayout) \in Seq(Found)
  BY <1>1, <1>2, LocatedIs
<1>4. ChainAnchors(DefaultBase, DefaultLayout) \in AnchorLists
  BY <1>3, AnchorsAre, Zenon DEF ChainAnchors
<1> QED
  BY <1>4 DEF DefaultAnchors

LEMMA MergedIs == ASSUME WalkTypes PROVE Merged \in [owned : AnchorLists, legacy : {0, 1}]
<1>1. BuildAnchors(walked, counts) \in AnchorLists
  BY AnchorsAre DEF WalkTypes
<1>2. DefaultAnchors.owned \in AnchorLists /\ DefaultAnchors.legacy \in {0, 1}
  BY DefaultsAre
<1>3. (IF Provided THEN BuildAnchors(walked, counts) ELSE DefaultAnchors.owned) \in AnchorLists
  BY <1>1, <1>2
<1>4. (IF probe = 2 THEN DefaultAnchors.legacy ELSE probe) \in {0, 1}
  BY <1>2 DEF WalkTypes
<1> QED
  BY <1>3, <1>4 DEF Merged

LEMMA NewInstanceInv ==
  ASSUME WalkTypes, NEW first \in BOOLEAN, NewInstance(first), UNCHANGED <<device, writeSetup>>
  PROVE  DeviceInv'
<1>1. /\ stage' = "off" /\ candidate' = 1 /\ nextHeader' = 0 /\ walked' = <<>> /\ probe' = 2
      /\ anchors' = DefaultAnchors /\ missedNothing' = FALSE /\ identified' = FALSE
      /\ layout' = layout /\ markerAt' = markerAt /\ early' = early /\ suits' = suits
  BY DEF NewInstance, device, writeSetup
<1>2. 1 \in 1..Len(Bases) /\ <<>> \in Seq(Found) /\ Len(<<>>) = 0 /\ 0 <= MaxModels
  BY BasesAre, DeviceStartupAssumption
<1>3. anchors' \in [owned : AnchorLists, legacy : {0, 1}]
  BY <1>1, DefaultsAre
<1>4. WalkTypes'
  <2>1. /\ layout \in Layouts /\ markerAt \in Range(Bases) /\ early \in {0, 1} /\ suits \in BOOLEAN
    BY DEF WalkTypes
  <2>2. walked' \in Seq(Found) /\ Len(walked') <= MaxModels
    BY <1>1, <1>2
  <2>3. /\ stage' \in {"off", "writes", "marker", "headers", "counts", "probe", "apply", "identify", "ready"}
        /\ missedNothing' \in BOOLEAN /\ identified' \in BOOLEAN
    BY <1>1, Zenon
  <2>5. candidate' \in 1..Len(Bases) /\ nextHeader' \in Nat /\ probe' \in 0..2
    BY <1>1, <1>2
  <2>4. /\ layout' \in Layouts /\ markerAt' \in Range(Bases) /\ early' \in {0, 1} /\ suits' \in BOOLEAN
    BY <1>1, <2>1
  <2> QED
    BY <1>3, <2>2, <2>3, <2>4, <2>5 DEF WalkTypes
<1>5. FreshInv'
  BY <1>1 DEF FreshInv
<1>6. WalkInv'
  BY <1>1 DEF WalkInv, Provided
<1> QED
  BY <1>4, <1>5, <1>6 DEF DeviceInv

LEMMA DialDeviceInv == ASSUME DeviceInv, DialDevice PROVE DeviceInv'
<1>1. /\ stage = "off" /\ stage' = IF firstConnect THEN "writes" ELSE "ready"
      /\ firstConnect' = FALSE /\ missedNothing' = (missedNothing \/ firstConnect)
      /\ candidate' = candidate /\ nextHeader' = nextHeader /\ walked' = walked /\ counts' = counts /\ probe' = probe
      /\ anchors' = anchors /\ layout' = layout /\ markerAt' = markerAt /\ early' = early
      /\ suits' = suits /\ identified' = identified
  BY DEF DialDevice, device, writeSetup, walk, map
<1>2. WalkTypes'
  BY <1>1 DEF DeviceInv, WalkTypes, FreshInv
<1>3. FreshInv'
  BY <1>1 DEF DeviceInv, FreshInv
<1>4. Provided' = Provided /\ Chain' = Chain /\ Reach' = Reach /\ Merged' = Merged
  BY <1>1 DEF Provided, Chain, Reach, Merged
<1>5. WalkInv'
  <2>1. CASE firstConnect
    <3>1. stage' = "writes" /\ ~Provided'
      BY <1>1, <2>1 DEF DeviceInv, FreshInv, Provided
    <3> QED
      BY <3>1 DEF WalkInv
  <2>2. CASE ~firstConnect
    <3>1. stage' = "ready" /\ (missedNothing' => missedNothing)
      BY <1>1, <2>2 DEF DeviceInv, WalkTypes
    <3> QED
      BY <1>1, <1>4, <3>1 DEF DeviceInv, WalkInv
  <2> QED
    BY <2>1, <2>2
<1> QED
  BY <1>2, <1>3, <1>5 DEF DeviceInv

LEMMA EnableWriteInv == ASSUME DeviceInv, EnableWrite PROVE DeviceInv'
<1>1. /\ stage = "writes" /\ stage' = "marker" /\ firstConnect' = firstConnect /\ missedNothing' = missedNothing
      /\ candidate' = candidate /\ nextHeader' = nextHeader /\ walked' = walked /\ counts' = counts /\ probe' = probe
      /\ anchors' = anchors /\ layout' = layout /\ markerAt' = markerAt /\ early' = early
      /\ suits' = suits /\ identified' = identified
  BY DEF EnableWrite, device, writeSetup, walk
<1>2. WalkTypes'
  BY <1>1 DEF DeviceInv, WalkTypes
<1>3. FreshInv'
  BY <1>1 DEF DeviceInv, FreshInv
<1>4. \E j \in candidate..Len(Bases) : Bases[j] = markerAt
  <2>1. candidate = 1 /\ markerAt \in Range(Bases) /\ DOMAIN Bases = 1..Len(Bases)
    BY <1>1, BasesAre, InSequence DEF DeviceInv, FreshInv, WalkTypes
  <2> QED
    BY <2>1 DEF Range
<1>5. ~Provided'
  BY <1>1 DEF DeviceInv, FreshInv, Provided
<1>6. WalkInv'
  BY <1>1, <1>4, <1>5 DEF WalkInv
<1> QED
  BY <1>2, <1>3, <1>6 DEF DeviceInv

LEMMA FindMarkerInv == ASSUME DeviceInv, FindMarker PROVE DeviceInv'
<1>1. /\ stage = "marker" /\ firstConnect' = firstConnect
      /\ walked' = walked /\ counts' = counts /\ probe' = probe
      /\ anchors' = anchors /\ layout' = layout /\ markerAt' = markerAt /\ early' = early
      /\ suits' = suits /\ identified' = identified
  BY DEF FindMarker, device, writeSetup, map
<1>2. nextHeader = 0 /\ walked = <<>> /\ ~firstConnect
  BY <1>1 DEF DeviceInv, FreshInv
<1>3. /\ candidate \in 1..Len(Bases) /\ Len(Bases) \in Nat /\ missedNothing \in BOOLEAN
      /\ missedNothing => \E j \in candidate..Len(Bases) : Bases[j] = markerAt
  BY <1>1, BasesAre DEF DeviceInv, WalkTypes, WalkInv
<1>4. markerAt \in Nat /\ Chain \in Seq(Found) /\ Reach \in Nat
  BY ChainIs DEF DeviceInv
<1>5. CASE /\ Answered /\ Bases[candidate] = markerAt
           /\ stage' = "headers" /\ nextHeader' = markerAt + 2 /\ UNCHANGED candidate
  <2>1. nextHeader' \in Nat /\ nextHeader' # 0 /\ missedNothing' = missedNothing
    BY <1>4, <1>5 DEF Answered
  <2>2. WalkTypes'
    BY <1>1, <1>5, <2>1 DEF DeviceInv, WalkTypes
  <2>3. FreshInv'
    BY <1>1, <1>2, <1>5 DEF FreshInv
  <2>4. Len(walked') = 0 /\ walked' = SubSeq(Chain, 1, 0) /\ 0 <= Reach
    BY <1>1, <1>2, <1>4
  <2>5. nextHeader' = HeaderAfter(markerAt, <<>>)
    BY <1>5 DEF HeaderAfter
  <2>6. Chain' = Chain /\ Reach' = Reach
    BY <1>1 DEF Chain, Reach
  <2>7. WalkInv'
    BY <1>1, <1>2, <1>5, <2>1, <2>4, <2>5, <2>6 DEF WalkInv, Provided
  <2> QED
    BY <2>2, <2>3, <2>7 DEF DeviceInv
<1>6. CASE /\ IF Bases[candidate] = markerAt THEN Silent ELSE Answered
           /\ UNCHANGED nextHeader
           /\ candidate < Len(Bases) /\ candidate' = candidate + 1 /\ UNCHANGED stage
  <2>1. missedNothing' \in BOOLEAN /\ (missedNothing' => missedNothing /\ Bases[candidate] # markerAt)
    BY <1>3, <1>6 DEF Answered, Silent
  <2>2. candidate' \in 1..Len(Bases)
    BY <1>3, <1>6
  <2>3. WalkTypes'
    BY <1>1, <1>6, <2>1, <2>2 DEF DeviceInv, WalkTypes
  <2>4. FreshInv'
    BY <1>1, <1>2, <1>6 DEF FreshInv
  <2>5. missedNothing' => \E j \in (candidate + 1)..Len(Bases) : Bases[j] = markerAt
    <3> HAVE missedNothing'
    <3>1. PICK j \in candidate..Len(Bases) : Bases[j] = markerAt
      BY <1>3, <2>1
    <3>2. j # candidate
      BY <2>1, <3>1
    <3>3. j \in (candidate + 1)..Len(Bases)
      BY <1>3, <3>1, <3>2
    <3> QED
      BY <3>1, <3>3
  <2>6. WalkInv'
    BY <1>1, <1>2, <1>6, <2>5 DEF WalkInv, Provided
  <2> QED
    BY <2>3, <2>4, <2>6 DEF DeviceInv
<1>7. CASE /\ IF Bases[candidate] = markerAt THEN Silent ELSE Answered
           /\ UNCHANGED nextHeader
           /\ ~(candidate < Len(Bases)) /\ stage' = "probe" /\ UNCHANGED candidate
  <2>1. missedNothing' \in BOOLEAN /\ (missedNothing' => missedNothing /\ Bases[candidate] # markerAt)
    BY <1>3, <1>7 DEF Answered, Silent
  <2>2. ~missedNothing'
    <3> SUFFICES ASSUME missedNothing' PROVE FALSE
      OBVIOUS
    <3>1. PICK j \in candidate..Len(Bases) : Bases[j] = markerAt
      BY <1>3, <2>1
    <3>2. j = candidate
      BY <1>3, <1>7, <3>1
    <3> QED
      BY <2>1, <3>1, <3>2
  <2>3. WalkTypes'
    BY <1>1, <1>7, <2>1 DEF DeviceInv, WalkTypes
  <2>4. FreshInv'
    BY <1>1, <1>2, <1>7 DEF FreshInv
  <2>5. WalkInv'
    BY <1>1, <1>2, <1>7, <2>2 DEF WalkInv, Provided
  <2> QED
    BY <2>3, <2>4, <2>5 DEF DeviceInv
<1> QED
  BY <1>5, <1>6, <1>7 DEF FindMarker

LEMMA ReadHeaderInv == ASSUME DeviceInv, ReadHeader PROVE DeviceInv'
<1>1. /\ stage = "headers" /\ firstConnect' = firstConnect
      /\ candidate' = candidate /\ counts' = counts /\ probe' = probe
      /\ anchors' = anchors /\ layout' = layout /\ markerAt' = markerAt /\ early' = early
      /\ suits' = suits /\ identified' = identified
  BY DEF ReadHeader, device, writeSetup, map
<1>2. /\ ~firstConnect /\ missedNothing \in BOOLEAN /\ nextHeader # 0
      /\ nextHeader = HeaderAfter(markerAt, walked) /\ Len(walked) <= Reach /\ walked = SubSeq(Chain, 1, Len(walked))
  BY <1>1 DEF DeviceInv, FreshInv, WalkInv, WalkTypes, Provided
<1>3. /\ markerAt \in Nat /\ layout \in Seq(Models) /\ Len(layout) \in Nat
      /\ Chain \in Seq(Found) /\ Len(Chain) = Len(layout)
      /\ Reach \in Nat /\ Reach <= Len(layout) /\ Reach <= MaxModels /\ (Reach = Len(layout) \/ Reach = MaxModels)
  BY ChainIs DEF DeviceInv
<1>4. walked \in Seq(Found) /\ Len(walked) \in Nat /\ nextHeader \in Nat
  BY InSequence DEF DeviceInv, WalkTypes
<1>5. /\ \A j \in 1..Len(layout) : Chain[j].at = nextHeader => j = Len(walked) + 1
      /\ Len(walked) < Len(layout) => Chain[Len(walked) + 1].at = nextHeader
  <2>1. Len(walked) \in 0..Len(layout)
    BY <1>2, <1>3, <1>4
  <2> QED
    BY <1>2, <1>3, <2>1, NextInChain DEF Chain
<1>6. MaxModels \in Nat
  BY DeviceStartupAssumption
<1>7. Chain' = Chain /\ Reach' = Reach
  BY <1>1 DEF Chain, Reach
<1> DEFINE here == {m \in Range(Chain) : m.at = nextHeader}
<1>8. CASE /\ Len(walked) < MaxModels /\ Answered
           /\ \E m \in here : walked' = Append(walked, m) /\ nextHeader' = nextHeader + 2 + m.length
           /\ UNCHANGED stage
  <2>1. PICK m \in here : walked' = Append(walked, m) /\ nextHeader' = nextHeader + 2 + m.length
    BY <1>8
  <2>2. PICK j \in 1..Len(layout) : m = Chain[j] /\ Chain[j].at = nextHeader
    BY <1>3, <2>1 DEF Range
  <2>3. j = Len(walked) + 1
    BY <1>5, <2>2
  <2>4. m \in Found /\ m.at = nextHeader /\ m.length \in Nat
    BY <1>3, <2>2, InSequence, FoundIs
  <2>5. /\ walked' \in Seq(Found) /\ Len(walked') = Len(walked) + 1 /\ walked' # <<>>
        /\ walked'[Len(walked) + 1] = m /\ \A i \in 1..Len(walked) : walked'[i] = walked[i]
    BY <1>4, <2>1, <2>4
  <2>6. Len(walked') <= Reach
    BY <1>3, <1>4, <1>8, <2>2, <2>3, <2>5
  <2>7. \A i \in 1..Len(walked) : walked[i] = Chain[i]
    BY <1>2, <1>3, <1>4
  <2>8. walked' = SubSeq(Chain, 1, Len(walked'))
    <3>1. \A i \in 1..Len(walked') : walked'[i] = Chain[i]
      BY <1>4, <2>2, <2>3, <2>5, <2>7
    <3>2. Len(walked') \in 0..Len(Chain)
      BY <1>3, <1>4, <2>5, <2>6
    <3> QED
      BY <1>3, <2>5, <3>1, <3>2
  <2>9. nextHeader' = HeaderAfter(markerAt, walked') /\ nextHeader' \in Nat /\ nextHeader' # 0
    <3>1. walked'[Len(walked')] = m
      BY <2>5
    <3>2. HeaderAfter(markerAt, walked') = m.at + 2 + m.length
      BY <2>5, <3>1 DEF HeaderAfter
    <3> QED
      BY <1>4, <2>1, <2>4, <3>2
  <2>10. missedNothing' = missedNothing
    BY <1>8 DEF Answered
  <2>11. WalkTypes'
    BY <1>1, <1>3, <1>6, <1>8, <2>5, <2>6, <2>9, <2>10 DEF DeviceInv, WalkTypes
  <2>12. FreshInv'
    BY <1>1, <1>2, <1>8 DEF FreshInv
  <2>13. WalkInv'
    BY <1>1, <1>7, <1>8, <2>6, <2>8, <2>9 DEF WalkInv, Provided
  <2> QED
    BY <2>11, <2>12, <2>13 DEF DeviceInv
<1>9. CASE /\ (here = {} \/ Len(walked) = MaxModels)
           /\ Answered /\ stage' = "counts" /\ UNCHANGED <<walked, nextHeader>>
  <2>1. missedNothing' = missedNothing /\ walked' = walked /\ nextHeader' = nextHeader
    BY <1>9 DEF Answered
  <2>2. WalkTypes'
    BY <1>1, <1>9, <2>1 DEF DeviceInv, WalkTypes
  <2>3. FreshInv'
    BY <1>1, <1>2, <1>9 DEF FreshInv
  <2>4. Len(walked) = Reach
    <3>0. Len(walked) <= Reach
      BY <1>2
    <3>1. CASE Len(walked) = MaxModels
      BY <1>3, <1>4, <1>6, <3>0, <3>1
    <3>2. CASE here = {}
      <4>1. ~(Len(walked) < Len(layout))
        <5> SUFFICES ASSUME Len(walked) < Len(layout) PROVE FALSE
          OBVIOUS
        <5>1. Len(walked) + 1 \in DOMAIN Chain /\ Chain[Len(walked) + 1].at = nextHeader
          BY <1>3, <1>4, <1>5
        <5>2. Chain[Len(walked) + 1] \in here
          BY <5>1 DEF Range
        <5> QED
          BY <3>2, <5>2
      <4> QED
        BY <1>3, <1>4, <1>6, <3>0, <4>1
    <3> QED
      BY <1>9, <3>1, <3>2
  <2>5. WalkInv'
    BY <1>1, <1>2, <1>7, <1>9, <2>1, <2>4 DEF WalkInv, Provided
  <2> QED
    BY <2>2, <2>3, <2>5 DEF DeviceInv
<1>10. CASE Silent /\ stage' = "counts" /\ UNCHANGED <<walked, nextHeader>>
  <2>1. missedNothing' = FALSE
    BY <1>10 DEF Silent
  <2>2. WalkTypes'
    BY <1>1, <1>10, <2>1 DEF DeviceInv, WalkTypes
  <2>3. FreshInv'
    BY <1>1, <1>2, <1>10 DEF FreshInv
  <2>4. WalkInv'
    BY <1>10, <2>1 DEF WalkInv
  <2> QED
    BY <2>2, <2>3, <2>4 DEF DeviceInv
<1>11. Located(markerAt, layout) = Chain
  BY DEF Chain
<1> HIDE DEF here
<1>12. \/ /\ Len(walked) < MaxModels /\ Answered
          /\ \E m \in here : walked' = Append(walked, m) /\ nextHeader' = nextHeader + 2 + m.length
          /\ UNCHANGED stage
       \/ /\ here = {} \/ Len(walked) = MaxModels
          /\ Answered /\ stage' = "counts" /\ UNCHANGED <<walked, nextHeader>>
       \/ Silent /\ stage' = "counts" /\ UNCHANGED <<walked, nextHeader>>
  BY <1>11, Zenon DEF ReadHeader, here
<1> QED
  BY <1>8, <1>9, <1>10, <1>12

LEMMA CountsAndProbesInv == ASSUME DeviceInv, ReadBlockCounts \/ RunProbes PROVE DeviceInv'
<1>1. /\ ~firstConnect /\ firstConnect' = firstConnect /\ candidate' = candidate /\ nextHeader' = nextHeader /\ walked' = walked
      /\ anchors' = anchors /\ layout' = layout /\ markerAt' = markerAt /\ early' = early
      /\ suits' = suits /\ identified' = identified
  BY DEF ReadBlockCounts, RunProbes, device, writeSetup, map, DeviceInv, FreshInv
<1>2. missedNothing \in BOOLEAN /\ early \in {0, 1}
  BY DEF DeviceInv, WalkTypes
<1>3. Provided' = Provided /\ Chain' = Chain /\ Reach' = Reach /\ NReadable(walked)' = NReadable(walked)
  BY <1>1 DEF Provided, Chain, Reach
<1>4. CASE ReadBlockCounts
  <2>1. stage = "counts" /\ stage' = "probe" /\ probe' = probe
    BY <1>4 DEF ReadBlockCounts
  <2>2. missedNothing' \in BOOLEAN /\ (missedNothing' => missedNothing /\ counts' = NReadable(walked))
    BY <1>2, <1>4 DEF ReadBlockCounts, Answered, Silent
  <2>3. WalkTypes'
    BY <1>1, <2>1, <2>2 DEF DeviceInv, WalkTypes
  <2>4. FreshInv'
    BY <1>1, <2>1 DEF DeviceInv, FreshInv
  <2>5. WalkInv'
    BY <1>1, <1>3, <2>1, <2>2 DEF DeviceInv, WalkInv
  <2> QED
    BY <2>3, <2>4, <2>5 DEF DeviceInv
<1>5. CASE RunProbes
  <2>1. stage = "probe" /\ stage' = "apply" /\ counts' = counts
    BY <1>5 DEF RunProbes
  <2>2. /\ missedNothing' \in BOOLEAN /\ (missedNothing' => missedNothing /\ probe' = early)
        /\ probe' \in 0..2
    <3>1. CASE Answered /\ probe' = early
      <4>1. missedNothing' = missedNothing
        BY <3>1 DEF Answered
      <4>2. probe' \in 0..2
        BY <1>2, <3>1
      <4> QED
        BY <1>2, <3>1, <4>1, <4>2
    <3>2. CASE Silent /\ probe' = 2
      <4>1. missedNothing' = FALSE
        BY <3>2 DEF Silent
      <4>2. probe' \in 0..2
        BY <3>2
      <4> QED
        BY <4>1, <4>2, Zenon
    <3> QED
      BY <1>5, <3>1, <3>2 DEF RunProbes
  <2>3. WalkTypes'
    BY <1>1, <2>1, <2>2 DEF DeviceInv, WalkTypes
  <2>4. FreshInv'
    BY <1>1, <2>1 DEF DeviceInv, FreshInv
  <2>5. WalkInv'
    BY <1>1, <1>3, <2>1, <2>2 DEF DeviceInv, WalkInv
  <2> QED
    BY <2>3, <2>4, <2>5 DEF DeviceInv
<1> QED
  BY <1>4, <1>5

LEMMA ApplyAnchorsInv == ASSUME DeviceInv, ApplyAnchors PROVE DeviceInv'
<1>1. /\ stage = "apply" /\ stage' = "identify" /\ firstConnect' = firstConnect /\ missedNothing' = missedNothing
      /\ candidate' = candidate /\ nextHeader' = nextHeader /\ walked' = walked /\ counts' = counts /\ probe' = probe
      /\ layout' = layout /\ markerAt' = markerAt /\ early' = early
      /\ suits' = suits /\ identified' = identified
  BY DEF ApplyAnchors, device, writeSetup, walk
<1>2. /\ Provided' = Provided /\ Chain' = Chain /\ Reach' = Reach /\ Merged' = Merged
      /\ NReadable(walked)' = NReadable(walked)
  BY <1>1 DEF Provided, Chain, Reach, Merged
<1>3. anchors' \in [owned : AnchorLists, legacy : {0, 1}] /\ (Provided => anchors' = Merged)
  <2>1. Merged \in [owned : AnchorLists, legacy : {0, 1}] /\ anchors \in [owned : AnchorLists, legacy : {0, 1}]
    BY MergedIs DEF DeviceInv, WalkTypes
  <2>2. anchors' = Merged \/ (anchors' = anchors /\ (Provided => anchors = Merged))
    BY DEF ApplyAnchors, map
  <2> QED
    BY <2>1, <2>2
<1>4. WalkTypes'
  BY <1>1, <1>3 DEF DeviceInv, WalkTypes
<1>5. FreshInv'
  BY <1>1 DEF DeviceInv, FreshInv
<1>6. WalkInv'
  BY <1>1, <1>2, <1>3 DEF DeviceInv, WalkInv
<1> QED
  BY <1>4, <1>5, <1>6 DEF DeviceInv

\* The rest leaves the walk alone; what is attached changes only with the history of the walk.
LEMMA LaterInv ==
  ASSUME DeviceInv, Identify \/ LinkDrops \/ (\E r \in rows : RowFails(r)) \/ UNCHANGED startupVars
  PROVE  DeviceInv'
<1>1. /\ firstConnect' = firstConnect /\ markerAt' = markerAt /\ early' = early /\ anchors' = anchors /\ suits' = suits
      /\ candidate' = candidate /\ nextHeader' = nextHeader /\ walked' = walked /\ counts' = counts /\ probe' = probe
      /\ identified' \in BOOLEAN
  BY DEF Identify, LinkDrops, RowFails, startupVars, device, writeSetup, walk, map, DeviceInv, WalkTypes
<1>2. layout' \in Layouts /\ missedNothing' \in BOOLEAN /\ (missedNothing' => missedNothing /\ layout' = layout)
  <2>1. layout \in Layouts /\ missedNothing \in BOOLEAN
    BY DEF DeviceInv, WalkTypes
  <2>2. \/ layout' = layout /\ missedNothing' = missedNothing
        \/ layout' \in Layouts /\ missedNothing' = FALSE
    BY DEF Identify, LinkDrops, RowFails, startupVars, device
  <2>3. CASE layout' = layout /\ missedNothing' = missedNothing
    BY <2>1, <2>3, Zenon
  <2>4. CASE layout' \in Layouts /\ missedNothing' = FALSE
    <3>1. missedNothing' \in BOOLEAN
      BY <2>4, Zenon
    <3>2. ~missedNothing'
      BY <2>4
    <3> QED
      BY <2>4, <3>1, <3>2, Zenon
  <2> QED
    BY <2>2, <2>3, <2>4
<1>3. \/ stage' = stage /\ layout' = layout /\ missedNothing' = missedNothing
      \/ /\ stage \in {"identify", "ready"} /\ stage' \in {"off", "ready"} /\ ~firstConnect
  BY DEF Identify, LinkDrops, RowFails, startupVars, device, DeviceInv, FreshInv
<1>4. WalkTypes'
  <2>1. stage' \in {"off", "writes", "marker", "headers", "counts", "probe", "apply", "identify", "ready"}
    BY <1>3 DEF DeviceInv, WalkTypes
  <2> QED
    BY <1>1, <1>2, <2>1 DEF DeviceInv, WalkTypes
<1>5. FreshInv'
  BY <1>1, <1>3 DEF DeviceInv, FreshInv
<1>6. Provided' = Provided /\ Merged' = Merged /\ NReadable(walked)' = NReadable(walked)
  BY <1>1 DEF Provided, Merged
<1>7. layout' = layout => Chain' = Chain /\ Reach' = Reach
  BY <1>1 DEF Chain, Reach
<1>8. CASE stage' = stage /\ layout' = layout /\ missedNothing' = missedNothing
  <2>1. WalkInv'
    BY <1>1, <1>6, <1>7, <1>8 DEF DeviceInv, WalkInv
  <2> QED
    BY <1>4, <1>5, <2>1 DEF DeviceInv
<1>9. CASE stage \in {"identify", "ready"} /\ stage' \in {"off", "ready"} /\ ~firstConnect
  <2>1. /\ missedNothing => Provided /\ walked = SubSeq(Chain, 1, Reach) /\ counts = NReadable(walked) /\ probe = early
        /\ Provided => anchors = Merged
    BY <1>9 DEF DeviceInv, WalkInv
  <2>2. /\ missedNothing' => Provided' /\ walked' = SubSeq(Chain', 1, Reach') /\ counts' = NReadable(walked)' /\ probe' = early'
        /\ Provided' => anchors' = Merged'
    BY <1>1, <1>2, <1>6, <1>7, <2>1
  <2>3. WalkInv'
    BY <1>9, <2>2 DEF WalkInv
  <2> QED
    BY <1>4, <1>5, <2>3 DEF DeviceInv
<1> QED
  BY <1>3, <1>8, <1>9

LEMMA DeviceInvStep == DeviceInv /\ [StartupNext]_startupVars => DeviceInv'
<1> SUFFICES ASSUME DeviceInv, [StartupNext]_startupVars PROVE DeviceInv'
  OBVIOUS
<1>1. CASE Replaced
  <2>1. PICK first \in BOOLEAN : NewInstance(first)
    BY <1>1 DEF Replaced
  <2> QED
    BY <1>1, <2>1, NewInstanceInv DEF Replaced, DeviceInv
<1> QED
  BY <1>1, DialDeviceInv, EnableWriteInv, FindMarkerInv, ReadHeaderInv, CountsAndProbesInv, ApplyAnchorsInv, LaterInv
  DEF StartupNext

LEMMA DeviceInvInit == StartupInit => DeviceInv
<1> SUFFICES ASSUME StartupInit PROVE DeviceInv
  OBVIOUS
<1>1. /\ layout \in Layouts /\ markerAt \in Range(Bases) /\ early \in {0, 1} /\ suits \in BOOLEAN
      /\ stage = "off" /\ candidate = 1 /\ nextHeader = 0 /\ walked = <<>> /\ probe = 2
      /\ anchors = DefaultAnchors /\ missedNothing = FALSE /\ identified = FALSE
  BY DEF StartupInit
<1>2. /\ candidate \in 1..Len(Bases) /\ walked \in Seq(Found) /\ Len(walked) <= MaxModels
      /\ nextHeader \in Nat /\ probe \in 0..2
  BY <1>1, BasesAre, DeviceStartupAssumption
<1>3. anchors \in [owned : AnchorLists, legacy : {0, 1}]
  BY <1>1, DefaultsAre
<1>4. missedNothing \in BOOLEAN /\ identified \in BOOLEAN
      /\ stage \in {"off", "writes", "marker", "headers", "counts", "probe", "apply", "identify", "ready"}
  BY <1>1, Zenon
<1>5. WalkTypes
  BY <1>1, <1>2, <1>3, <1>4 DEF WalkTypes
<1>6. FreshInv /\ WalkInv
  BY <1>1 DEF FreshInv, WalkInv, Provided
<1> QED
  BY <1>5, <1>6 DEF DeviceInv

\* A walk that got every answer has given the rows of this very device.
LEMMA WalkedIsTheDevice == DeviceInv /\ rows = ExpandRows(anchors) => MapIsOfTheDevice
<1> SUFFICES ASSUME DeviceInv, rows = ExpandRows(anchors), stage = "ready", missedNothing PROVE rows = TrueRows
  BY DEF MapIsOfTheDevice
<1>1. Provided /\ walked = SubSeq(Chain, 1, Reach) /\ counts = NReadable(walked) /\ probe = early /\ anchors = Merged
  BY DEF DeviceInv, WalkInv
<1>2. /\ markerAt \in Nat /\ layout \in Seq(Models) /\ Reach \in 0..Len(layout)
  BY ChainIs DEF DeviceInv
<1>3. Located(markerAt, SubSeq(layout, 1, Reach)) = walked
  BY <1>1, <1>2, LocatedFirst DEF Chain
<1>4. ChainAnchors(markerAt, SubSeq(layout, 1, Reach)) = BuildAnchors(walked, counts)
  BY <1>1, <1>3, Zenon DEF ChainAnchors
<1>5. probe # 2
  BY <1>1 DEF DeviceInv, WalkTypes
<1>6. Merged = [owned |-> ChainAnchors(markerAt, SubSeq(layout, 1, Reach)), legacy |-> early]
  BY <1>1, <1>4, <1>5 DEF Merged
<1> QED
  BY <1>1, <1>6, Zenon DEF TrueRows, Reach

LEMMA RowsAreInPlace == DeviceInv /\ rows = ExpandRows(anchors) => NothingAstray
<1> SUFFICES ASSUME DeviceInv, rows = ExpandRows(anchors), stage = "ready", Provided, NEW row \in rows, row[1] # "legacy"
             PROVE  \E m \in Range(walked) : m.kind = row[1] /\ row[3] \in m.at..(m.at + 1 + m.length)
  BY DEF NothingAstray
<1>1. anchors = Merged /\ walked \in Seq(Found) /\ anchors.owned \in AnchorLists
  BY DEF DeviceInv, WalkInv, WalkTypes
<1>2. anchors.owned = BuildAnchors(walked, counts)
  BY <1>1 DEF Merged
<1>3. PICK k \in Kinds : \E i \in DOMAIN anchors.owned[k] : row = <<k, i, anchors.owned[k][i]>>
  <2>1. row # <<"legacy", 1, 0>>
    OBVIOUS
  <2> QED
    BY <1>1, <2>1, RowsAre
<1>4. PICK i \in DOMAIN anchors.owned[k] : row = <<k, i, anchors.owned[k][i]>>
  BY <1>3
<1>6. row[1] = k /\ row[3] = anchors.owned[k][i]
  BY <1>4
<1> QED
  BY <1>1, <1>2, <1>4, <1>6, AnchorsAre

LEMMA TrackersAreTyped ==
  ASSUME DeviceInv, rows = ExpandRows(anchors), tracked \subseteq rows
  PROVE  tracked \subseteq (DOMAIN anchors.owned \cup {"legacy"}) \X Nat \X Nat
<1>1. anchors.owned \in AnchorLists
  BY DEF DeviceInv, WalkTypes
<1>2. DOMAIN anchors.owned = Kinds
  BY <1>1 DEF AnchorLists, Kinds
<1> SUFFICES ASSUME NEW row \in rows PROVE row \in (Kinds \cup {"legacy"}) \X Nat \X Nat
  BY <1>2
<1> QED
  BY <1>1, RowsAre

\* The rows are those of the anchors in force, all of them and no others, and
\* what is tracked is one of them.
MapInv == rows = ExpandRows(anchors) /\ tracked \subseteq rows

\* Without a reload an instance connects first of all. From then on it may write
\* only when enable_write() said so, and in standard mode only to a device whose
\* values the map suits.
PermitInv ==
    /\ writeOn \in BOOLEAN /\ judged \in BOOLEAN /\ firstConnect \in BOOLEAN /\ reloaded \in BOOLEAN
    /\ firstConnect => stage = "off"
    /\ ~reloaded /\ writeOn /\ ~firstConnect /\ stage # "writes" =>
          judged /\ (writeType = "standard" => suits)

LEMMA MapStep == MapInv /\ [StartupNext]_startupVars => MapInv'
<1> SUFFICES ASSUME MapInv, [StartupNext]_startupVars PROVE MapInv'
  OBVIOUS
<1> USE DEF MapInv, map
<1>1. CASE EnableWrite
  BY <1>1 DEF EnableWrite
<1>2. CASE ApplyAnchors
  BY <1>2 DEF ApplyAnchors
<1>3. CASE Replaced
  BY <1>3 DEF Replaced, NewInstance
<1>4. CASE \E r \in rows : RowFails(r)
  BY <1>4 DEF RowFails
<1>5. CASE DialDevice \/ FindMarker \/ ReadHeader \/ ReadBlockCounts \/ RunProbes \/ Identify \/ LinkDrops
  BY <1>5 DEF DialDevice, FindMarker, ReadHeader, ReadBlockCounts, RunProbes, Identify, LinkDrops
<1>6. CASE UNCHANGED startupVars
  BY <1>6 DEF startupVars
<1> QED
  BY <1>1, <1>2, <1>3, <1>4, <1>5, <1>6 DEF StartupNext

LEMMA PermitStep == PermitInv /\ [StartupNext]_startupVars => PermitInv'
<1> SUFFICES ASSUME PermitInv, [StartupNext]_startupVars PROVE PermitInv'
  OBVIOUS
<1> USE DEF PermitInv, writeSetup
<1>1. CASE DialDevice
  BY <1>1 DEF DialDevice
<1>2. CASE EnableWrite
  <2>1. /\ stage = "writes" /\ stage' = "marker" /\ judged' = writeOn
        /\ writeType' = writeType /\ suits' = suits /\ reloaded' = reloaded /\ firstConnect' = firstConnect
    BY <1>2 DEF EnableWrite
  <2>2. writeOn' \in BOOLEAN
    BY <1>2 DEF EnableWrite
  <2>3. writeOn' => writeOn /\ (writeType = "standard" => suits)
    BY <1>2 DEF EnableWrite
  <2> QED
    BY <2>1, <2>2, <2>3
<1>3. CASE Replaced
  <2>1. PICK first \in BOOLEAN : NewInstance(first)
    BY <1>3 DEF Replaced
  <2>2. /\ firstConnect' = first /\ reloaded' = ~first /\ stage' = "off" /\ judged' = FALSE
        /\ writeOn' = (writeType # "off")
    BY <2>1 DEF NewInstance
  <2>3. CASE first = TRUE
    BY <2>2, <2>3
  <2>4. CASE first = FALSE
    BY <2>2, <2>4
  <2> QED
    BY <2>3, <2>4
<1>4. CASE LinkDrops
  BY <1>4 DEF LinkDrops
<1>5. CASE FindMarker \/ ReadHeader \/ ReadBlockCounts \/ RunProbes \/ ApplyAnchors \/ Identify
  BY <1>5 DEF FindMarker, ReadHeader, ReadBlockCounts, RunProbes, ApplyAnchors, Identify
<1>6. CASE \E r \in rows : RowFails(r)
  BY <1>6 DEF RowFails
<1>7. CASE UNCHANGED startupVars
  BY <1>7 DEF startupVars
<1> QED
  BY <1>1, <1>2, <1>3, <1>4, <1>5, <1>6, <1>7 DEF StartupNext


LEMMA StartupsBegin == StartupInit => MapInv /\ PermitInv /\ DeviceInv
  BY DeviceInvInit DEF StartupInit, MapInv, PermitInv

LEMMA StartupsAreSafe == MapInv /\ PermitInv /\ DeviceInv => StartupTypeOK /\ DeviceIsMapped
<1> SUFFICES ASSUME MapInv, PermitInv, DeviceInv PROVE StartupTypeOK /\ DeviceIsMapped
  OBVIOUS
<1>1. TrackersAreOfTheMap /\ FreshWritesAreJudged
  BY DEF MapInv, PermitInv, TrackersAreOfTheMap, FreshWritesAreJudged
<1>2. MapIsOfTheDevice /\ NothingAstray
  BY WalkedIsTheDevice, RowsAreInPlace DEF MapInv
<1>3. tracked \subseteq (DOMAIN anchors.owned \cup {"legacy"}) \X Nat \X Nat
  BY TrackersAreTyped DEF MapInv
<1>4. candidate \in DOMAIN Bases
  BY BasesAre DEF DeviceInv, WalkTypes
<1>5. StartupTypeOK
  BY <1>3, <1>4 DEF StartupTypeOK, DeviceInv, WalkTypes, PermitInv
<1> QED
  BY <1>1, <1>2, <1>5 DEF DeviceIsMapped

\* However start-ups, lost reads, layouts, reloads and restarts follow each other
\* (connect(), enable_write(), discover_register_structure(), prepare_for_reload()):
\* a start-up that got every answer leaves the rows of this very device, a row of a
\* discovered map is of a model that the chain holds and within it, trackers are of the
\* rows in force, and a transport built at start-up writes only after enable_write()
\* has decided.
THEOREM StartupsStaySafe == StartupSpec => [](StartupTypeOK /\ DeviceIsMapped)
  BY StartupsBegin, StartupsAreSafe, MapStep, PermitStep, DeviceInvStep, PTL DEF StartupSpec

----------------------------------------------------------------------------
(* Writes: what is about to be written has been allowed, and is as many     *)
(* registers as its entry has.                                              *)

WriteInv(w) ==
    /\ writing[w].stage \in {"idle", "asked", "write"}
    /\ writing[w].stage # "idle" => writing[w].field \in Fields /\ writing[w].field.mode \notin {"R", "RD"}
    /\ writing[w].stage = "write" =>
          LET f == writing[w].field
          IN /\ UnsafeWrites \/ f.kind = "flags" \/ Valid(f, writing[w].value)
             /\ DOMAIN writing[w].words = DOMAIN f.at

WritesInv == DOMAIN writing = FieldWriters /\ \A w \in FieldWriters : WriteInv(w)

\* However bytes and words are swapped, a number takes the registers it has.
LEMMA WordsAreCounted ==
  ASSUME NEW n, NEW k \in Nat, NEW order
  PROVE  DOMAIN ToWords(n, k, order) = 1..k
<1> DEFINE ws == [i \in 1..k |-> (n \div 2^(WordBits * (k - i))) % Word]
           swapped == [i \in DOMAIN ws |-> IF order.bytes THEN SwapBytes(ws[i]) ELSE ws[i]]
<1>1. DOMAIN ws = 1..k /\ DOMAIN swapped = 1..k
  OBVIOUS
<1>2. Len(swapped) = k
  BY <1>1
<1>3. DOMAIN Reverse(swapped) = 1..k
  <2> HIDE DEF swapped
  <2> QED
    BY <1>2 DEF Reverse
<1>4. DOMAIN (IF order.words THEN Reverse(swapped) ELSE swapped) = 1..k
  <2> HIDE DEF swapped
  <2> QED
    BY <1>1, <1>3
<1> QED
  BY <1>4, Zenon DEF ToWords, Arranged

LEMMA EndsWriting ==
  ASSUME WritesInv, NEW w \in FieldWriters, NEW how, EndWriting(w, how)
  PROVE  WritesInv' /\ writing'[w].stage = "idle"
  BY DEF WritesInv, WriteInv, EndWriting, Idle

LEMMA WritesStep == WritesInv /\ [RegisterWritesNext]_writeVars => WritesInv'
<1> SUFFICES ASSUME WritesInv, [RegisterWritesNext]_writeVars PROVE WritesInv'
  OBVIOUS
<1>1. ASSUME NEW w \in FieldWriters, NEW f \in Fields, NEW v \in f.asks, AskWrite(w, f, v) PROVE WritesInv'
  <2>1. f.mode \notin {"R", "RD"} /\ writing' = [writing EXCEPT ![w] = [stage |-> "asked", field |-> f, value |-> v]]
    BY <1>1 DEF AskWrite
  <2> QED
    BY <2>1 DEF WritesInv, WriteInv
<1>2. ASSUME NEW w \in FieldWriters, ReadAndCheck(w) PROVE WritesInv'
  <2> DEFINE f == writing[w].field   v == writing[w].value
  <2>1. writing[w].stage = "asked" /\ f \in Fields /\ f.mode \notin {"R", "RD"}
    BY <1>2 DEF ReadAndCheck, WritesInv, WriteInv
  <2>2. CASE \E how : EndWriting(w, how)
    BY <2>2, EndsWriting
  <2>3. CASE Passes(f, v) /\ writing' = [writing EXCEPT ![w] =
               [stage |-> "write", field |-> f, value |-> v, words |-> Content(f, v)]]
    <3>1. UnsafeWrites \/ f.kind = "flags" \/ Valid(f, v)
      BY <2>3 DEF Passes
    <3>2. Len(f.at) \in Nat /\ DOMAIN f.at = 1..Len(f.at)
      BY <2>1, RegisterWritesAssumption
    <3>3. DOMAIN Content(f, v) = DOMAIN f.at
      BY <3>2, WordsAreCounted DEF Content
    <3> QED
      BY <2>1, <2>3, <3>1, <3>3 DEF WritesInv, WriteInv
  <2> QED
    BY <1>2, <2>2, <2>3 DEF ReadAndCheck
<1>3. ASSUME NEW w \in FieldWriters, WriteWords(w) PROVE WritesInv'
  BY <1>3, EndsWriting DEF WriteWords
<1>4. CASE UNCHANGED writeVars
  BY <1>4 DEF writeVars, WritesInv, WriteInv
<1> QED
  BY <1>1, <1>2, <1>3, <1>4 DEF RegisterWritesNext

LEMMA WritesAlways == RegisterWritesSpec => []WritesInv
<1>1. RegisterWritesInit => WritesInv
  BY DEF RegisterWritesInit, WritesInv, WriteInv, Idle
<1> QED
  BY <1>1, WritesStep, PTL DEF RegisterWritesSpec

\* For any entries and any number of transports and writes: a device is never
\* sent a value its map does not allow, or one for an entry that may not be
\* written (write_data(), validate_registry_entry()).
THEOREM WritesStayAllowed == RegisterWritesSpec => [][AllowedIsWritten]_writeVars
<1>1. WritesInv => AllowedIsWritten
  BY RegisterWritesAssumption DEF WritesInv, WriteInv, AllowedIsWritten, Landing
<1> QED
  BY <1>1, WritesAlways, PTL DEF RegisterWritesSpec

\* A write changes no register but those of its entry (write_variable()).
OtherRegistersStay ==
    \A w \in FieldWriters : Landing(w) =>
        \A a \in Words \ Range(writing[w].field.at) : registers'[a] = registers[a]

\* As long as the registers of an entry follow each other: a list of registers
\* that do not is written from the first one on.
THEOREM OtherRegistersAreKept == InOneRun(Fields) => (RegisterWritesSpec => [][OtherRegistersStay]_writeVars)
<1> SUFFICES ASSUME InOneRun(Fields) PROVE RegisterWritesSpec => [][OtherRegistersStay]_writeVars
  OBVIOUS
<1>1. WritesInv /\ [RegisterWritesNext]_writeVars => [OtherRegistersStay]_writeVars
  <2> SUFFICES ASSUME WritesInv, RegisterWritesNext, NEW w \in FieldWriters, Landing(w),
                      NEW a \in Words \ Range(writing[w].field.at)
               PROVE  registers'[a] = registers[a]
    BY DEF OtherRegistersStay
  <2> DEFINE f == writing[w].field
  <2>1. writing[w].stage = "write" /\ writing'[w].stage = "idle" /\ registers' # registers
    BY DEF Landing
  <2>2. PICK x \in FieldWriters : WriteWords(x) /\ writing[x].stage = "write"
    BY <2>1 DEF RegisterWritesNext, AskWrite, ReadAndCheck, WriteWords
  <2>3. x = w
    BY <2>1, <2>2 DEF WriteWords, EndWriting, Idle, WritesInv
  <2>4. registers' = Landed(f, writing[w].words)
    BY <2>1, <2>2, <2>3 DEF WriteWords
  <2>5. f \in Fields /\ DOMAIN writing[w].words = DOMAIN f.at
    BY <2>1 DEF WritesInv, WriteInv
  <2>6. f.at \in Seq(0..(DeviceWords - 1)) /\ f.at # <<>> /\ DeviceWords \in Nat
    BY <2>5, RegisterWritesAssumption
  <2>7. f.at[1] \in Int /\ a \in Int
    BY <2>6 DEF Words
  <2>8. a - f.at[1] + 1 \notin DOMAIN f.at
    <3> SUFFICES ASSUME a - f.at[1] + 1 \in DOMAIN f.at PROVE FALSE
      OBVIOUS
    <3>1. f.at[a - f.at[1] + 1] = f.at[1] + (a - f.at[1] + 1) - 1
      BY <2>5 DEF InOneRun
    <3>2. f.at[a - f.at[1] + 1] = a
      BY <2>7, <3>1
    <3> QED
      BY <3>2 DEF Range
  <2>9. Landed(f, writing[w].words)[a] = registers[a]
    <3> DEFINE words == writing[w].words
    <3>1. DOMAIN words = DOMAIN f.at /\ a \in Words
      BY <2>5
    <3> HIDE DEF words, f
    <3>2. Landed(f, words)[a] = registers[a]
      BY <2>8, <3>1 DEF Landed
    <3> QED
      BY <3>2 DEF words
  <2> QED
    BY <2>4, <2>9, Zenon
<1> QED
  BY <1>1, WritesAlways, PTL DEF RegisterWritesSpec

----------------------------------------------------------------------------
(* Words: what the registers hold, and what is about to be written. *)

LEMMA SmallPowers == 2^1 = 2 /\ 2^2 = 4 /\ 2^4 = 16 /\ 2^8 = 256 /\ 2^16 = 65536
<1> DEFINE p(n) == 2^n
<1>1. \A n \in Nat : p(n) \in Nat /\ p(n + 1) = 2 * p(n)
  <2> TAKE n \in Nat
  <2>1. 2^n \in Nat \ {0} /\ 2^(n + 1) = 2 * 2^n
    BY DoubledPower
  <2> QED
    BY <2>1
<1>2. p(0) = 1
  OBVIOUS
<1> HIDE DEF p
<1>3. p(1) = 2
  <2>1. p(0 + 1) = 2 * p(0)
    BY <1>1
  <2> QED
    BY <1>2, <2>1
<1>4. p(2) = 4 /\ p(3) = 8 /\ p(4) = 16
  <2>1. p(1 + 1) = 2 * p(1) /\ p(2 + 1) = 2 * p(2) /\ p(3 + 1) = 2 * p(3)
    BY <1>1
  <2> QED
    BY <1>3, <2>1
<1>5. p(5) = 32 /\ p(6) = 64 /\ p(7) = 128 /\ p(8) = 256
  <2>1. p(4 + 1) = 2 * p(4) /\ p(5 + 1) = 2 * p(5) /\ p(6 + 1) = 2 * p(6) /\ p(7 + 1) = 2 * p(7)
    BY <1>1
  <2> QED
    BY <1>4, <2>1
<1>6. p(9) = 512 /\ p(10) = 1024 /\ p(11) = 2048 /\ p(12) = 4096
  <2>1. p(8 + 1) = 2 * p(8) /\ p(9 + 1) = 2 * p(9) /\ p(10 + 1) = 2 * p(10) /\ p(11 + 1) = 2 * p(11)
    BY <1>1
  <2> QED
    BY <1>5, <2>1
<1>7. p(13) = 8192 /\ p(14) = 16384 /\ p(15) = 32768 /\ p(16) = 65536
  <2>1. p(12 + 1) = 2 * p(12) /\ p(13 + 1) = 2 * p(13) /\ p(14 + 1) = 2 * p(14) /\ p(15 + 1) = 2 * p(15)
    BY <1>1
  <2> QED
    BY <1>6, <2>1
<1>8. p(1) = 2 /\ p(2) = 4 /\ p(4) = 16 /\ p(8) = 256 /\ p(16) = 65536
  BY <1>3, <1>4, <1>5, <1>7
<1> QED
  BY <1>8 DEF p

\* A register has two bytes.
LEMMA TwoBytes == Word \in Nat \ {0} /\ HalfWord \in Nat \ {0} /\ HalfWord * HalfWord = Word
<1>1. CASE WordBits = 2
  <2>1. WordBits \div 2 = 1
    BY <1>1
  <2> QED
    BY <1>1, <2>1, SmallPowers DEF Word, HalfWord
<1>2. CASE WordBits = 4
  <2>1. WordBits \div 2 = 2
    BY <1>2
  <2> QED
    BY <1>2, <2>1, SmallPowers DEF Word, HalfWord
<1>3. CASE WordBits = 8
  <2>1. WordBits \div 2 = 4
    BY <1>3
  <2> QED
    BY <1>3, <2>1, SmallPowers DEF Word, HalfWord
<1>4. CASE WordBits = 16
  <2>1. WordBits \div 2 = 8
    BY <1>4
  <2> QED
    BY <1>4, <2>1, SmallPowers DEF Word, HalfWord
<1> QED
  BY <1>1, <1>2, <1>3, <1>4, RegisterWritesAssumption

\* A product grows with its factor.
LEMMA ProductGrows ==
  ASSUME NEW d \in Nat, NEW x \in Int, NEW y \in Int, x < y
  PROVE  d * x + d <= d * y
<1> DEFINE z == y - x - 1
<1>1. z \in Nat /\ y = x + 1 + z
  OBVIOUS
<1> HIDE DEF z
<1>2. d * z \in Nat
  BY <1>1
<1>3. d * y = d * x + d + d * z
  BY <1>1
<1> QED
  BY <1>2, <1>3

\* What is left of a division is below the divisor.
LEMMA Divided ==
  ASSUME NEW n \in Int, NEW d \in Nat \ {0}
  PROVE  n \div d \in Int /\ n % d \in 0..(d - 1) /\ n = (d * (n \div d)) + (n % d)
  OBVIOUS

\* There is one quotient and one remainder.
LEMMA DividedOnce ==
  ASSUME NEW d \in Nat \ {0}, NEW q \in Int, NEW r \in 0..(d - 1), NEW n, n = d * q + r
  PROVE  n \in Int /\ n \div d = q /\ n % d = r
<1> DEFINE x == n \div d   m == n % d
<1>1. n \in Int /\ d * q \in Int
  OBVIOUS
<1>2. x \in Int /\ m \in 0..(d - 1) /\ n = d * x + m
  BY <1>1, Divided
<1> HIDE DEF x, m
<1>3. d * x \in Int
  BY <1>2
<1>4. ~(x < q)
  <2> SUFFICES ASSUME x < q PROVE FALSE
    OBVIOUS
  <2>1. d * x + d <= d * q
    BY <1>2, ProductGrows
  <2> QED
    BY <1>1, <1>2, <1>3, <2>1
<1>5. ~(q < x)
  <2> SUFFICES ASSUME q < x PROVE FALSE
    OBVIOUS
  <2>1. d * q + d <= d * x
    BY <1>2, ProductGrows
  <2> QED
    BY <1>1, <1>2, <1>3, <2>1
<1>6. x = q
  BY <1>2, <1>4, <1>5
<1>7. m = r
  BY <1>1, <1>2, <1>6
<1> QED
  BY <1>1, <1>6, <1>7 DEF x, m

\* What is below the place a, of what is below b places, stays below their product.
LEMMA Places ==
  ASSUME NEW a \in Nat \ {0}, NEW b \in Nat \ {0}, NEW s \in 0..(b - 1), NEW r \in 0..(a - 1)
  PROVE  a * b \in Nat \ {0} /\ a * s + r \in 0..(a * b - 1)
<1>1. a * s + a <= a * b
  BY ProductGrows
<1>2. a * s \in Nat /\ a * b \in Nat
  OBVIOUS
<1> QED
  BY <1>1, <1>2

\* Dividing by a product is dividing by one factor after the other.
InTurn(n, a, b) == n \div (a * b) = (n \div a) \div b

LEMMA DividedTwice ==
  ASSUME NEW n \in Int, NEW a \in Nat \ {0}, NEW b \in Nat \ {0}
  PROVE  InTurn(n, a, b)
<1> DEFINE x == n \div a   r == n % a   y == x \div b   s == x % b   t == a * s + r   d == a * b
<1>1. x \in Int /\ r \in 0..(a - 1) /\ n = a * x + r
  BY Divided
<1> HIDE DEF x, r
<1>2. y \in Int /\ s \in 0..(b - 1) /\ x = b * y + s
  BY <1>1, Divided
<1> HIDE DEF y, s
<1>3. d \in Nat \ {0} /\ t \in 0..(d - 1)
  BY <1>1, <1>2, Places
<1>4. n = d * y + t
  <2>1. a * x = a * (b * y) + a * s
    BY <1>2
  <2>2. a * (b * y) = (a * b) * y
    BY <1>2
  <2> QED
    BY <1>1, <1>2, <2>1, <2>2
<1> HIDE DEF t, d
<1>5. n \div d = y
  BY <1>2, <1>3, <1>4, DividedOnce
<1> QED
  BY <1>5 DEF InTurn, d, y, x

\* Powers of a sum.
LEMMA SumOfPowers ==
  ASSUME NEW a \in Nat, NEW b \in Nat
  PROVE  2^(a + b) = 2^a * 2^b
<1> DEFINE p(n) == 2^n
           T == {n \in Nat : p(a + n) = p(a) * p(n)}
<1>1. \A n \in Nat : p(n) \in Nat \ {0} /\ p(n + 1) = 2 * p(n)
  BY DoubledPower
<1>2. p(0) = 1
  OBVIOUS
<1> HIDE DEF p
<1>3. 0 \in T
  BY <1>1, <1>2
<1>4. ASSUME NEW n \in Nat, n \in T PROVE n + 1 \in T
  <2>1. p(a + n) = p(a) * p(n)
    BY <1>4
  <2>2. a + (n + 1) = (a + n) + 1 /\ a + n \in Nat
    OBVIOUS
  <2>3. p(a + (n + 1)) = 2 * p(a + n) /\ p(n + 1) = 2 * p(n)
    BY <1>1, <2>2
  <2>4. p(a) \in Nat /\ p(n) \in Nat
    BY <1>1
  <2>5. p(a + (n + 1)) = p(a) * p(n + 1)
    BY <2>1, <2>3, <2>4
  <2> QED
    BY <2>5
<1>5. b \in T
  <2> HIDE DEF T
  <2> QED
    BY <1>3, <1>4, Induction
<1> QED
  BY <1>5 DEF p

LEMMA SwappedIsWord == ASSUME NEW w \in 0..(Word - 1) PROVE SwapBytes(w) \in 0..(Word - 1)
<1> DEFINE H == HalfWord   q == w \div H   r == w % H
<1>1. H \in Nat \ {0} /\ H * H = Word /\ w \in Int /\ 0 <= w /\ w < H * H
  BY TwoBytes
<1> HIDE DEF H
<1>2. q \in Int /\ r \in 0..(H - 1) /\ w = H * q + r
  BY <1>1, Divided
<1> HIDE DEF q, r
<1>3. 0 <= q /\ q <= H - 1
  BY <1>1, <1>2
<1>4. r * H + q \in Int /\ 0 <= r * H + q /\ r * H + q <= H * H - 1
  BY <1>1, <1>2, <1>3
<1>5. SwapBytes(w) = r * H + q
  BY DEF SwapBytes, H, q, r
<1> QED
  BY <1>1, <1>4, <1>5

LEMMA ArrangedAreWords ==
  ASSUME NEW k \in Nat, NEW ws \in [1..k -> 0..(Word - 1)], NEW order
  PROVE  Arranged(ws, order) \in [1..k -> 0..(Word - 1)]
<1> DEFINE swapped == [i \in DOMAIN ws |-> IF order.bytes THEN SwapBytes(ws[i]) ELSE ws[i]]
<1>1. \A i \in 1..k : swapped[i] \in 0..(Word - 1)
  BY SwappedIsWord
<1>2. swapped \in [1..k -> 0..(Word - 1)]
  BY <1>1
<1> HIDE DEF swapped
<1>3. Len(swapped) = k
  BY <1>2
<1>4. Reverse(swapped) \in [1..k -> 0..(Word - 1)]
  <2>1. Reverse(swapped) = [i \in 1..k |-> swapped[(k - i) + 1]]
    BY <1>3 DEF Reverse
  <2>2. \A i \in 1..k : (k - i) + 1 \in 1..k
    OBVIOUS
  <2> QED
    BY <1>2, <2>1, <2>2
<1>5. Arranged(ws, order) = IF order.words THEN Reverse(swapped) ELSE swapped
  BY DEF Arranged, swapped
<1> QED
  BY <1>2, <1>4, <1>5

LEMMA WordsFit ==
  ASSUME NEW n \in Int, NEW k \in Nat, NEW order
  PROVE  ToWords(n, k, order) \in [1..k -> 0..(Word - 1)]
<1> DEFINE ws == [i \in 1..k |-> (n \div 2^(WordBits * (k - i))) % Word]
<1>1. Word \in Nat \ {0}
  BY TwoBytes
<1>2. ASSUME NEW i \in 1..k PROVE (n \div 2^(WordBits * (k - i))) % Word \in 0..(Word - 1)
  <2>1. WordBits * (k - i) \in Nat
    BY RegisterWritesAssumption
  <2>2. 2^(WordBits * (k - i)) \in Nat \ {0}
    BY <2>1, DoubledPower
  <2>3. n \div 2^(WordBits * (k - i)) \in Int
    BY <2>2, Divided
  <2> QED
    BY <1>1, <2>3, Divided
<1>3. ws \in [1..k -> 0..(Word - 1)]
  BY <1>2
<1>4. ToWords(n, k, order) = Arranged(ws, order)
  BY DEF ToWords
<1> HIDE DEF ws
<1> QED
  BY <1>3, <1>4, ArrangedAreWords

LEMMA FromWordsIsFold ==
  ASSUME NEW ws, NEW order
  PROVE  LET seq == Arranged(ws, order)
         IN  FromWords(ws, order) =
               (CHOOSE f : f = [s \in SUBSET (DOMAIN seq) |->
                   IF s = {} THEN 0 ELSE f[s \ {Max(s)}] * Word + seq[Max(s)]])[DOMAIN seq]
  BY Zenon DEF FromWords, FoldLeft, MapThenFoldSet

\* A number is taken from its words one after the other.
Takes(ws, order, k, g) ==
    LET seq == Arranged(ws, order)
    IN  /\ g \in [0..k -> Nat] /\ g[0] = 0
        /\ \A j \in 1..k : g[j] = g[j - 1] * Word + seq[j]
        /\ FromWords(ws, order) = g[k]

LEMMA FromWordsTakes ==
  ASSUME NEW k \in Nat, NEW ws \in [1..k -> 0..(Word - 1)], NEW order
  PROVE  \E g : Takes(ws, order, k, g)
<1> DEFINE S == 0..(Word - 1)
           seq == Arranged(ws, order)
           step == [p \in Nat \X S |-> p[1] * Word + p[2]]
           P(f) == f = [s \in SUBSET (DOMAIN seq) |-> IF s = {} THEN 0 ELSE f[s \ {Max(s)}] * Word + seq[Max(s)]]
           G == CHOOSE f : P(f)
           g == [j \in 0..k |-> G[1..j]]
<1>1. Word \in Nat \ {0} /\ seq \in [1..k -> S]
  BY TwoBytes, ArrangedAreWords
<1>2. \A n \in Nat : \A w \in S : n * Word + w \in Nat
  BY <1>1
<1> HIDE DEF seq, S
<1>3. step \in [Nat \X S -> Nat]
  BY <1>2
<1>4. \A n \in Nat : \A w \in S : step[<<n, w>>] = n * Word + w
  OBVIOUS
<1> HIDE DEF step
<1>5. PICK f : FoldsTo(Nat, step, 0, seq, k, f)
  <2>1. 0 \in Nat
    OBVIOUS
  <2> QED
    BY <1>1, <1>3, <2>1, FoldExists
<1>6. DOMAIN seq = 1..k
  BY <1>1
<1>7. P(f)
  <2>1. ASSUME NEW s \in SUBSET (1..k)
        PROVE  f[s] = IF s = {} THEN 0 ELSE f[s \ {Max(s)}] * Word + seq[Max(s)]
    <3>1. CASE s = {}
      BY <1>5, <3>1 DEF FoldsTo, FoldStep
    <3>2. CASE s # {}
      <4>1. Max(s) \in s /\ s \ {Max(s)} \in SUBSET (1..k)
        BY <3>2, GreatestNumber
      <4>2. seq[Max(s)] \in S /\ f[s \ {Max(s)}] \in Nat
        BY <1>1, <1>5, <4>1 DEF FoldsTo
      <4>3. step[<<f[s \ {Max(s)}], seq[Max(s)]>>] = f[s \ {Max(s)}] * Word + seq[Max(s)]
        BY <1>4, <4>2
      <4> QED
        BY <1>5, <3>2, <4>3 DEF FoldsTo, FoldStep
    <3> QED
      BY <3>1, <3>2
  <2>2. f \in [SUBSET (1..k) -> Nat]
    BY <1>5 DEF FoldsTo
  <2> QED
    BY <1>6, <2>1, <2>2
<1>8. P(G)
  <2> HIDE DEF P
  <2> QED
    BY <1>7
<1>9. FromWords(ws, order) = G[1..k]
  <2>1. FromWords(ws, order) = G[DOMAIN seq]
    BY FromWordsIsFold, Zenon DEF seq
  <2> QED
    BY <1>6, <2>1
<1> HIDE DEF G
<1>10. G[1..0] = 0
  <2>1. 1..0 = {} /\ {} \in SUBSET (1..k)
    OBVIOUS
  <2>2. G[{}] = 0
    BY <1>6, <1>8, <2>1
  <2> QED
    BY <2>1, <2>2
<1>11. ASSUME NEW j \in 1..k PROVE G[1..j] = G[1..(j - 1)] * Word + seq[j]
  <2>0. j \in Nat \ {0} /\ j <= k
    OBVIOUS
  <2> HIDE DEF P, g
  <2>1. 1..j # {} /\ 1..j \in SUBSET (1..k) /\ j \in Nat \ {0}
    <3>1. j \in 1..j /\ \A x \in 1..j : x \in 1..k
      BY <2>0
    <3> QED
      BY <2>0, <3>1
  <2>2. Max(1..j) = j /\ (1..j) \ {j} = 1..(j - 1)
    BY <2>1, GreatestOfRun
  <2> QED
    BY <1>6, <1>8, <2>1, <2>2 DEF P
<1> HIDE DEF P
<1>12. \A n \in Nat : n <= k => G[1..n] \in Nat
  <2> DEFINE T == {n \in Nat : n <= k => G[1..n] \in Nat}
  <2>1. 0 \in T
    BY <1>10
  <2>2. ASSUME NEW n \in Nat, n \in T PROVE n + 1 \in T
    <3> SUFFICES ASSUME n + 1 <= k PROVE G[1..(n + 1)] \in Nat
      OBVIOUS
    <3>1. n + 1 \in 1..k /\ n + 1 - 1 = n
      OBVIOUS
    <3>2. G[1..(n + 1)] = G[1..n] * Word + seq[n + 1]
      BY <1>11, <3>1
    <3>3. G[1..n] \in Nat /\ seq[n + 1] \in S
      BY <1>1, <2>2, <3>1
    <3> QED
      BY <1>2, <3>2, <3>3
  <2> HIDE DEF T
  <2>3. \A n \in Nat : n \in T
    BY <2>1, <2>2, Induction
  <2> QED
    BY <2>3 DEF T
<1>13. g \in [0..k -> Nat] /\ g[0] = 0 /\ g[k] = G[1..k]
  BY <1>10, <1>12
<1>14. \A j \in 1..k : g[j] = g[j - 1] * Word + seq[j]
  <2> SUFFICES ASSUME NEW j \in 1..k PROVE g[j] = g[j - 1] * Word + seq[j]
    OBVIOUS
  <2>1. g[j] = G[1..j] /\ g[j - 1] = G[1..(j - 1)]
    OBVIOUS
  <2> HIDE DEF g
  <2> QED
    BY <1>11, <2>1
<1> HIDE DEF g
<1>15. Takes(ws, order, k, g)
  BY <1>9, <1>13, <1>14, Zenon DEF Takes, seq
<1> QED
  BY <1>15

LEMMA FromWordsIs ==
  ASSUME NEW k \in Nat, NEW ws \in [1..k -> 0..(Word - 1)], NEW order
  PROVE  FromWords(ws, order) \in Int
<1>1. PICK g : Takes(ws, order, k, g)
  BY FromWordsTakes
<1>2. k \in 0..k /\ g \in [0..k -> Nat] /\ FromWords(ws, order) = g[k]
  BY <1>1 DEF Takes
<1> QED
  BY <1>2

\* What j words can hold.
LEMMA WordPowers ==
  ASSUME NEW j \in Nat
  PROVE  /\ 2^(WordBits * j) \in Nat \ {0} /\ 2^(WordBits * (j + 1)) = Word * 2^(WordBits * j)
         /\ 2^(WordBits * 0) = 1
<1>1. WordBits \in Nat /\ WordBits * j \in Nat
  BY RegisterWritesAssumption
<1>2. WordBits * (j + 1) = WordBits + WordBits * j /\ WordBits * 0 = 0
  BY <1>1
<1>3. 2^(WordBits + WordBits * j) = 2^WordBits * 2^(WordBits * j)
  BY <1>1, SumOfPowers
<1>4. 2^(WordBits * j) \in Nat \ {0}
  BY <1>1, DoubledPower
<1>5. 2^0 = 1
  OBVIOUS
<1> QED
  BY <1>2, <1>3, <1>4, <1>5 DEF Word

\* A number of k words fits into their bits.
LEMMA FromWordsFits ==
  ASSUME NEW k \in Nat, NEW ws \in [1..k -> 0..(Word - 1)], NEW order
  PROVE  FromWords(ws, order) \in 0..(2^(WordBits * k) - 1)
<1> DEFINE seq == Arranged(ws, order)   big(j) == 2^(WordBits * j)
<1>1. PICK g : Takes(ws, order, k, g)
  BY FromWordsTakes
<1>2. /\ g \in [0..k -> Nat] /\ g[0] = 0 /\ FromWords(ws, order) = g[k]
      /\ \A j \in 1..k : g[j] = g[j - 1] * Word + seq[j]
  BY <1>1 DEF Takes
<1>3. seq \in [1..k -> 0..(Word - 1)] /\ Word \in Nat \ {0}
  BY ArrangedAreWords, TwoBytes
<1>4. \A j \in Nat : big(j) \in Nat \ {0} /\ big(j + 1) = Word * big(j)
  BY WordPowers
<1>5. big(0) = 1
  BY WordPowers
<1> HIDE DEF seq, big
<1> DEFINE T == {j \in Nat : j <= k => g[j] \in 0..(big(j) - 1)}
<1>6. 0 \in T
  BY <1>2, <1>5
<1>7. ASSUME NEW j \in Nat, j \in T PROVE j + 1 \in T
  <2> SUFFICES ASSUME j + 1 <= k PROVE g[j + 1] \in 0..(big(j + 1) - 1)
    OBVIOUS
  <2>1. j + 1 \in 1..k /\ j + 1 - 1 = j /\ j <= k
    OBVIOUS
  <2>2. g[j + 1] = g[j] * Word + seq[j + 1] /\ seq[j + 1] \in 0..(Word - 1) /\ g[j] \in 0..(big(j) - 1)
    BY <1>2, <1>3, <1>7, <2>1
  <2>3. Word * g[j] + seq[j + 1] \in 0..(Word * big(j) - 1)
    BY <1>3, <1>4, <2>2, Places
  <2>4. g[j] * Word = Word * g[j]
    BY <1>3, <2>2
  <2> QED
    BY <1>4, <2>2, <2>3, <2>4
<1>8. k \in T
  <2> HIDE DEF T
  <2> QED
    BY <1>6, <1>7, Induction
<1>9. g[k] \in 0..(big(k) - 1)
  BY <1>8
<1> QED
  BY <1>2, <1>9 DEF big

\* Swapping the bytes again, and the words again, undoes it.
LEMMA SwappedTwice == ASSUME NEW w \in 0..(Word - 1) PROVE SwapBytes(SwapBytes(w)) = w
<1> DEFINE H == HalfWord   q == w \div H   r == w % H   s == H * r + q
<1>1. H \in Nat \ {0} /\ H * H = Word /\ w \in Int /\ 0 <= w /\ w < H * H
  BY TwoBytes
<1> HIDE DEF H
<1>2. q \in Int /\ r \in 0..(H - 1) /\ w = H * q + r
  BY <1>1, Divided
<1>3. w \div (H * H) = q \div H
  <2>1. InTurn(w, H, H)
    BY <1>1, DividedTwice
  <2> QED
    BY <2>1, Zenon DEF InTurn
<1>4. SwapBytes(w) = s
  BY <1>1, <1>2 DEF SwapBytes, H
<1> HIDE DEF q, r
<1>5. q \in 0..(H - 1)
  BY <1>1, <1>2
<1>6. s \div H = r /\ s % H = q
  <2>1. r \in Int /\ s = H * r + q
    BY <1>1, <1>2
  <2> HIDE DEF s
  <2> QED
    BY <1>1, <1>5, <2>1, DividedOnce
<1> HIDE DEF s
<1>7. SwapBytes(s) = q * H + r
  BY <1>6 DEF SwapBytes, H
<1> QED
  BY <1>1, <1>2, <1>4, <1>7

LEMMA ArrangedTwice ==
  ASSUME NEW k \in Nat, NEW ws \in [1..k -> 0..(Word - 1)], NEW order
  PROVE  Arranged(Arranged(ws, order), order) = ws
<1> DEFINE Swapped(u) == [i \in DOMAIN u |-> IF order.bytes THEN SwapBytes(u[i]) ELSE u[i]]
           s == Swapped(ws)   r == Reverse(s)
<1>1. \A u : Arranged(u, order) = IF order.words THEN Reverse(Swapped(u)) ELSE Swapped(u)
  BY DEF Arranged
<1>2. s \in [1..k -> 0..(Word - 1)]
  <2>1. \A i \in 1..k : s[i] \in 0..(Word - 1)
    BY SwappedIsWord
  <2> QED
    BY <2>1
<1>3. Swapped(s) = ws
  <2>1. \A i \in 1..k : Swapped(s)[i] = ws[i]
    BY SwappedTwice
  <2> QED
    BY <2>1
<1>4. Len(s) = k
  BY <1>2
<1>5. r = [i \in 1..k |-> s[(k - i) + 1]]
  <2> HIDE DEF s
  <2> QED
    BY <1>4 DEF Reverse
<1>6. \A i \in 1..k : (k - i) + 1 \in 1..k /\ (k - ((k - i) + 1)) + 1 = i
  OBVIOUS
<1>7. Swapped(r) = [i \in 1..k |-> ws[(k - i) + 1]]
  <2>1. DOMAIN r = 1..k /\ \A i \in 1..k : r[i] = s[(k - i) + 1]
    BY <1>5
  <2> HIDE DEF r
  <2>2. \A i \in 1..k : Swapped(r)[i] = ws[(k - i) + 1]
    <3> SUFFICES ASSUME NEW i \in 1..k PROVE Swapped(r)[i] = ws[(k - i) + 1]
      OBVIOUS
    <3> DEFINE x == (k - i) + 1
    <3>1. x \in 1..k
      BY <1>6
    <3> HIDE DEF x
    <3>2. Swapped(s)[x] = ws[x] /\ r[i] = s[x] /\ DOMAIN s = 1..k
      BY <1>2, <1>3, <2>1 DEF x
    <3>3. Swapped(r)[i] = Swapped(s)[x]
      <4> HIDE DEF s
      <4> QED
        BY <2>1, <3>1, <3>2
    <3> QED
      BY <3>2, <3>3 DEF x
  <2> QED
    BY <2>1, <2>2
<1> DEFINE t == Swapped(r)
<1>9. t = [i \in 1..k |-> ws[(k - i) + 1]]
  BY <1>7
<1> HIDE DEF t
<1>8. Reverse(t) = ws
  <2>1. DOMAIN t = 1..k /\ Len(t) = k /\ \A i \in 1..k : t[i] = ws[(k - i) + 1]
    BY <1>9
  <2>2. Reverse(t) = [i \in 1..k |-> t[(k - i) + 1]]
    BY <2>1 DEF Reverse
  <2>3. \A i \in 1..k : t[(k - i) + 1] = ws[i]
    BY <1>6, <2>1
  <2> QED
    BY <2>2, <2>3
<1>10. Swapped(r) = t
  BY DEF t
<1> HIDE DEF Swapped
<1> QED
  BY <1>1, <1>3, <1>8, <1>10

\* The words before the last one.
LEMMA OneWordLess ==
  ASSUME NEW n \in Int, NEW d \in Nat \ {0}
  PROVE  n \div (d * Word) = (n \div d) \div Word /\ n \div d \in Int
<1>1. InTurn(n, d, Word)
  BY TwoBytes, DividedTwice
<1>2. n \div d \in Int
  BY Divided
<1> QED
  BY <1>1, <1>2, Zenon DEF InTurn

\* The words of a number are that number again, whatever their order.
LEMMA WordsReadBack ==
  ASSUME NEW k \in Nat, NEW n \in 0..(2^(WordBits * k) - 1), NEW order
  PROVE  FromWords(ToWords(n, k, order), order) = n
<1> DEFINE big(j) == 2^(WordBits * j)
           ws == [i \in 1..k |-> (n \div 2^(WordBits * (k - i))) % Word]
           as == ToWords(n, k, order)
<1>0. n \in Int
  <2> DEFINE m == 2^(WordBits * k) - 1
  <2> HIDE DEF m
  <2>1. n \in 0..m
    BY DEF m
  <2> QED
    BY <2>1
<1>1. Word \in Nat \ {0} /\ as \in [1..k -> 0..(Word - 1)]
  BY <1>0, TwoBytes, WordsFit
<1>2. \A j \in Nat : big(j) \in Nat \ {0} /\ big(j + 1) = Word * big(j)
  BY WordPowers
<1>3. big(0) = 1 /\ n \in 0..(big(k) - 1)
  BY WordPowers
<1>4. \A i \in 1..k : ws[i] = (n \div big(k - i)) % Word
  OBVIOUS
<1>5. Arranged(as, order) = ws
  <2>1. \A i \in 1..k : ws[i] \in 0..(Word - 1)
    <3> HIDE DEF ws, big
    <3> SUFFICES ASSUME NEW i \in 1..k PROVE (n \div big(k - i)) % Word \in 0..(Word - 1)
      BY <1>4
    <3> DEFINE d == big(k - i)
    <3>0. d \in Nat \ {0}
      BY <1>2
    <3> HIDE DEF d
    <3>1. n \div d \in Int
      BY <1>0, <3>0, Divided
    <3> DEFINE m == n \div d
    <3> HIDE DEF m
    <3>2. m % Word \in 0..(Word - 1)
      BY <1>1, <3>1, Divided DEF m
    <3> QED
      BY <3>2 DEF m, d
  <2>2. ws \in [1..k -> 0..(Word - 1)]
    BY <2>1
  <2>3. as = Arranged(ws, order)
    BY DEF ToWords
  <2> HIDE DEF ws, as
  <2> QED
    BY <2>2, <2>3, ArrangedTwice
<1> HIDE DEF as, ws, big
<1>6. PICK g : Takes(as, order, k, g)
  BY <1>1, FromWordsTakes
<1>7. /\ g \in [0..k -> Nat] /\ g[0] = 0 /\ FromWords(as, order) = g[k]
      /\ \A j \in 1..k : g[j] = g[j - 1] * Word + ws[j]
  BY <1>5, <1>6 DEF Takes
<1> DEFINE T == {j \in Nat : j <= k => g[j] = n \div big(k - j)}
<1>8. 0 \in T
  <2> DEFINE d == big(k)
  <2>0. d \in Nat \ {0} /\ n \in 0..(d - 1)
    BY <1>2, <1>3
  <2> HIDE DEF d
  <2> DEFINE z == 0
  <2>1. n = d * z + n /\ z \in Int
    BY <1>0, <2>0
  <2> HIDE DEF z
  <2>2. n \div d = z
    BY <2>0, <2>1, DividedOnce
  <2> QED
    BY <1>7, <2>2 DEF d, z
<1>9. ASSUME NEW j \in Nat, j \in T PROVE j + 1 \in T
  <2> SUFFICES ASSUME j + 1 <= k PROVE g[j + 1] = n \div big(k - (j + 1))
    OBVIOUS
  <2> DEFINE i == k - (j + 1)   m == n \div big(i)
  <2>1. j + 1 \in 1..k /\ j + 1 - 1 = j /\ j <= k /\ i \in Nat /\ k - j = i + 1
    OBVIOUS
  <2>2. g[j + 1] = g[j] * Word + (m % Word) /\ g[j] = n \div big(i + 1)
    BY <1>4, <1>7, <1>9, <2>1
  <2>3. n \div (big(i) * Word) = m \div Word /\ m \in Int
    <3> DEFINE d == big(i)
    <3>1. d \in Nat \ {0}
      BY <1>2, <2>1
    <3> HIDE DEF d
    <3> QED
      BY <1>0, <3>1, OneWordLess DEF d
  <2>4. big(i + 1) = big(i) * Word
    <3>1. big(i + 1) = Word * big(i) /\ big(i) \in Nat
      BY <1>2, <2>1
    <3> QED
      BY <1>1, <3>1
  <2> HIDE DEF m, i
  <2>5. m = Word * (m \div Word) + (m % Word) /\ m \div Word \in Int
    BY <1>1, <2>3, Divided
  <2>6. g[j] = m \div Word
    BY <2>2, <2>3, <2>4
  <2> DEFINE x == m \div Word   y == m % Word
  <2>7. g[j + 1] = x * Word + y /\ m = Word * x + y /\ x \in Int
    BY <2>2, <2>5, <2>6
  <2> HIDE DEF x, y
  <2>8. x * Word = Word * x
    BY <1>1, <2>7
  <2>9. g[j + 1] = m
    BY <2>7, <2>8
  <2> QED
    BY <2>9 DEF m, i
<1>10. k \in T
  <2> HIDE DEF T
  <2> QED
    BY <1>8, <1>9, Induction
<1>11. g[k] = n
  <2>1. g[k] = n \div big(0)
    BY <1>10
  <2>2. n \div 1 = n
    BY <1>0
  <2> QED
    BY <1>3, <2>1, <2>2
<1> QED
  BY <1>7, <1>11 DEF as

\* The quotient of a number below a product is below the other factor.
LEMMA QuotientFits ==
  ASSUME NEW a \in Nat \ {0}, NEW b \in Nat \ {0}, NEW n \in 0..(a * b - 1)
  PROVE  n \div a \in 0..(b - 1)
<1> DEFINE x == n \div a   r == n % a   d == a * b
<1>1. d \in Nat /\ n \in 0..(d - 1)
  OBVIOUS
<1> HIDE DEF d
<1>2. n \in Nat /\ n < d
  BY <1>1
<1>3. x \in Int /\ r \in 0..(a - 1) /\ n = a * x + r
  BY <1>2, Divided
<1> HIDE DEF x, r
<1>4. x >= 0
  <2> SUFFICES ASSUME x < 0 PROVE FALSE
    BY <1>3
  <2>1. a * x + a <= a * 0
    BY <1>3, ProductGrows
  <2>2. a * x \in Int /\ a * 0 = 0
    BY <1>3
  <2> QED
    BY <1>2, <1>3, <2>1, <2>2
<1>5. x < b
  <2> SUFFICES ASSUME b <= x PROVE FALSE
    BY <1>3
  <2>1. a * b <= a * x
    <3>1. b < x => a * b + a <= a * x
      BY <1>3, ProductGrows
    <3>2. b = x => a * b = a * x
      BY <1>3
    <3>3. a * b \in Int /\ a * x \in Int
      BY <1>3
    <3> QED
      BY <1>3, <3>1, <3>2, <3>3
  <2>2. a * x \in Int
    BY <1>3
  <2> QED
    BY <1>2, <1>3, <2>1, <2>2 DEF d
<1>6. x \in 0..(b - 1)
  BY <1>3, <1>4, <1>5
<1> QED
  BY <1>6 DEF x

\* A bit below a place is one of the remainder.
LEMMA LowerBitsOf ==
  ASSUME NEW n \in Int, NEW low \in Nat, NEW i \in Nat, i < low
  PROVE  BitsOf(n, i, 1) = BitsOf(n % 2^low, i, 1)
<1> DEFINE P == 2^low   A == 2^i   C == 2^(low - (i + 1))   q == n \div P   l == n % P
           x == l \div A   v == l % A   y == x \div 2   u == x % 2
<1>0. P \in Nat \ {0}
  BY DoubledPower
<1>1. A \in Nat \ {0} /\ C \in Nat \ {0} /\ 2^(i + 1) = 2 * A
  BY DoubledPower
<1>2. P = (2 * A) * C
  <2>1. low - (i + 1) \in Nat /\ i + 1 \in Nat /\ (i + 1) + (low - (i + 1)) = low
    OBVIOUS
  <2>2. 2^((i + 1) + (low - (i + 1))) = 2^(i + 1) * C
    BY <2>1, SumOfPowers
  <2> QED
    BY <1>1, <2>1, <2>2
<1>3. 2^1 = 2
  BY SmallPowers
<1> HIDE DEF P, C
<1>4. q \in Int /\ l \in 0..(P - 1) /\ n = P * q + l
  BY <1>0, Divided
<1>12. l \in Nat
  BY <1>0, <1>4
<1> HIDE DEF q
<1>6. BitsOf(n, i, 1) = (n \div A) % 2 /\ BitsOf(l, i, 1) = u
  BY <1>3 DEF BitsOf
<1> HIDE DEF A, l
<1>5. x \in Int /\ v \in 0..(A - 1) /\ l = A * x + v
  BY <1>1, <1>12, Divided
<1> HIDE DEF x, v
<1>7. y \in Int /\ u \in 0..1 /\ x = 2 * y + u
  BY <1>5, Divided
<1> HIDE DEF y, u
<1> DEFINE z == 2 * (C * q + y) + u
<1>8. z \in Int /\ n = A * z + v
  <2>1. C * q \in Int /\ P * q = (2 * A) * (C * q)
    BY <1>1, <1>2, <1>4
  <2> DEFINE w == C * q
  <2> HIDE DEF w
  <2>2. w \in Int /\ n = (2 * A) * w + A * (2 * y + u) + v
    <3>1. w \in Int /\ P * q = (2 * A) * w
      BY <2>1 DEF w
    <3>2. A * (2 * y + u) = A * x /\ A * x \in Int
      BY <1>1, <1>5, <1>7
    <3>3. (2 * A) * w \in Int
      BY <1>1, <3>1
    <3> QED
      BY <1>4, <1>5, <3>1, <3>2, <3>3
  <2>3. z = 2 * (w + y) + u
    BY DEF w
  <2> HIDE DEF z
  <2>4. (2 * A) * w + A * (2 * y + u) = A * z
    BY <1>1, <1>7, <2>2, <2>3
  <2> QED
    BY <1>5, <1>7, <2>2, <2>3, <2>4
<1>9. z = 2 * (C * q + y) + u /\ C * q + y \in Int
  BY <1>1, <1>4, <1>7
<1> HIDE DEF z
<1>10. n \div A = z
  BY <1>1, <1>5, <1>8, DividedOnce
<1>11. z % 2 = u
  <2> DEFINE c == C * q + y
  <2>1. z = 2 * c + u /\ c \in Int
    BY <1>9
  <2> HIDE DEF c
  <2> QED
    BY <1>7, <2>1
<1> QED
  BY <1>6, <1>10, <1>11 DEF l, P

\* A bit below a place does not depend on what is above it.
LEMMA LowerBits ==
  ASSUME NEW n \in Int, NEW m \in Int, NEW low \in Nat, n % 2^low = m % 2^low, NEW i \in Nat, i < low
  PROVE  BitsOf(n, i, 1) = BitsOf(m, i, 1)
<1> DEFINE P == 2^low
<1>1. BitsOf(n, i, 1) = BitsOf(n % P, i, 1) /\ BitsOf(m, i, 1) = BitsOf(m % P, i, 1)
  BY LowerBitsOf
<1>2. n % P = m % P
  OBVIOUS
<1> HIDE DEF P
<1> QED
  BY <1>1, <1>2

\* The number above a place decides the bits there.
LEMMA HigherBits ==
  ASSUME NEW n \in Int, NEW m \in Int, NEW low \in Nat, NEW size \in Nat,
         (n \div 2^low) \div 2^size = (m \div 2^low) \div 2^size, NEW i \in Nat, low + size <= i
  PROVE  BitsOf(n, i, 1) = BitsOf(m, i, 1)
<1> DEFINE P == 2^low   S == 2^size   C == 2^(i - (low + size))
<1>1. P \in Nat \ {0} /\ S \in Nat \ {0} /\ C \in Nat \ {0}
  BY DoubledPower
<1>2. 2^i = P * (S * C)
  <2>1. i - (low + size) \in Nat /\ low + (size + (i - (low + size))) = i
    OBVIOUS
  <2>2. 2^(size + (i - (low + size))) = S * C
    BY <2>1, SumOfPowers
  <2>3. 2^(low + (size + (i - (low + size)))) = P * 2^(size + (i - (low + size)))
    BY <2>1, SumOfPowers
  <2> QED
    BY <2>1, <2>2, <2>3
<1>3. ASSUME NEW x \in Int PROVE x \div 2^i = ((x \div P) \div S) \div C
  <2> HIDE DEF P, S, C
  <2>1. S * C \in Nat \ {0} /\ x \div P \in Int
    BY <1>1, Divided, Places
  <2>2. InTurn(x, P, S * C)
    BY <1>1, <2>1, DividedTwice
  <2>3. InTurn(x \div P, S, C)
    BY <1>1, <2>1, DividedTwice
  <2> QED
    BY <1>2, <2>2, <2>3, Zenon DEF InTurn
<1>4. n \div 2^i = m \div 2^i
  BY <1>3, Zenon
<1> QED
  BY <1>4, Zenon DEF BitsOf

\* Bits put in their place: they are there, and the others as they were.
ArePut(all, n, low, size, new) ==
    LET m == Among(n, low, size, new)
    IN  /\ m \in 0..(2^all - 1) /\ BitsOf(m, low, size) = new
        /\ \A i \in Nat : i \notin low..(low + size - 1) => BitsOf(m, i, 1) = BitsOf(n, i, 1)

LEMMA BitsArePut ==
  ASSUME NEW all \in Nat, NEW n \in 0..(2^all - 1), NEW low \in Nat, NEW size \in Nat, low + size <= all,
         NEW new \in 0..(2^size - 1)
  PROVE  ArePut(all, n, low, size, new)
<1> DEFINE P == 2^low   S == 2^size   R == 2^(all - (low + size))   W == 2^all
           q == n \div P   l == n % P   h == q \div S   b == q % S   m == Among(n, low, size, new)
           z == S * h + new
<1>1. P \in Nat \ {0} /\ S \in Nat \ {0} /\ R \in Nat \ {0}
  BY DoubledPower
<1>2. W = P * (S * R)
  <2>1. all - (low + size) \in Nat /\ low + (size + (all - (low + size))) = all
    OBVIOUS
  <2>2. 2^(size + (all - (low + size))) = S * R
    BY <2>1, SumOfPowers
  <2>3. 2^(low + (size + (all - (low + size)))) = P * 2^(size + (all - (low + size)))
    BY <2>1, SumOfPowers
  <2> QED
    BY <2>1, <2>2, <2>3
<1>3. BitsOf(n, low, size) = b /\ m = n - b * P + new * P /\ BitsOf(m, low, size) = (m \div P) % S
  BY Zenon DEF BitsOf, Among
<1>4. n \in 0..(W - 1) /\ new \in 0..(S - 1)
  OBVIOUS
<1> HIDE DEF P, S, R, W
<1>5. S * R \in Nat \ {0}
  BY <1>1, Places
<1>6. W \in Nat
  <2> DEFINE d == S * R
  <2>1. d \in Nat /\ W = P * d
    BY <1>2, <1>5
  <2> HIDE DEF d
  <2> QED
    BY <1>1, <2>1
<1>7. n \in Nat /\ new \in Nat /\ new < S
  BY <1>1, <1>4, <1>6
<1>8. q \in 0..(S * R - 1)
  <2> DEFINE d == S * R
  <2>1. d \in Nat \ {0} /\ W = P * d
    BY <1>2, <1>5
  <2> HIDE DEF d
  <2>2. q \in 0..(d - 1)
    BY <1>1, <1>4, <2>1, QuotientFits
  <2> QED
    BY <2>2 DEF d
<1>9. q \in Int /\ l \in 0..(P - 1) /\ n = P * q + l
  BY <1>1, <1>7, Divided
<1> HIDE DEF q, l
<1>10. h \in 0..(R - 1)
  BY <1>1, <1>8, QuotientFits
<1>11. h \in Int /\ b \in 0..(S - 1) /\ q = S * h + b
  BY <1>1, <1>9, Divided
<1> HIDE DEF m, h, b
<1>12. z \in 0..(S * R - 1) /\ z \in Int
  <2>1. z \in 0..(S * R - 1)
    BY <1>1, <1>4, <1>10, Places
  <2>2. z \in Int
    BY <1>1, <1>7, <1>11
  <2> QED
    BY <2>1, <2>2
<1>13. m = P * z + l
  <2>1. m = (P * (S * h + b) + l) - b * P + new * P
    BY <1>3, <1>9, <1>11
  <2> DEFINE c == S * h
  <2>2. c \in Int
    BY <1>1, <1>11
  <2> HIDE DEF c
  <2>3. m = (P * (c + b) + l) - b * P + new * P /\ z = c + new
    BY <2>1 DEF c
  <2> HIDE DEF z
  <2>4. P * (c + b) = P * c + b * P /\ P * (c + new) = P * c + new * P
    BY <1>1, <1>7, <1>11, <2>2
  <2>5. P * c \in Int /\ b * P \in Int /\ new * P \in Int /\ l \in Int
    BY <1>1, <1>7, <1>9, <1>11, <2>2
  <2> QED
    BY <2>3, <2>4, <2>5
<1>14. z \div S = h /\ z % S = new
  <2>1. z = S * h + new
    OBVIOUS
  <2> HIDE DEF z
  <2> QED
    BY <1>1, <1>4, <1>11, <2>1, DividedOnce
<1> HIDE DEF z
<1>15. m \in Int /\ m \div P = z /\ m % P = l
  BY <1>1, <1>9, <1>12, <1>13, DividedOnce
<1>16. m \in 0..(W - 1)
  <2> DEFINE d == S * R
  <2>1. d \in Nat \ {0} /\ W = P * d /\ z \in 0..(d - 1)
    BY <1>2, <1>5, <1>12
  <2> HIDE DEF d
  <2>2. P * z + l \in 0..(P * d - 1)
    BY <1>1, <1>9, <2>1, Places
  <2> QED
    BY <1>13, <2>1, <2>2
<1>17. ASSUME NEW i \in Nat, i \notin low..(low + size - 1) PROVE BitsOf(m, i, 1) = BitsOf(n, i, 1)
  <2>1. CASE i < low
    <3>1. n % P = m % P
      BY <1>15 DEF l
    <3> QED
      BY <1>7, <1>15, <2>1, <3>1, LowerBits DEF P
  <2>2. CASE low + size <= i
    <3>1. (m \div P) \div S = (n \div P) \div S
      BY <1>14, <1>15 DEF h, q
    <3> QED
      BY <1>7, <1>15, <2>2, <3>1, HigherBits DEF P, S
  <2>3. i < low \/ low + size <= i
    BY <1>17
  <2> QED
    BY <2>1, <2>2, <2>3
<1>18. BitsOf(m, low, size) = new
  BY <1>3, <1>14, <1>15
<1> QED
  BY <1>16, <1>17, <1>18 DEF m, W, ArePut

LEMMA BitsAre ==
  ASSUME NEW n \in Int, NEW low \in Nat, NEW size \in Nat
  PROVE  BitsOf(n, low, size) \in Int
<1>1. 2^low \in Nat \ {0} /\ 2^size \in Nat \ {0}
  BY DoubledPower
<1>2. n \div 2^low \in Int
  BY <1>1, Divided
<1>3. (n \div 2^low) % 2^size \in 0..(2^size - 1)
  BY <1>1, <1>2, Divided
<1> DEFINE p == 2^size
<1>4. \A x \in 0..(p - 1) : x \in Int
  OBVIOUS
<1> HIDE DEF p
<1> QED
  BY <1>3, <1>4 DEF BitsOf, p

\* What is written is a number.
LEMMA AmongIs ==
  ASSUME NEW n \in Int, NEW low \in Nat, NEW size \in Nat, NEW new \in Int
  PROVE  Among(n, low, size, new) \in Int
<1> DEFINE p == 2^low   b == BitsOf(n, low, size)
<1>1. p \in Nat \ {0} /\ b \in Int
  BY DoubledPower, BitsAre
<1> HIDE DEF p, b
<1>2. n - b * p + new * p \in Int
  BY <1>1
<1> QED
  BY <1>2 DEF Among, p, b

LEMMA RawIs ==
  ASSUME NEW f \in Fields, NEW v \in Int
  PROVE  RawOf(f, v) \in Int /\ Encoded(f, RawOf(f, v)) \in Int
<1>1. f.scale \in Nat \ {0} /\ f.size \in Nat
  BY RegisterWritesAssumption
<1>2. Rounded(v, f.scale) \in Int
  <2> DEFINE q == v \div f.scale
  <2>1. q \in Int
    BY <1>1, Divided
  <2> HIDE DEF q
  <2>2. q + 1 \in Int
    BY <2>1
  <2>3. Rounded(v, f.scale) \in {q, q + 1}
    BY Zenon DEF Rounded, q
  <2> QED
    BY <2>1, <2>2, <2>3
<1>3. RawOf(f, v) \in Int
  BY <1>2 DEF RawOf
<1> DEFINE r == RawOf(f, v)
<1> HIDE DEF r
<1>4. 2^f.size \in Nat \ {0}
  BY <1>1, DoubledPower
<1>5. r \in Int /\ r % 2^f.size \in Int
  <2>1. r \in Int
    BY <1>3 DEF r
  <2>2. r % 2^f.size \in 0..(2^f.size - 1)
    BY <1>4, <2>1, Divided
  <2> DEFINE p == 2^f.size
  <2>3. \A x \in 0..(p - 1) : x \in Int
    OBVIOUS
  <2> HIDE DEF p
  <2> QED
    BY <2>1, <2>2, <2>3 DEF p
<1>6. -r * 2 + 1 \in Int /\ r * 2 \in Int
  BY <1>5
<1>7. Encoded(f, r) \in Int
  BY <1>5, <1>6, Zenon DEF Encoded
<1> QED
  BY <1>3, <1>7 DEF r

\* The registers hold words, and so does what is about to be written.
WordsInv ==
    /\ registers \in [Words -> 0..(Word - 1)] /\ asked \in 0..MaxAsked
    /\ \A w \in FieldWriters :
          /\ outcome[w] \in {"none", "done", "refused", "lost"}
          /\ writing[w].stage = "asked" => writing[w].value \in Int
          /\ writing[w].stage = "write" => \A i \in DOMAIN writing[w].words : writing[w].words[i] \in 0..(Word - 1)
    /\ DOMAIN outcome = FieldWriters

LEMMA ContentAreWords ==
  ASSUME registers \in [Words -> 0..(Word - 1)], NEW f \in Fields, NEW v \in Int
  PROVE  Content(f, v) \in [1..Len(f.at) -> 0..(Word - 1)]
<1> DEFINE k == Len(f.at)
           before == FromWords(Holds(Target(f)), f.order)
           whole == f.kind \in {"ushort", "short", "uint", "int"}
           e == Encoded(f, RawOf(f, v))
           n == IF whole THEN e ELSE Among(before, f.bit, f.size, e)
<1>1. /\ f.at \in Seq(0..(DeviceWords - 1)) /\ f.at # <<>> /\ f.at[1] + Len(f.at) <= DeviceWords
      /\ f.bit \in Nat /\ f.size \in Nat /\ DeviceWords \in Nat
  BY RegisterWritesAssumption
<1>2. k \in Nat /\ DOMAIN f.at = 1..k /\ f.at[1] \in 0..(DeviceWords - 1)
  BY <1>1
<1>3. Holds(Target(f)) \in [1..k -> 0..(Word - 1)]
  <2> HIDE DEF k
  <2>1. ASSUME NEW i \in 1..k PROVE f.at[1] + i - 1 \in Words
    <3>1. f.at[1] \in Nat /\ k \in Nat /\ f.at[1] + k <= DeviceWords
      BY <1>1, <1>2 DEF k
    <3>2. \A a, b, d \in Nat : a + b <= d => \A j \in 1..b : a + j - 1 \in 0..(d - 1)
      OBVIOUS
    <3> QED
      BY <1>1, <3>1, <3>2 DEF Words
  <2>2. Target(f) = [i \in 1..k |-> f.at[1] + i - 1]
    BY <1>2 DEF Target
  <2>3. Holds(Target(f)) = [i \in 1..k |-> registers[f.at[1] + i - 1]]
    BY <2>2 DEF Holds
  <2> QED
    BY <2>1, <2>3
<1>4. before \in Int
  BY <1>2, <1>3, FromWordsIs
<1>5. e \in Int
  BY RawIs
<1> HIDE DEF before, e, k
<1>6. n \in Int
  BY <1>1, <1>4, <1>5, AmongIs
<1>7. Content(f, v) = ToWords(n, k, f.order)
  BY Zenon DEF Content, before, e, k
<1> HIDE DEF n
<1> QED
  BY <1>2, <1>6, <1>7, WordsFit DEF k

LEMMA EndsWithWords ==
  ASSUME WordsInv, DOMAIN writing = FieldWriters, registers' \in [Words -> 0..(Word - 1)], asked' \in 0..MaxAsked,
         NEW w \in FieldWriters, NEW how \in {"done", "refused", "lost"}, EndWriting(w, how)
  PROVE  WordsInv'
  BY DEF WordsInv, EndWriting, Idle

LEMMA WordsStep == WritesInv /\ WordsInv /\ [RegisterWritesNext]_writeVars => WordsInv'
<1> SUFFICES ASSUME WritesInv, WordsInv, [RegisterWritesNext]_writeVars PROVE WordsInv'
  OBVIOUS
<1>1. ASSUME NEW w \in FieldWriters, NEW f \in Fields, NEW v \in f.asks, AskWrite(w, f, v) PROVE WordsInv'
  <2>1. /\ writing' = [writing EXCEPT ![w] = [stage |-> "asked", field |-> f, value |-> v]]
        /\ outcome' = [outcome EXCEPT ![w] = "none"] /\ UNCHANGED registers
    BY <1>1 DEF AskWrite
  <2>2. v \in Int /\ asked' \in 0..MaxAsked
    BY <1>1, RegisterWritesAssumption DEF AskWrite, WordsInv
  <2>3. DOMAIN writing = FieldWriters
    BY DEF WritesInv
  <2> QED
    BY <2>1, <2>2, <2>3 DEF WordsInv
<1>2. ASSUME NEW w \in FieldWriters, ReadAndCheck(w) PROVE WordsInv'
  <2> DEFINE f == writing[w].field   v == writing[w].value
  <2>1. writing[w].stage = "asked" /\ f \in Fields /\ v \in Int /\ UNCHANGED <<registers, asked>>
    BY <1>2 DEF ReadAndCheck, WritesInv, WriteInv, WordsInv
  <2>2. registers' \in [Words -> 0..(Word - 1)] /\ asked' \in 0..MaxAsked /\ DOMAIN writing = FieldWriters
    BY <2>1 DEF WordsInv, WritesInv
  <2>3. CASE \E how \in {"lost", "refused"} : EndWriting(w, how)
    BY <2>2, <2>3, EndsWithWords
  <2>4. CASE /\ UNCHANGED outcome
             /\ writing' = [writing EXCEPT ![w] =
                  [stage |-> "write", field |-> f, value |-> v, words |-> Content(f, v)]]
    <3> HIDE DEF f, v
    <3>1. Content(f, v) \in [1..Len(f.at) -> 0..(Word - 1)]
      BY <2>1, ContentAreWords DEF WordsInv
    <3>2. \A i \in DOMAIN Content(f, v) : Content(f, v)[i] \in 0..(Word - 1)
      BY <3>1
    <3> DEFINE c == Content(f, v)
    <3> HIDE DEF c
    <3>3. \A i \in DOMAIN c : c[i] \in 0..(Word - 1)
      BY <3>2 DEF c
    <3>4. writing' = [writing EXCEPT ![w] = [stage |-> "write", field |-> f, value |-> v, words |-> c]]
      BY <2>4 DEF c
    <3> QED
      BY <2>2, <2>4, <3>3, <3>4 DEF WordsInv
  <2> QED
    BY <1>2, <2>3, <2>4 DEF ReadAndCheck
<1>3. ASSUME NEW w \in FieldWriters, WriteWords(w) PROVE WordsInv'
  <2> DEFINE f == writing[w].field   ws == writing[w].words
  <2>1. writing[w].stage = "write" /\ UNCHANGED asked
    BY <1>3 DEF WriteWords
  <2>2. PICK how \in {"done", "lost"} : EndWriting(w, how)
    BY <1>3 DEF WriteWords
  <2>3. registers' = Landed(f, ws) \/ UNCHANGED registers
    BY <1>3 DEF WriteWords
  <2>4. \A i \in DOMAIN ws : ws[i] \in 0..(Word - 1)
    BY <2>1 DEF WordsInv
  <2> HIDE DEF f, ws
  <2>5. Landed(f, ws) \in [Words -> 0..(Word - 1)]
    BY <2>4 DEF Landed, WordsInv
  <2>6. registers' \in [Words -> 0..(Word - 1)] /\ asked' \in 0..MaxAsked /\ DOMAIN writing = FieldWriters
    BY <2>1, <2>3, <2>5 DEF WordsInv, WritesInv
  <2> QED
    BY <2>2, <2>6, EndsWithWords
<1>4. CASE UNCHANGED writeVars
  BY <1>4 DEF writeVars, WordsInv
<1> QED
  BY <1>1, <1>2, <1>3, <1>4 DEF RegisterWritesNext

LEMMA WritesBegin == RegisterWritesInit => WritesInv /\ WordsInv
<1> SUFFICES ASSUME RegisterWritesInit PROVE WritesInv /\ WordsInv
  OBVIOUS
<1>1. WritesInv
  BY DEF RegisterWritesInit, WritesInv, WriteInv, Idle
<1>2. registers \in [Words -> 0..(Word - 1)] /\ asked \in 0..MaxAsked
  <2>1. Fills \subseteq 0..(Word - 1) /\ MaxAsked \in Nat
    BY RegisterWritesAssumption DEF Word
  <2>2. registers \in [Words -> Fills] /\ asked = 0
    BY DEF RegisterWritesInit
  <2>3. \A r \in Words : registers[r] \in 0..(Word - 1)
    BY <2>1, <2>2
  <2> QED
    BY <2>1, <2>2, <2>3
<1> QED
  BY <1>1, <1>2 DEF RegisterWritesInit, WordsInv, Idle

LEMMA WritesAreTyped == WritesInv /\ WordsInv => RegisterWritesTypeOK
  BY DEF WritesInv, WriteInv, WordsInv, RegisterWritesTypeOK

----------------------------------------------------------------------------
(* What is written means what was asked for. *)

\* int(round()) is off by less than what it rounds to.
LEMMA RoundedIsClose ==
  ASSUME NEW v \in Int, NEW d \in Nat \ {0}
  PROVE  Rounded(v, d) \in Int /\ -d < Rounded(v, d) * d - v /\ Rounded(v, d) * d - v < d
<1> DEFINE q == v \div d   r == v % d
<1>1. q \in Int /\ r \in 0..(d - 1) /\ v = d * q + r
  BY Divided
<1>2. Rounded(v, d) = q \/ (Rounded(v, d) = q + 1 /\ r # 0)
  <2>1. Rounded(v, d) = IF 2 * r < d THEN q ELSE IF 2 * r > d THEN q + 1 ELSE IF q % 2 = 0 THEN q ELSE q + 1
    BY DEF Rounded
  <2> HIDE DEF q, r
  <2> DEFINE x == Rounded(v, d)
  <2>2. x = IF 2 * r < d THEN q ELSE IF 2 * r > d THEN q + 1 ELSE IF q % 2 = 0 THEN q ELSE q + 1
    BY <2>1
  <2> HIDE DEF x
  <2>3. x = q \/ (x = q + 1 /\ ~(2 * r < d))
    BY <2>2
  <2>4. ~(2 * r < d) => r # 0
    BY <1>1
  <2> QED
    BY <2>3, <2>4 DEF x
<1> HIDE DEF q, r
<1> DEFINE x == Rounded(v, d)
<1> HIDE DEF x
<1>3. x = q \/ (x = q + 1 /\ r # 0)
  BY <1>2 DEF x
<1>4. q * d = d * q /\ d * q \in Int
  BY <1>1
<1>5. CASE x = q
  <2>1. x \in Int /\ x * d - v = -r
    BY <1>1, <1>4, <1>5
  <2> QED
    BY <1>1, <2>1 DEF x
<1>6. CASE x = q + 1 /\ r # 0
  <2>1. (q + 1) * d = q * d + d
    BY <1>1
  <2>2. x \in Int /\ x * d - v = d - r
    BY <1>1, <1>4, <1>6, <2>1
  <2> QED
    BY <1>1, <1>6, <2>2 DEF x
<1> QED
  BY <1>3, <1>5, <1>6

\* A value that fits means the same when its bits are read: unsigned, two's complement, and
\* sign and magnitude.
LEMMA MeaningOfEncoded ==
  ASSUME NEW f \in Fields, f.size # 0, NEW r \in Int, Fits(f, r)
  PROVE  /\ Encoded(f, r) \in 0..(2^f.size - 1)
         /\ \A n : BitsOf(n, f.bit, f.size) = Encoded(f, r) => Meaning(f, n) = r
<1> DEFINE S == 2^f.size   H == 2^(f.size - 1)   e == Encoded(f, r)
<1>1. H \in Nat \ {0} /\ S \in Nat \ {0} /\ S = 2 * H
  <2>1. f.size \in Nat
    BY RegisterWritesAssumption
  <2>2. f.size - 1 \in Nat /\ (f.size - 1) + 1 = f.size
    BY <2>1
  <2>3. H \in Nat \ {0} /\ 2^((f.size - 1) + 1) = 2 * H
    BY <2>2, DoubledPower
  <2> QED
    BY <2>2, <2>3
<1> DEFINE Unsigned == f.kind \in {"ushort", "uint", "bits", "byte", "flags"}
           TwosComplement == f.kind \in {"short", "int", "sbits"}
<1>2. Unsigned \/ TwosComplement \/ f.kind = "sm"
  BY RegisterWritesAssumption
<1>3. CASE Unsigned
  <2>1. r \in 0..(S - 1) /\ e = r % S
    BY <1>3 DEF Fits, Encoded
  <2>2. \A n : Meaning(f, n) = BitsOf(n, f.bit, f.size)
    BY <1>3 DEF Meaning
  <2> HIDE DEF S, e
  <2>3. e = r
    BY <1>1, <2>1
  <2> QED
    BY <2>1, <2>2, <2>3 DEF S, e
<1>4. CASE TwosComplement
  <2>1. r \in (-H)..(H - 1) /\ e = r % S
    BY <1>4 DEF Fits, Encoded
  <2>2. \A n : Meaning(f, n) = Signed(BitsOf(n, f.bit, f.size), f.size)
    BY <1>4 DEF Meaning
  <2>3. \A n : Signed(n, f.size) = IF n >= H THEN n - S ELSE n
    BY DEF Signed
  <2> HIDE DEF S, H, e
  <2>4. CASE r >= 0
    <3>1. r \in 0..(S - 1) /\ r = S * 0 + r
      BY <1>1, <2>1, <2>4
    <3>2. e = r
      BY <1>1, <2>1, <3>1
    <3>3. ~(e >= H) /\ e \in 0..(S - 1)
      BY <1>1, <2>1, <2>4, <3>2
    <3> QED
      BY <2>2, <2>3, <3>2, <3>3 DEF S, e
  <2>5. CASE r < 0
    <3>1. r + S \in 0..(S - 1) /\ r + S >= H /\ (r + S) - S = r
      BY <1>1, <2>1, <2>5
    <3>2. -S <= r /\ S \in Nat \ {0}
      BY <1>1, <2>1
    <3>3. r % S = r + S
      BY <2>5, <3>2
    <3>4. e = r + S
      BY <2>1, <3>3
    <3> QED
      BY <2>2, <2>3, <3>1, <3>4 DEF S, e
  <2> QED
    BY <2>4, <2>5
<1>5. CASE f.kind = "sm"
  <2>1. r \in (1 - H)..(H - 1) /\ e = IF r < 0 THEN -r * 2 + 1 ELSE r * 2
    BY <1>5 DEF Fits, Encoded
  <2>2. \A n : Meaning(f, n) = LET b == BitsOf(n, f.bit, f.size) IN IF b % 2 = 1 THEN -(b \div 2) ELSE b \div 2
    BY <1>5 DEF Meaning
  <2> HIDE DEF S, H, e
  <2>3. CASE r < 0
    <3>1. e = 2 * (-r) + 1 /\ e \in 0..(S - 1)
      BY <1>1, <2>1, <2>3
    <3>2. e % 2 = 1 /\ e \div 2 = -r
      BY <3>1
    <3>3. -(e \div 2) = r
      BY <3>2
    <3> QED
      BY <2>2, <3>1, <3>2, <3>3 DEF S, e
  <2>4. CASE r >= 0
    <3>1. e = 2 * r /\ e \in 0..(S - 1)
      BY <1>1, <2>1, <2>4
    <3>2. e % 2 = 0 /\ e \div 2 = r
      BY <3>1
    <3> QED
      BY <2>2, <3>1, <3>2 DEF S, e
  <2> QED
    BY <2>3, <2>4
<1> HIDE DEF Unsigned, TwosComplement
<1> QED
  BY <1>2, <1>3, <1>4, <1>5

\* The bits of an entry in m mean v, to the last unit.
Means(f, v, m) == LET d == Shown(f, m) - v IN -f.scale < d /\ d < f.scale

\* The other bits of its registers are the same in m and n.
KeepsOthers(f, m, n) ==
    \A i \in 0..(Len(f.at) * WordBits - 1) : i \notin f.bit..(f.bit + f.size - 1) => BitsOf(m, i, 1) = BitsOf(n, i, 1)

\* The registers of an entry are where its address and their number say (Target(f)).
LEMMA RegistersOf ==
  ASSUME registers \in [Words -> 0..(Word - 1)], InOneRun(Fields), NEW f \in Fields
  PROVE  /\ Len(f.at) \in Nat \ {0} /\ DOMAIN f.at = 1..Len(f.at)
         /\ \A i \in 1..Len(f.at) : f.at[i] \in Words /\ f.at[i] - f.at[1] + 1 = i
         /\ Target(f) = f.at
         /\ Holds(f.at) \in [1..Len(f.at) -> 0..(Word - 1)]
<1> DEFINE k == Len(f.at)
<1>1. f.at \in Seq(0..(DeviceWords - 1)) /\ f.at # <<>> /\ DeviceWords \in Nat
  BY RegisterWritesAssumption
<1>2. k \in Nat \ {0} /\ DOMAIN f.at = 1..k /\ \A i \in 1..k : f.at[i] \in 0..(DeviceWords - 1)
  BY <1>1
<1> HIDE DEF k
<1>3. \A i \in 1..k : f.at[i] = f.at[1] + i - 1
  BY <1>2 DEF InOneRun
<1>4. \A i \in 1..k : f.at[i] \in Words /\ f.at[i] - f.at[1] + 1 = i
  <2> SUFFICES ASSUME NEW i \in 1..k PROVE f.at[i] \in Words /\ f.at[i] - f.at[1] + 1 = i
    OBVIOUS
  <2>1. 1 \in 1..k
    BY <1>2
  <2>2. f.at[1] \in Int /\ f.at[i] = f.at[1] + i - 1 /\ i \in Int
    BY <1>1, <1>2, <1>3, <2>1
  <2>3. f.at[i] \in Words
    BY <1>2 DEF Words
  <2> QED
    BY <2>2, <2>3
<1>5. Target(f) = f.at
  <2>1. Target(f) = [i \in 1..k |-> f.at[1] + i - 1]
    BY <1>2 DEF Target
  <2>2. f.at = [i \in 1..k |-> f.at[i]]
    BY <1>1, <1>2
  <2> QED
    BY <1>3, <2>1, <2>2
<1>6. Holds(f.at) \in [1..k -> 0..(Word - 1)]
  <2>1. Holds(f.at) = [i \in 1..k |-> registers[f.at[i]]]
    BY <1>2 DEF Holds
  <2> QED
    BY <1>4, <2>1
<1> QED
  BY <1>2, <1>4, <1>5, <1>6 DEF k

\* What is about to be written means what was asked for, and keeps the bits of others
\* (write_variable()).
LEMMA ContentIsTrue ==
  ASSUME registers \in [Words -> 0..(Word - 1)], InOneRun(Fields), PlainEntries(Fields),
         NEW f \in Fields, NEW v \in Int, Fits(f, RawOf(f, v))
  PROVE  LET m == FromWords(Content(f, v), f.order)
         IN  Means(f, v, m) /\ KeepsOthers(f, m, NumberOf(f, registers))
<1> DEFINE k == Len(f.at)   all == WordBits * k   r == RawOf(f, v)   e == Encoded(f, r)
           before == NumberOf(f, registers)
           whole == f.kind \in {"ushort", "short", "uint", "int"}
           n == IF whole THEN e ELSE Among(before, f.bit, f.size, e)
           m == FromWords(Content(f, v), f.order)
<1>1. /\ k \in Nat \ {0} /\ DOMAIN f.at = 1..k /\ Target(f) = f.at
      /\ Holds(f.at) \in [1..k -> 0..(Word - 1)]
  BY RegistersOf
<1>2. /\ f.bit \in Nat /\ f.size \in Nat /\ f.bit + f.size <= k * WordBits /\ WordBits \in Nat
      /\ f.scale \in Nat \ {0}
  BY RegisterWritesAssumption
<1>3. f.offset = 0 /\ f.size # 0 /\ (whole => f.bit = 0 /\ f.size = k * WordBits)
  BY DEF PlainEntries
<1>4. before = FromWords(Holds(f.at), f.order)
  BY Zenon DEF NumberOf, Holds
<1>5. Content(f, v) = ToWords(n, k, f.order)
  BY <1>1, <1>4, Zenon DEF Content
<1>6. r \in Int
  BY RawIs
<1>7. e \in 0..(2^f.size - 1) /\ \A x : BitsOf(x, f.bit, f.size) = e => Meaning(f, x) = r
  BY <1>3, <1>6, MeaningOfEncoded
<1>8. before \in 0..(2^all - 1)
  <2> HIDE DEF before
  <2>1. FromWords(Holds(f.at), f.order) \in 0..(2^(WordBits * k) - 1)
    BY <1>1, FromWordsFits
  <2> QED
    BY <1>4, <2>1, Zenon
<1>9. all \in Nat /\ all = k * WordBits
  BY <1>1, <1>2
<1> HIDE DEF before, e, r, k, whole
<1>10. /\ n \in 0..(2^all - 1) /\ BitsOf(n, f.bit, f.size) = e /\ KeepsOthers(f, n, before)
  <2>1. CASE whole
    <3>1. n = e /\ f.bit = 0 /\ f.size = all
      BY <1>3, <1>9, <2>1
    <3>2. n \in 0..(2^all - 1)
      BY <1>7, <3>1, Zenon
    <3>3. BitsOf(n, f.bit, f.size) = e
      <4> DEFINE W == 2^all
      <4>1. W \in Nat \ {0} /\ n \in 0..(W - 1) /\ 2^0 = 1
        BY <1>9, <3>2, DoubledPower
      <4>2. BitsOf(n, 0, all) = (n \div 2^0) % W
        BY DEF BitsOf
      <4> HIDE DEF W, n
      <4>3. n \div 1 = n /\ n % W = n
        BY <4>1
      <4> QED
        BY <3>1, <4>1, <4>2, <4>3
    <3>4. KeepsOthers(f, n, before)
      <4>1. \A i \in 0..(k * WordBits - 1) : i \in f.bit..(f.bit + f.size - 1)
        BY <1>9, <3>1
      <4> QED
        BY <4>1 DEF KeepsOthers, k
    <3> QED
      BY <3>2, <3>3, <3>4
  <2>2. CASE ~whole
    <3>1. n = Among(before, f.bit, f.size, e)
      BY <2>2
    <3>2. f.bit + f.size <= all
      BY <1>2, <1>9
    <3> HIDE DEF n, all
    <3>3. /\ n \in 0..(2^all - 1) /\ BitsOf(n, f.bit, f.size) = e
          /\ \A i \in Nat : i \notin f.bit..(f.bit + f.size - 1) => BitsOf(n, i, 1) = BitsOf(before, i, 1)
      <4>1. /\ f.bit \in Nat /\ f.size \in Nat /\ all \in Nat /\ before \in 0..(2^all - 1)
            /\ e \in 0..(2^f.size - 1)
        BY <1>2, <1>7, <1>8, <1>9
      <4>2. ArePut(all, before, f.bit, f.size, e)
        BY <3>2, <4>1, BitsArePut
      <4> QED
        BY <3>1, <4>2 DEF ArePut
    <3>4. \A i \in 0..(Len(f.at) * WordBits - 1) : i \in Nat
      OBVIOUS
    <3> QED
      BY <3>3, <3>4 DEF KeepsOthers
  <2> QED
    BY <2>1, <2>2
<1>11. m = n
  <2>1. FromWords(ToWords(n, k, f.order), f.order) = n
    <3>1. k \in Nat /\ n \in 0..(2^(WordBits * k) - 1)
      BY <1>1, <1>10
    <3> HIDE DEF n
    <3> QED
      BY <3>1, WordsReadBack
  <2> QED
    BY <1>5, <2>1, Zenon
<1>12. Meaning(f, n) = r
  BY <1>7, <1>10
<1>13. Means(f, v, n)
  <2>1. Shown(f, n) = r * f.scale
    <3>1. r * f.scale \in Int
      BY <1>2, <1>6
    <3>2. Shown(f, n) = r * f.scale + 0
      BY <1>3, <1>12 DEF Shown
    <3> QED
      BY <3>1, <3>2
  <2>2. CASE f.scale = 1
    <3>1. r = v
      BY <2>2 DEF RawOf, r
    <3>2. Shown(f, n) - v = 0
      BY <1>6, <2>1, <2>2, <3>1
    <3> QED
      BY <2>2, <3>2 DEF Means
  <2>3. CASE f.scale # 1
    <3>1. r = Rounded(v, f.scale)
      BY <2>3 DEF RawOf, r
    <3>2. -f.scale < r * f.scale - v /\ r * f.scale - v < f.scale
      BY <1>2, <3>1, RoundedIsClose
    <3> QED
      BY <2>1, <3>2 DEF Means
  <2> QED
    BY <2>2, <2>3
<1> QED
  BY <1>10, <1>11, <1>13, Zenon DEF before, m

\* What a transport is about to write into its own registers means what was asked for, and has
\* the bits of others as they are.
WriteIsTrue(w) ==
    /\ writing[w].stage # "idle" => w \in writing[w].field.by
    /\ writing[w].stage = "write" =>
          LET f == writing[w].field   m == FromWords(writing[w].words, f.order)
          IN  /\ writing[w].words \in [1..Len(f.at) -> 0..(Word - 1)]
              /\ Means(f, writing[w].value, m) /\ KeepsOthers(f, m, NumberOf(f, registers))

WritesAreTrueInv == \A w \in FieldWriters : WriteIsTrue(w)

\* What has landed is in the registers of the entry.
LEMMA LandedIsThere ==
  ASSUME InOneRun(Fields), registers \in [Words -> 0..(Word - 1)], NEW f \in Fields,
         NEW ws \in [1..Len(f.at) -> 0..(Word - 1)]
  PROVE  /\ [i \in DOMAIN f.at |-> Landed(f, ws)[f.at[i]]] = ws
         /\ \A a \in Words \ Range(f.at) : Landed(f, ws)[a] = registers[a]
<1> DEFINE k == Len(f.at)   new == Landed(f, ws)
<1>1. /\ k \in Nat \ {0} /\ DOMAIN f.at = 1..k
      /\ \A i \in 1..k : f.at[i] \in Words /\ f.at[i] - f.at[1] + 1 = i
  BY RegistersOf
<1>2. DOMAIN ws = 1..k /\ ws = [i \in 1..k |-> ws[i]]
  OBVIOUS
<1>3. \A a \in Words : new[a] = IF a - f.at[1] + 1 \in DOMAIN ws THEN ws[a - f.at[1] + 1] ELSE registers[a]
  BY DEF Landed
<1> HIDE DEF new, k
<1>4. \A i \in 1..k : new[f.at[i]] = ws[i]
  BY <1>1, <1>2, <1>3
<1>5. ASSUME NEW a \in Words \ Range(f.at) PROVE new[a] = registers[a]
  <2>1. a - f.at[1] + 1 \notin 1..k
    <3> SUFFICES ASSUME a - f.at[1] + 1 \in 1..k PROVE FALSE
      OBVIOUS
    <3>0. f.at[1] \in Int /\ a \in Int
      <4>1. 1 \in 1..k
        BY <1>1
      <4> QED
        BY <1>1, <4>1 DEF Words
    <3>1. f.at[a - f.at[1] + 1] = f.at[1] + (a - f.at[1] + 1) - 1
      BY <1>1 DEF InOneRun
    <3>2. f.at[a - f.at[1] + 1] = a
      BY <3>0, <3>1
    <3> QED
      BY <1>1, <3>2 DEF Range
  <2> QED
    BY <1>2, <1>3, <2>1
<1>6. [i \in DOMAIN f.at |-> new[f.at[i]]] = ws
  BY <1>1, <1>2, <1>4
<1> QED
  BY <1>5, <1>6 DEF new

\* A step of one transport leaves the registers of another's entry alone.
LEMMA OthersLandElsewhere ==
  ASSUME InOneRun(Fields), OwnRegisters(Fields), WritesInv, WordsInv, WritesAreTrueInv,
         NEW w \in FieldWriters, NEW x \in FieldWriters, w # x, writing[w].stage = "write", WriteWords(x)
  PROVE  NumberOf(writing[w].field, registers') = NumberOf(writing[w].field, registers)
<1> DEFINE f == writing[w].field   g == writing[x].field   ws == writing[x].words
<1>1. writing[x].stage = "write" /\ (registers' = Landed(g, ws) \/ UNCHANGED registers)
  BY DEF WriteWords
<1>2. f \in Fields /\ g \in Fields /\ w \in f.by /\ x \in g.by /\ ws \in [1..Len(g.at) -> 0..(Word - 1)]
  BY <1>1, Zenon DEF WritesInv, WriteInv, WritesAreTrueInv, WriteIsTrue
<1>3. registers \in [Words -> 0..(Word - 1)]
  BY DEF WordsInv
<1> HIDE DEF f, g, ws
<1>4. Range(f.at) \cap Range(g.at) = {}
  BY <1>2 DEF OwnRegisters
<1>5. DOMAIN f.at = 1..Len(f.at) /\ \A i \in 1..Len(f.at) : f.at[i] \in Words
  BY <1>2, <1>3, RegistersOf
<1>6. \A i \in DOMAIN f.at : registers'[f.at[i]] = registers[f.at[i]]
  <2> SUFFICES ASSUME NEW i \in DOMAIN f.at, registers' = Landed(g, ws)
               PROVE  registers'[f.at[i]] = registers[f.at[i]]
    BY <1>1
  <2>1. f.at[i] \in Words \ Range(g.at)
    BY <1>4, <1>5 DEF Range
  <2> QED
    BY <1>2, <1>3, <2>1, LandedIsThere
<1>7. [i \in DOMAIN f.at |-> registers'[f.at[i]]] = [i \in DOMAIN f.at |-> registers[f.at[i]]]
  BY <1>6
<1> QED
  BY <1>7, Zenon DEF NumberOf, f

LEMMA WritesAreTrueInit == RegisterWritesInit => WritesAreTrueInv
  BY DEF RegisterWritesInit, WritesAreTrueInv, WriteIsTrue, Idle

\* The step: only the registers of others change while a transport is about to write.
LEMMA WritesAreTrueStep ==
  ASSUME InOneRun(Fields), PlainEntries(Fields), OwnRegisters(Fields)
  PROVE  WritesInv /\ WordsInv /\ WritesAreTrueInv /\ [RegisterWritesNext]_writeVars => WritesAreTrueInv'
<1> SUFFICES ASSUME WritesInv, WordsInv, WritesAreTrueInv, [RegisterWritesNext]_writeVars, NEW w \in FieldWriters
             PROVE  WriteIsTrue(w)'
  BY DEF WritesAreTrueInv
<1>0. DOMAIN writing = FieldWriters /\ WriteIsTrue(w) /\ registers \in [Words -> 0..(Word - 1)]
  BY DEF WritesInv, WordsInv, WritesAreTrueInv
<1>1. ASSUME UNCHANGED <<registers, writing[w]>> PROVE WriteIsTrue(w)'
  BY <1>0, <1>1 DEF WriteIsTrue, NumberOf
<1>2. ASSUME NEW x \in FieldWriters, x # w, writing[w].stage # "write", UNCHANGED writing[w] PROVE WriteIsTrue(w)'
  BY <1>0, <1>2 DEF WriteIsTrue
<1>3. ASSUME NEW how, EndWriting(w, how) PROVE WriteIsTrue(w)'
  BY <1>0, <1>3 DEF WriteIsTrue, EndWriting, Idle
<1>4. ASSUME NEW x \in FieldWriters, NEW f \in Fields, NEW v \in f.asks, AskWrite(x, f, v) PROVE WriteIsTrue(w)'
  <2>1. /\ writing' = [writing EXCEPT ![x] = [stage |-> "asked", field |-> f, value |-> v]]
        /\ x \in f.by /\ UNCHANGED registers
    BY <1>4 DEF AskWrite
  <2>2. CASE x = w
    BY <1>0, <2>1, <2>2 DEF WriteIsTrue
  <2>3. CASE x # w
    BY <1>0, <1>1, <2>1, <2>3
  <2> QED
    BY <2>2, <2>3
<1>5. ASSUME NEW x \in FieldWriters, ReadAndCheck(x) PROVE WriteIsTrue(w)'
  <2> DEFINE f == writing[x].field   v == writing[x].value   c == Content(f, v)
  <2>1. writing[x].stage = "asked" /\ UNCHANGED registers
    BY <1>5 DEF ReadAndCheck
  <2>2. \/ \E how : EndWriting(x, how)
        \/ /\ Passes(f, v)
           /\ writing' = [writing EXCEPT ![x] = [stage |-> "write", field |-> f, value |-> v, words |-> c]]
    BY <1>5, Zenon DEF ReadAndCheck
  <2>3. CASE x # w
    <3>1. UNCHANGED writing[w]
      <4> HIDE DEF f, v, c
      <4> QED
        BY <1>0, <2>2, <2>3 DEF EndWriting
    <3> QED
      BY <1>1, <2>1, <3>1
  <2>4. CASE x = w /\ \E how : EndWriting(x, how)
    BY <1>3, <2>4
  <2>5. CASE x = w /\ Passes(f, v)
             /\ writing' = [writing EXCEPT ![x] = [stage |-> "write", field |-> f, value |-> v, words |-> c]]
    <3>1. f \in Fields /\ v \in Int /\ Fits(f, RawOf(f, v)) /\ w \in f.by
      BY <1>0, <2>1, <2>5 DEF WritesInv, WriteInv, WordsInv, Passes, WriteIsTrue
    <3> HIDE DEF f, v
    <3>2. c \in [1..Len(f.at) -> 0..(Word - 1)]
      BY <1>0, <3>1, ContentAreWords
    <3>3. Means(f, v, FromWords(c, f.order)) /\ KeepsOthers(f, FromWords(c, f.order), NumberOf(f, registers))
      BY <1>0, <3>1, ContentIsTrue
    <3> HIDE DEF c
    <3>4. writing'[w] = [stage |-> "write", field |-> f, value |-> v, words |-> c]
      BY <1>0, <2>5
    <3>5. /\ writing'[w].stage = "write" /\ writing'[w].field = f /\ writing'[w].value = v
          /\ writing'[w].words = c
      BY <3>4
    <3>6. NumberOf(f, registers') = NumberOf(f, registers)
      BY <2>1 DEF NumberOf
    <3> QED
      BY <3>1, <3>2, <3>3, <3>5, <3>6, Zenon DEF WriteIsTrue
  <2> QED
    BY <2>2, <2>3, <2>4, <2>5
<1>6. ASSUME NEW x \in FieldWriters, WriteWords(x) PROVE WriteIsTrue(w)'
  <2>1. PICK how : EndWriting(x, how)
    BY <1>6 DEF WriteWords
  <2>2. CASE x = w
    BY <1>3, <2>1, <2>2
  <2>3. CASE x # w
    <3>1. UNCHANGED writing[w]
      BY <1>0, <2>1, <2>3 DEF EndWriting
    <3>2. CASE writing[w].stage = "write"
      <4>1. NumberOf(writing[w].field, registers') = NumberOf(writing[w].field, registers)
        BY <1>6, <2>3, <3>2, OthersLandElsewhere
      <4> QED
        BY <1>0, <3>1, <4>1, Zenon DEF WriteIsTrue
    <3>3. CASE writing[w].stage # "write"
      BY <1>2, <2>3, <3>1, <3>3
    <3> QED
      BY <3>2, <3>3
  <2> QED
    BY <2>2, <2>3
<1>7. CASE UNCHANGED writeVars
  BY <1>1, <1>7 DEF writeVars
<1> QED
  BY <1>4, <1>5, <1>6, <1>7 DEF RegisterWritesNext

\* The step that lands is one of write_registers(): of the words that were made ready.
LEMMA WrittenIsTrue ==
  ASSUME InOneRun(Fields), WritesInv, WordsInv, WritesAreTrueInv, RegisterWritesNext
  PROVE  NeighboursAreKept /\ WrittenReadsBack /\ AllowedIsWritten
<1>1. ASSUME NEW w \in FieldWriters, writing[w].stage = "write", writing'[w].stage = "idle"
      PROVE  /\ registers' = Landed(writing[w].field, writing[w].words) \/ (UNCHANGED registers /\ outcome'[w] = "lost")
             /\ writing[w].field \in Fields /\ writing[w].words \in [1..Len(writing[w].field.at) -> 0..(Word - 1)]
  <2>0. DOMAIN writing = FieldWriters /\ DOMAIN outcome = FieldWriters
    BY DEF WritesInv, WordsInv
  <2>1. PICK x \in FieldWriters : WriteWords(x)
    <3>1. ASSUME NEW x \in FieldWriters, NEW f \in Fields, NEW v \in f.asks, AskWrite(x, f, v) PROVE FALSE
      BY <1>1, <2>0, <3>1 DEF AskWrite
    <3>2. ASSUME NEW x \in FieldWriters, ReadAndCheck(x) PROVE FALSE
      <4>1. x # w
        BY <1>1, <3>2 DEF ReadAndCheck
      <4>2. \E r : writing' = [writing EXCEPT ![x] = r]
        BY <3>2 DEF ReadAndCheck, EndWriting
      <4> QED
        BY <1>1, <2>0, <4>1, <4>2
    <3> QED
      BY <3>1, <3>2 DEF RegisterWritesNext
  <2>2. x = w
    BY <1>1, <2>0, <2>1 DEF WriteWords, EndWriting
  <2>3. registers' = Landed(writing[w].field, writing[w].words) \/ (UNCHANGED registers /\ EndWriting(w, "lost"))
    BY <2>1, <2>2 DEF WriteWords
  <2>4. EndWriting(w, "lost") => outcome'[w] = "lost"
    BY <2>0 DEF EndWriting
  <2>5. writing[w].field \in Fields /\ writing[w].words \in [1..Len(writing[w].field.at) -> 0..(Word - 1)]
    BY <1>1, Zenon DEF WritesInv, WriteInv, WritesAreTrueInv, WriteIsTrue
  <2> QED
    BY <2>3, <2>4, <2>5
<1>2. ASSUME NEW w \in FieldWriters, writing[w].stage = "write", writing'[w].stage = "idle",
             registers' = Landed(writing[w].field, writing[w].words)
      PROVE  LET f == writing[w].field
             IN  /\ Means(f, writing[w].value, NumberOf(f, registers'))
                 /\ KeepsOthers(f, NumberOf(f, registers'), NumberOf(f, registers))
                 /\ \A a \in Words \ Range(f.at) : registers'[a] = registers[a]
  <2> DEFINE f == writing[w].field   ws == writing[w].words
  <2>1. f \in Fields /\ ws \in [1..Len(f.at) -> 0..(Word - 1)]
    BY <1>1, <1>2
  <2>2. registers \in [Words -> 0..(Word - 1)] /\ registers' = Landed(f, ws)
    BY <1>2 DEF WordsInv
  <2>3. /\ Means(f, writing[w].value, FromWords(ws, f.order))
        /\ KeepsOthers(f, FromWords(ws, f.order), NumberOf(f, registers))
    BY <1>2, Zenon DEF WritesAreTrueInv, WriteIsTrue
  <2> HIDE DEF f, ws
  <2>4. /\ [i \in DOMAIN f.at |-> registers'[f.at[i]]] = ws
        /\ \A a \in Words \ Range(f.at) : registers'[a] = registers[a]
    BY <2>1, <2>2, LandedIsThere
  <2>5. NumberOf(f, registers') = FromWords(ws, f.order)
    BY <2>4, Zenon DEF NumberOf
  <2>6. /\ Means(f, writing[w].value, NumberOf(f, registers'))
        /\ KeepsOthers(f, NumberOf(f, registers'), NumberOf(f, registers))
        /\ \A a \in Words \ Range(f.at) : registers'[a] = registers[a]
    BY <2>3, <2>4, <2>5, Zenon
  <2> QED
    BY <2>6, Zenon DEF f
<1>3. NeighboursAreKept
  <2> SUFFICES ASSUME NEW w \in FieldWriters, Landing(w)
               PROVE  LET f == writing[w].field
                      IN  /\ \A a \in Words \ Range(f.at) : registers'[a] = registers[a]
                          /\ KeepsOthers(f, NumberOf(f, registers'), NumberOf(f, registers))
    BY Zenon DEF NeighboursAreKept, KeepsOthers
  <2>1. writing[w].stage = "write" /\ writing'[w].stage = "idle" /\ registers' # registers
    BY DEF Landing
  <2>2. registers' = Landed(writing[w].field, writing[w].words)
    BY <1>1, <2>1
  <2> QED
    BY <1>2, <2>1, <2>2, Zenon
<1>4. WrittenReadsBack
  <2> SUFFICES ASSUME NEW w \in FieldWriters,
                      writing[w].stage = "write", outcome'[w] = "done", writing'[w].stage = "idle"
               PROVE  Means(writing[w].field, writing[w].value, NumberOf(writing[w].field, registers'))
    BY Zenon DEF WrittenReadsBack, Means
  <2>1. registers' = Landed(writing[w].field, writing[w].words)
    BY <1>1
  <2> QED
    BY <1>2, <2>1, Zenon
<1>5. AllowedIsWritten
  BY RegisterWritesAssumption DEF WritesInv, WriteInv, AllowedIsWritten, Landing
<1> QED
  BY <1>3, <1>4, <1>5

\* For entries of any number, kind and order of words and bytes, and any number of transports,
\* writes and lost answers, as long as no register has entries of two transports: a write
\* changes the bits of its entry and no others, reads back as what was asked for, and was
\* allowed (write_variable()).
THEOREM WritesStayTrue == SoundEntries(Fields) => (RegisterWritesSpec => WritesAreTrue)
<1> SUFFICES ASSUME InOneRun(Fields), PlainEntries(Fields), OwnRegisters(Fields)
             PROVE  RegisterWritesSpec => WritesAreTrue
  BY DEF SoundEntries
<1> DEFINE Inv == WritesInv /\ WordsInv /\ WritesAreTrueInv
<1>1. RegisterWritesInit => Inv
  BY WritesBegin, WritesAreTrueInit
<1>2. Inv /\ [RegisterWritesNext]_writeVars => Inv'
  BY WritesStep, WordsStep, WritesAreTrueStep
<1>3. Inv /\ [RegisterWritesNext]_writeVars => [NeighboursAreKept /\ WrittenReadsBack /\ AllowedIsWritten]_writeVars
  BY WrittenIsTrue
<1> QED
  BY <1>1, <1>2, <1>3, PTL DEF RegisterWritesSpec, WritesAreTrue

----------------------------------------------------------------------------
(* The sizing of tables by their load. *)

\* A table is sized by part of its load. Without any it waits for reports, or had its retune,
\* which finds a load if the intervals of the table are known: a transport of it has written.
LoadInv ==
    /\ verified \subseteq counted
    /\ \A key \in Keys : sized[key] \subseteq Load(key)
    /\ \A key \in tables : sized[key] = {} => key \in DOMAIN waiting \cup retuned

\* A retune runs, failed, or found the load.
RetuneInv ==
    /\ atWork \subseteq retuned
    /\ \A key \in retuned \cup timers : Writers(key) \cap verified # {}
    /\ \A key \in retuned : Recorded(key) => key \in atWork \cup givenUp \/ sized[key] # {}

\* The first report of a key starts its timer, and no report is missed.
ReportInv ==
    \A key \in DOMAIN waiting :
        /\ waiting[key] # {} => key \in timers
        /\ Recorded(key) /\ Writers(key) \cap verified # {} => waiting[key] # {}

ManagerInv == ~manager => tables = {} /\ DOMAIN waiting = {} /\ retuned = {}

SizingInv == SizingTypeOK /\ LoadInv /\ RetuneInv /\ ReportInv /\ ManagerInv

\* A set-up sizes by the load there is, and waits for reports where there is none.
LEMMA SetUpKeeps ==
  ASSUME SizingTypeOK, LoadInv, ReportInv, NEW keys \in SUBSET Keys, SetUp(keys)
  PROVE  /\ sized' \in [Keys -> SUBSET Scrapers] /\ tables' \subseteq Keys /\ tables \subseteq tables'
         /\ \A key \in Keys : sized'[key] = Load(key) \/ sized'[key] = sized[key]
         /\ \A key \in Keys : sized[key] \subseteq sized'[key]
         /\ \A key \in keys : sized'[key] = Load(key)
         /\ \A key \in tables' : sized'[key] = {} => key \in DOMAIN waiting' \cup retuned
         /\ DOMAIN waiting \subseteq DOMAIN waiting' /\ DOMAIN waiting' \subseteq Keys
         /\ DOMAIN waiting' \cap retuned \subseteq DOMAIN waiting \cap retuned
         /\ \A key \in DOMAIN waiting : waiting'[key] = waiting[key]
         /\ \A key \in DOMAIN waiting' \ DOMAIN waiting : waiting'[key] = {} /\ Load(key) = {}
<1>1. /\ tables' = tables \cup keys
      /\ sized' = [key \in Keys |-> IF key \in keys THEN Load(key) ELSE sized[key]]
      /\ waiting' = [key \in DOMAIN waiting \cup Flagged(keys) |->
                        IF key \in DOMAIN waiting THEN waiting[key] ELSE {}]
  BY DEF SetUp
<1>2. \A key \in Keys : Load(key) \subseteq Scrapers /\ sized[key] \subseteq Scrapers
  BY DEF Load, Writers, SizingTypeOK
<1>3. sized' \in [Keys -> SUBSET Scrapers]
  BY <1>1, <1>2
<1>4. \A key \in Keys : sized'[key] = IF key \in keys THEN Load(key) ELSE sized[key]
  BY <1>1
<1>5. DOMAIN waiting' = DOMAIN waiting \cup Flagged(keys)
  BY <1>1
<1>6. \A key \in DOMAIN waiting' : waiting'[key] = IF key \in DOMAIN waiting THEN waiting[key] ELSE {}
  BY <1>1
<1>7. Flagged(keys) = {key \in keys : Load(key) = {} /\ key \notin retuned /\ key \notin DOMAIN waiting}
  BY DEF Flagged
<1>8. tables \cup DOMAIN waiting \subseteq Keys
  BY DEF SizingTypeOK
<1>9. \A key \in Keys : sized[key] \subseteq sized'[key]
  BY <1>4 DEF LoadInv
<1>10. ASSUME NEW key \in tables', sized'[key] = {}
       PROVE  key \in DOMAIN waiting' \cup retuned
  <2>1. CASE key \in keys
    BY <1>4, <1>5, <1>7, <1>10, <2>1
  <2>2. CASE key \notin keys
    BY <1>1, <1>4, <1>5, <1>8, <1>10, <2>2 DEF LoadInv
  <2> QED BY <2>1, <2>2
<1> QED BY <1>1, <1>3, <1>4, <1>5, <1>6, <1>7, <1>8, <1>9, <1>10

\* Set-ups before and after the first reports.
LEMMA SetUpStep ==
  ASSUME SizingInv, NEW keys \in SUBSET Keys, SetUp(keys), manager' \in BOOLEAN, manager => manager',
         intervals \subseteq intervals', intervals' \subseteq Scrapers, intervals' = intervals \/ verified = {},
         manager' \/ UNCHANGED <<tables, waiting>>,
         initialised' \subseteq Scrapers, unregistered' \subseteq Protocols,
         UNCHANGED <<counted, verified, retuned, timers, givenUp>>,
         atWork' \subseteq atWork, \A key \in atWork \ atWork' : key \in keys
  PROVE  SizingInv'
<1> SizingTypeOK /\ LoadInv /\ RetuneInv /\ ReportInv /\ ManagerInv
  BY DEF SizingInv
<1>1. /\ sized' \in [Keys -> SUBSET Scrapers] /\ tables' \subseteq Keys /\ tables \subseteq tables'
      /\ \A key \in Keys : sized'[key] = Load(key) \/ sized'[key] = sized[key]
      /\ \A key \in Keys : sized[key] \subseteq sized'[key]
      /\ \A key \in keys : sized'[key] = Load(key)
      /\ \A key \in tables' : sized'[key] = {} => key \in DOMAIN waiting' \cup retuned
      /\ DOMAIN waiting \subseteq DOMAIN waiting' /\ DOMAIN waiting' \subseteq Keys
      /\ DOMAIN waiting' \cap retuned \subseteq DOMAIN waiting \cap retuned
      /\ \A key \in DOMAIN waiting : waiting'[key] = waiting[key]
      /\ \A key \in DOMAIN waiting' \ DOMAIN waiting : waiting'[key] = {} /\ Load(key) = {}
  BY SetUpKeeps
<1>2. \A key : Load(key) \subseteq Load(key)'
  BY DEF Load
<1>3. LoadInv'
  BY <1>1, <1>2 DEF LoadInv
<1>4. \A key : Writers(key) \cap verified # {} => (Recorded(key)' <=> Recorded(key))
  BY DEF Recorded
<1>5. \A key : Recorded(key) /\ Writers(key) \cap verified # {} => Load(key) # {}
  BY DEF Recorded, Load, LoadInv
<1>6. RetuneInv'
  <2>1. \A key \in retuned \cup timers : Writers(key) \cap verified # {}
    BY DEF RetuneInv
  <2>2. ASSUME NEW key \in retuned, Recorded(key)'
        PROVE  key \in atWork' \cup givenUp \/ sized'[key] # {}
    <3>1. Recorded(key) /\ Load(key) # {} /\ key \in Keys
      BY <1>4, <1>5, <2>1, <2>2 DEF SizingTypeOK
    <3>2. key \in atWork \cup givenUp \/ sized[key] # {}
      BY <3>1 DEF RetuneInv
    <3> QED BY <1>1, <3>1, <3>2
  <2> QED BY <2>1, <2>2 DEF RetuneInv
<1>7. ReportInv'
  <2>1. \A key \in DOMAIN waiting' \ DOMAIN waiting : ~(Recorded(key)' /\ Writers(key) \cap verified # {})
    BY <1>1, <1>4, <1>5
  <2> QED BY <1>1, <1>4, <2>1 DEF ReportInv
<1>8. ManagerInv'
  BY DEF ManagerInv
<1>9. SizingTypeOK'
  <2>1. \A key \in DOMAIN waiting' : waiting'[key] \subseteq Writers(key)
    BY <1>1 DEF SizingTypeOK
  <2>2. atWork' \subseteq Keys
    BY DEF SizingTypeOK
  <2> QED BY <1>1, <2>1, <2>2 DEF SizingTypeOK
<1> QED BY <1>3, <1>6, <1>7, <1>8, <1>9 DEF SizingInv

\* Nothing is set up.
LEMMA Unsized ==
  ASSUME SizingInv, intervals \subseteq intervals', intervals' \subseteq Scrapers, intervals' = intervals \/ verified = {},
         initialised' \subseteq Scrapers, unregistered' \subseteq Protocols,
         UNCHANGED <<counted, manager, tables, verified, waiting, retuned, timers, sized>>,
         atWork' \subseteq atWork, givenUp' \subseteq Keys, atWork \subseteq atWork' \cup givenUp', givenUp \subseteq givenUp'
  PROVE  SizingInv'
<1> SizingTypeOK /\ LoadInv /\ RetuneInv /\ ReportInv /\ ManagerInv
  BY DEF SizingInv
<1>1. \A key : Writers(key) \cap verified # {} => (Recorded(key)' <=> Recorded(key))
  BY DEF Recorded
<1>2. LoadInv'
  BY DEF LoadInv, Load
<1>3. RetuneInv'
  BY <1>1 DEF RetuneInv
<1>4. ReportInv'
  BY <1>1 DEF ReportInv
<1>5. SizingTypeOK' /\ ManagerInv'
  BY DEF SizingTypeOK, ManagerInv
<1> QED BY <1>2, <1>3, <1>4, <1>5 DEF SizingInv

LEMMA WriteStep ==
  ASSUME SizingInv, NEW t \in Scrapers, FirstWrite(t)
  PROVE  SizingInv'
<1> SizingTypeOK /\ LoadInv /\ RetuneInv /\ ReportInv /\ ManagerInv
  BY DEF SizingInv
<1>1. /\ verified' = verified \cup {t} /\ counted' = counted \cup {t}
      /\ UNCHANGED <<manager, tables, initialised, unregistered, intervals, sized, givenUp>>
  BY DEF FirstWrite
<1>2. UNCHANGED <<waiting, retuned>> => LoadInv'
  BY <1>1 DEF LoadInv, Load
<1>3. /\ \A key \in Keys : Load(key) \subseteq Load(key)'
      /\ \A key : Recorded(key)' <=> Recorded(key)
  BY <1>1 DEF Load, Recorded
<1>4. CASE ~manager
  <2>1. UNCHANGED <<retuned, atWork, waiting, timers>> /\ DOMAIN waiting = {} /\ retuned = {} /\ timers = {}
    BY <1>4 DEF FirstWrite, ManagerInv, SizingTypeOK
  <2>2. RetuneInv' /\ ReportInv' /\ ManagerInv'
    BY <1>1, <2>1 DEF RetuneInv, ReportInv, ManagerInv
  <2>3. SizingTypeOK'
    BY <1>1, <2>1 DEF SizingTypeOK
  <2> QED BY <1>2, <2>1, <2>2, <2>3 DEF SizingInv
<1>5. CASE manager
  <2>1. PICK concerned, complete :
          /\ concerned = {key \in DOMAIN waiting : key \in {Narrow, ProtocolOf[t]}} /\ complete \subseteq concerned
          /\ retuned' = retuned \cup complete /\ atWork' = atWork \cup complete
          /\ waiting' = [key \in DOMAIN waiting \ complete |->
                            IF key \in concerned THEN waiting[key] \cup {t} ELSE waiting[key]]
          /\ timers' = (timers \cup TimersFor(concerned)) \ complete
    BY <1>5 DEF FirstWrite, Noted
  <2>2. /\ DOMAIN waiting' = DOMAIN waiting \ complete
        /\ \A key \in DOMAIN waiting' :
              waiting'[key] = IF key \in concerned THEN waiting[key] \cup {t} ELSE waiting[key]
    BY <2>1
  <2>3. /\ \A key \in concerned : t \in Writers(key)
        /\ \A key \in DOMAIN waiting \ concerned : t \notin Writers(key)
    BY <2>1 DEF Writers
  <2>4. /\ \A key \in TimersFor(concerned) : key \in concerned
        /\ \A key \in concerned : waiting[key] = {} => key \in TimersFor(concerned)
    BY DEF TimersFor
  <2>5. SizingTypeOK'
    <3>1. complete \subseteq Keys /\ TimersFor(concerned) \subseteq DOMAIN waiting
      BY <2>1, <2>4 DEF SizingTypeOK
    <3>2. \A key \in DOMAIN waiting' : waiting'[key] \subseteq Writers(key)
      BY <2>2, <2>3 DEF SizingTypeOK
    <3>3. timers' \subseteq DOMAIN waiting' /\ DOMAIN waiting' \cap retuned' = {}
      BY <2>1, <2>2, <3>1 DEF SizingTypeOK
    <3> QED BY <1>1, <2>1, <2>2, <3>1, <3>2, <3>3 DEF SizingTypeOK
  <2>6. LoadInv'
    BY <1>1, <1>3, <2>1, <2>2 DEF LoadInv
  <2>7. RetuneInv'
    <3>1. \A key \in retuned' \cup timers' : Writers(key) \cap verified' # {}
      BY <1>1, <2>1, <2>3, <2>4 DEF RetuneInv
    <3>2. atWork' \subseteq retuned'
      BY <2>1 DEF RetuneInv
    <3>3. \A key \in retuned' : Recorded(key)' => key \in atWork' \cup givenUp' \/ sized'[key] # {}
      BY <1>1, <1>3, <2>1 DEF RetuneInv
    <3> QED BY <3>1, <3>2, <3>3 DEF RetuneInv
  <2>8. ReportInv'
    <3> SUFFICES ASSUME NEW key \in DOMAIN waiting'
                 PROVE  /\ waiting'[key] # {} => key \in timers'
                        /\ Recorded(key)' /\ Writers(key) \cap verified' # {} => waiting'[key] # {}
      BY DEF ReportInv, Writers
    <3>1. key \in DOMAIN waiting /\ key \notin complete
      BY <2>2
    <3>2. CASE key \in concerned
      BY <2>1, <2>2, <2>4, <3>1, <3>2 DEF ReportInv
    <3>3. CASE key \notin concerned
      <4>1. Writers(key) \cap verified' = Writers(key) \cap verified
        BY <1>1, <2>3, <3>1, <3>3
      <4> QED BY <1>3, <2>1, <2>2, <3>1, <3>3, <4>1 DEF ReportInv
    <3> QED BY <3>2, <3>3
  <2>9. ManagerInv'
    BY <1>1, <1>5 DEF ManagerInv
  <2> QED BY <2>5, <2>6, <2>7, <2>8, <2>9 DEF SizingInv
<1> QED BY <1>4, <1>5 DEF SizingTypeOK

LEMMA SizingSteps ==
  ASSUME SizingInv, SizingNext
  PROVE  SizingInv'
<1> SizingTypeOK /\ LoadInv /\ RetuneInv /\ ReportInv /\ ManagerInv
  BY DEF SizingInv
<1>1. ASSUME NEW t \in Scrapers, InitBridge(t)
      PROVE  SizingInv'
  <2>1. /\ verified = {} /\ initialised' = initialised \cup {t} /\ intervals' = intervals \cup {t}
        /\ unregistered' = unregistered \ {ProtocolOf[t]}
        /\ UNCHANGED <<counted, verified, retuned, timers, atWork, givenUp>>
    BY <1>1 DEF InitBridge, Register
  <2>2. /\ initialised' \subseteq Scrapers /\ intervals' \subseteq Scrapers /\ unregistered' \subseteq Protocols
        /\ givenUp \subseteq Keys
    BY <2>1 DEF SizingTypeOK
  <2>3. CASE ProtocolOf[t] \notin tables
    <3>1. SetUp(NewKeys(ProtocolOf[t])) /\ manager' = TRUE
      BY <1>1, <2>3 DEF InitBridge, Register
    <3>2. NewKeys(ProtocolOf[t]) \in SUBSET Keys
      BY DEF NewKeys, Keys, Protocols
    <3> QED BY <2>1, <2>2, <3>1, <3>2, SetUpStep
  <2>4. CASE ProtocolOf[t] \in tables
    <3>1. UNCHANGED <<tables, sized, waiting, manager>>
      BY <1>1, <2>4 DEF InitBridge
    <3> QED BY <2>1, <2>2, <3>1, Unsized
  <2> QED BY <2>3, <2>4
<1>2. ASSUME NEW t \in Scrapers, InitBridgeFails(t)
      PROVE  SizingInv'
  <2>1. /\ verified = {} /\ initialised' = initialised \cup {t} /\ unregistered' = unregistered \cup {ProtocolOf[t]}
        /\ intervals' = IF manager THEN intervals \cup {t} ELSE intervals
        /\ UNCHANGED <<counted, manager, tables, verified, waiting, retuned, timers, atWork, sized, givenUp>>
    BY <1>2 DEF InitBridgeFails
  <2>2. /\ initialised' \subseteq Scrapers /\ intervals \subseteq intervals' /\ intervals' \subseteq Scrapers
        /\ unregistered' \subseteq Protocols /\ givenUp \subseteq Keys
    BY <2>1 DEF SizingTypeOK, Protocols
  <2> QED BY <2>1, <2>2, Unsized
<1>3. ASSUME NEW p \in Protocols, RetryRegistration(p)
      PROVE  SizingInv'
  <2>1. /\ SetUp(NewKeys(p)) /\ manager' = TRUE /\ unregistered' = unregistered \ {p}
        /\ UNCHANGED <<counted, initialised, intervals, verified, retuned, timers, atWork, givenUp>>
    BY <1>3 DEF RetryRegistration
  <2>2. NewKeys(p) \in SUBSET Keys
    BY DEF NewKeys, Keys
  <2>3. initialised' \subseteq Scrapers /\ intervals' \subseteq Scrapers /\ unregistered' \subseteq Protocols
    BY <2>1 DEF SizingTypeOK
  <2> QED BY <2>1, <2>2, <2>3, SetUpStep
<1>4. ASSUME NEW key \in Keys, TimerFires(key)
      PROVE  SizingInv'
  <2>1. /\ key \in timers /\ retuned' = retuned \cup {key} /\ timers' = timers \ {key}
        /\ waiting' = [k \in DOMAIN waiting \ {key} |-> waiting[k]]
        /\ atWork' = atWork \cup ({key} \ retuned)
        /\ UNCHANGED <<counted, manager, tables, initialised, unregistered, intervals, verified, sized, givenUp>>
    BY <1>4 DEF TimerFires, Fired
  <2>2. DOMAIN waiting' = DOMAIN waiting \ {key} /\ \A k \in DOMAIN waiting' : waiting'[k] = waiting[k]
    BY <2>1
  <2>3. key \in DOMAIN waiting /\ key \notin retuned /\ atWork' = atWork \cup {key}
    BY <2>1 DEF SizingTypeOK
  <2>4. SizingTypeOK'
    BY <2>1, <2>2, <2>3 DEF SizingTypeOK
  <2>5. LoadInv'
    BY <2>1, <2>2 DEF LoadInv, Load
  <2>6. RetuneInv'
    BY <2>1, <2>3 DEF RetuneInv, Recorded
  <2>7. ReportInv'
    BY <2>1, <2>2 DEF ReportInv, Recorded
  <2>8. ManagerInv'
    BY <2>1, <2>3 DEF ManagerInv
  <2> QED BY <2>4, <2>5, <2>6, <2>7, <2>8 DEF SizingInv
<1>5. ASSUME NEW key \in Keys, RetuneWorks(key)
      PROVE  SizingInv'
  <2>1. /\ key \in atWork /\ atWork' = atWork \ {key} /\ SetUp({key})
        /\ UNCHANGED <<counted, manager, initialised, unregistered, intervals, verified, retuned, timers, givenUp>>
    BY <1>5 DEF RetuneWorks
  <2>2. manager
    BY <2>1 DEF RetuneInv, ManagerInv, SizingTypeOK
  <2>3. /\ initialised' \subseteq Scrapers /\ intervals' \subseteq Scrapers /\ unregistered' \subseteq Protocols
        /\ manager' \in BOOLEAN
    BY <2>1 DEF SizingTypeOK
  <2> QED BY <2>1, <2>2, <2>3, SetUpStep
<1>6. ASSUME NEW key \in Keys, RetuneFails(key)
      PROVE  SizingInv'
  <2>1. /\ atWork' = atWork \ {key} /\ givenUp' = givenUp \cup {key}
        /\ UNCHANGED <<counted, manager, tables, initialised, unregistered, intervals, verified, waiting,
                       retuned, timers, sized>>
    BY <1>6 DEF RetuneFails
  <2>2. /\ initialised' \subseteq Scrapers /\ intervals' \subseteq Scrapers /\ unregistered' \subseteq Protocols
        /\ givenUp' \subseteq Keys
    BY <2>1 DEF SizingTypeOK
  <2> QED BY <2>1, <2>2, Unsized
<1>7. ASSUME NewBridge
      PROVE  SizingInv'
  <2>1. /\ manager' = FALSE /\ tables' = {} /\ initialised' = {} /\ unregistered' = {}
        /\ intervals' = {} /\ verified' = {} /\ DOMAIN waiting' = {} /\ retuned' = {} /\ timers' = {}
        /\ atWork' = {} /\ givenUp' = {} /\ sized' = [key \in Keys |-> {}] /\ counted' = counted
    BY <1>7 DEF NewBridge
  <2>2. SizingTypeOK'
    BY <2>1 DEF SizingTypeOK
  <2> QED BY <2>1, <2>2 DEF SizingInv, LoadInv, RetuneInv, ReportInv, ManagerInv
<1> QED BY <1>1, <1>2, <1>3, <1>4, <1>5, <1>6, <1>7, WriteStep DEF SizingNext

LEMMA SizingBegins == SizingInit => SizingInv
<1> SUFFICES ASSUME SizingInit
             PROVE  SizingInv
  OBVIOUS
<1>1. DOMAIN waiting = {}
  BY DEF SizingInit
<1>2. SizingTypeOK
  BY <1>1 DEF SizingInit, SizingTypeOK
<1>3. LoadInv
  BY <1>1 DEF SizingInit, LoadInv
<1>4. RetuneInv /\ ReportInv /\ ManagerInv
  BY <1>1 DEF SizingInit, RetuneInv, ReportInv, ManagerInv
<1> QED BY <1>2, <1>3, <1>4 DEF SizingInv

LEMMA SizingStays == SizingInv /\ [SizingNext]_sizingVars => SizingInv'
<1>1. SizingInv /\ UNCHANGED sizingVars => SizingInv'
  BY DEF sizingVars, SizingInv, SizingTypeOK, LoadInv, Load, RetuneInv, ReportInv, ManagerInv, Recorded
<1> QED BY <1>1, SizingSteps

LEMMA LoadsAreUsed == SizingInv => SizingTypeOK /\ TablesAreSized
  BY DEF SizingInv, SizingTypeOK, LoadInv, RetuneInv, ReportInv, TablesAreSized, AtRest

\* However registrations fail and are tried again and transports stay away: when no timer runs
\* and no retune is under way, a table with a writing transport, all of whose intervals are
\* recorded, is sized by its load, unless its one retune failed (flag_pending_retune(),
\* note_device_metric_count_known(), _fire_retune()).
THEOREM TablesGetSized == SizingSpec => [](SizingTypeOK /\ TablesAreSized)
  BY SizingBegins, SizingStays, LoadsAreUsed, PTL DEF SizingSpec

----------------------------------------------------------------------------
(* The parts of a device together. *)

LEMMA PartsBegin == PartInit => RegisterMapInit /\ StartupInit /\ EgInit /\ SizingInit /\ RegisterWritesInit
  BY DEF PartInit

LEMMA PartsStep ==
  [PartNext]_partVars =>
    /\ [RegisterMapNext]_mapVars /\ [StartupNext]_startupVars /\ [EgNext]_egVars
    /\ [SizingNext]_sizingVars /\ [RegisterWritesNext]_writeVars
<1> SUFFICES ASSUME [PartNext]_partVars
             PROVE  /\ [RegisterMapNext]_mapVars /\ [StartupNext]_startupVars /\ [EgNext]_egVars
                    /\ [SizingNext]_sizingVars /\ [RegisterWritesNext]_writeVars
  OBVIOUS
<1>1. CASE UNCHANGED partVars
  BY <1>1, Zenon DEF partVars
<1>2. CASE OnMap /\ RegisterMapNext
  BY <1>2, Zenon DEF OnMap
<1>3. CASE OnStartup /\ StartupNext
  BY <1>3, Zenon DEF OnStartup
<1>4. CASE OnIdentity /\ EgNext
  BY <1>4, Zenon DEF OnIdentity
<1>5. CASE OnWrites /\ RegisterWritesNext
  BY <1>5, Zenon DEF OnWrites
<1>6. CASE OnSizes /\ SizingNext
  BY <1>6, Zenon DEF OnSizes
<1> QED
  BY <1>1, <1>2, <1>3, <1>4, <1>5, <1>6, Zenon DEF PartNext

\* Whatever a device does, its parts keep their types.
LEMMA PartsStayTyped ==
  ASSUME DueInv, MapInv, PermitInv, DeviceInv, EgInv, EgWaits, WritesInv, WordsInv, SizingInv
  PROVE  DevicesTypeOK /\ MapsAreTrue
<1>1. RegisterMapTypeOK /\ MapIsServed
  BY MapTypes, MapsAreConsistent DEF DueInv, MapIsServed
<1>2. StartupTypeOK /\ DeviceIsMapped
  BY StartupsAreSafe
<1>3. SizingTypeOK /\ TablesAreSized
  BY LoadsAreUsed
<1> QED
  BY <1>1, <1>2, <1>3, EgTypes, WritesAreTyped DEF DevicesTypeOK, MapsAreTrue

\* The inductive invariant of all parts.
PartsInv == DueInv /\ MapInv /\ PermitInv /\ DeviceInv /\ EgInv /\ EgWaits /\ WritesInv /\ WordsInv /\ SizingInv

LEMMA PartsAlways == SoundFiles => (PartSpec => []PartsInv)
<1> SUFFICES ASSUME SoundFiles PROVE PartSpec => []PartsInv
  OBVIOUS
<1>1. PartInit => PartsInv
  BY PartsBegin, DueInit, StartupsBegin, EgBegins, EgWaitsInit, WritesBegin, SizingBegins DEF PartsInv
<1>2. PartsInv /\ [PartNext]_partVars => PartsInv'
  BY PartsStep, DueStep, MapStep, PermitStep, DeviceInvStep, EgStep, EgWaitsStep, WritesStep, WordsStep, SizingStays
     DEF PartsInv
<1> QED
  BY <1>1, <1>2, PTL DEF PartSpec

\* Of any map, layout, filters, entries, intervals and any number of transports, reloads and
\* failures: what is due is delivered, a start-up that got every answer leaves the rows of
\* this very device, and a table that has its reports is sized by its load (load__registry(),
\* read_data(), discover_register_structure(), apply_anchors(), _fire_retune()).
THEOREM MapsStayTrue == SoundFiles => (PartSpec => []MapsAreTrue)
<1>1. PartsInv => MapsAreTrue
  BY PartsStayTyped DEF PartsInv
<1> QED
  BY <1>1, PartsAlways, PTL

\* Every part keeps its types and bounds: registers hold words, whatever is put among their
\* bits (write_variable()), a delay between tries stays below the greatest
\* (_retry_delay()).
THEOREM DevicesStayTyped == SoundFiles => (PartSpec => []DevicesTypeOK)
<1>1. PartsInv => DevicesTypeOK
  BY PartsStayTyped DEF PartsInv
<1> QED
  BY <1>1, PartsAlways, PTL

\* Of any number, kind and order of entries that lie in one run and that transports do not
\* share, and of any writes, lost answers, bad reads and reloads: a write changes the bits of its entry and no others and reads back as what was asked for,
\* and a device that is known stays known (write_variable(), get_cached_eg4_metadata()).
THEOREM WritesAndIdentityStay == SoundEntries(Fields) => (PartSpec => WritesAndIdentityHold)
<1> SUFFICES ASSUME InOneRun(Fields), PlainEntries(Fields), OwnRegisters(Fields)
             PROVE  PartSpec => WritesAndIdentityHold
  BY DEF SoundEntries
<1> DEFINE Inv == WritesInv /\ WordsInv /\ WritesAreTrueInv /\ EgInv
           Written == NeighboursAreKept /\ WrittenReadsBack /\ AllowedIsWritten
           Lasting == egSessions' = egSessions =>
                        /\ IdentityComplete(metadata) => metadata' = metadata
                        /\ kindCache # "none" => kindCache' = kindCache
                        /\ moduleSerials \subseteq moduleSerials' /\ (serialsLoaded => serialsLoaded')
<1>1. PartInit => Inv
  BY PartsBegin, WritesBegin, WritesAreTrueInit, EgBegins
<1>2. Inv /\ [PartNext]_partVars => Inv'
  BY PartsStep, WritesStep, WordsStep, WritesAreTrueStep, EgStep
<1>3. Inv /\ [PartNext]_partVars => [Written]_writeVars
  BY PartsStep, WrittenIsTrue
<1>4. Inv /\ [PartNext]_partVars => [Lasting]_egVars
  BY PartsStep, EgStep
<1> QED
  BY <1>1, <1>2, <1>3, <1>4, PTL DEF PartSpec, WritesAndIdentityHold, WritesAreTrue, IdentityIsKept
=============================================================================
