----------------------------- MODULE RegisterMap -----------------------------
(***************************************************************************)
(* The register map of a Modbus transport and what it is for. A map file   *)
(* and its overrides become entries: rows are parsed, low and high halves  *)
(* joined, the mask or the screen applied, description fields added. A     *)
(* cycle then plans the ranges to read from the entries that are due, and  *)
(* decodes from the registers it was given. A transport alone honours the  *)
(* read intervals; members that share an endpoint are read together, all   *)
(* entries every cycle. Intervals are counted in cycles. A name is a base  *)
(* and a suffix: "" or one of "l", "h" and "desc".                         *)
(***************************************************************************)
EXTENDS Naturals, Sequences, SequencesExt, FiniteSetsExt

CONSTANTS
    MapFiles,      \* the rows of a map file, and those of its override file
    Filters,       \* the names in the mask file and in the screen file
    MemberCounts,  \* 1: read alone, 2: two transports on one endpoint
    BatchSize,     \* batch_size
    DefaultEvery,  \* the interval of a row that names none
    Beyond,        \* registers the device answers beyond the last of the map
    MaxUnanswered  \* bound: ranges that are not answered

ASSUME RegisterMapAssumption ==
    /\ MemberCounts \subseteq {1, 2}
    /\ {BatchSize, DefaultEvery} \subseteq Nat \ {0} /\ {Beyond, MaxUnanswered} \subseteq Nat

VARIABLES
    filters,     \* the filter files of each member
    maps,        \* registry_map of each member
    left,        \* cycles until each entry of the first member is due
    ranges,      \* the ranges this cycle has yet to read
    inCycle,     \* TRUE: between the plan and the decoding
    registry,    \* the registers read
    due,         \* history: the entries due in this cycle, by member and place
    missed,      \* history: a range of this cycle was not answered
    info,        \* the names the last cycle delivered
    lacking,     \* history: the metrics not delivered since all last were
    lastRegister, \* the last register the device answers
    unanswered   \* bound on the ranges not answered

loaded == <<filters, maps, lastRegister>>
cycleVars == <<ranges, inCycle, registry, due, missed>>
mapVars == <<loaded, left, cycleVars, info, lacking, unanswered>>
----------------------------------------------------------------------------
(* From rows to entries. A row has a cell: "#" for one commented out or      *)
(* blank, "bad" for one that does not parse, "expr" for one whose address is *)
(* an expression, "at" for an address, "list" for "7_8", "range" for "1~4"   *)
(* and "reverse" for "r1~4".                                                 *)

NoName == <<"", "">>
Blank(k) == IF k \in {"doc", "var"} THEN NoName ELSE IF k = "at" THEN <<>> ELSE ""

\* The row of the override file for a key; the last of several counts.
OverrideFor(row, overrides) ==
    LET byName == SelectSeq(overrides, LAMBDA o : o.doc # NoName /\ o.doc = row.doc)
        byCell == SelectSeq(overrides, LAMBDA o : o.cell # "" /\ o.cell = row.cell /\ o.at = row.at)
    IN IF byName # <<>> THEN <<Last(byName)>>
       ELSE IF byCell # <<>> THEN <<Last(byCell)>> ELSE <<>>

\* What an override leaves blank stays, and so does the interval: it is taken
\* from the row before.
Overridden(row, overrides) ==
    LET o == OverrideFor(row, overrides)
    IN IF o = <<>> \/ row.cell = "#" THEN row
       ELSE [k \in DOMAIN row |->
               IF k \in {"doc", "var", "cell", "at", "type", "mode"} /\ o[1][k] # Blank(k)
                  THEN o[1][k] ELSE row[k]]

\* The override rows that no row of the map met are new rows: one found through
\* its name, and one more through its register.
FirstUnmet(overrides, met) ==
    LET new == SelectSeq(overrides, LAMBDA o :
                   o.doc # NoName /\ o.cell # "" /\ o.doc \notin met /\ <<o.cell, o.at>> \notin met)
    IN IF new = <<>> THEN <<>> ELSE <<Head(new)>>
Unmet(rows, overrides) ==
    LET met == UNION {LET o == OverrideFor(rows[i], overrides)
                      IN IF o = <<>> \/ rows[i].cell = "#" THEN {}
                         ELSE IF o[1].doc = rows[i].doc THEN {rows[i].doc}
                                                        ELSE {<<rows[i].cell, rows[i].at>>}
                      : i \in DOMAIN rows}
        first == FirstUnmet(overrides, met)
        keys == UNION {{o.doc, <<o.cell, o.at>>} : o \in Range(first)}
    IN first \o FirstUnmet(overrides, met \cup keys)

WordsOf(type) == CASE type = "UINT" -> 2 [] type = "UINT64" -> 4 [] OTHER -> 1

\* process_row(): one entry, one per register of a range, or none.
Entries(row) ==
    LET entry(at, list, cat) ==
            [register |-> at, list |-> list, cat |-> cat, type |-> IF row.type = "" THEN "USHORT" ELSE row.type,
             doc |-> row.doc, var |-> IF row.var = NoName THEN row.doc ELSE row.var,
             every |-> IF row.every = 0 THEN DefaultEvery ELSE row.every,
             readable |-> row.mode \notin {"WO", "RD"}, codes |-> row.codes, source |-> NoName]
        up == [i \in 1..(row.at[2] - row.at[1] + 1) |-> row.at[1] + i - 1]
        parts == IF row.cell = "reverse" THEN Reverse(up) ELSE up
    IN CASE row.cell \in {"#", "bad", "expr"} -> <<>>
         [] row.cell = "at" -> <<entry(row.at[1], <<>>, <<>>)>>
         [] row.cell = "list" -> <<entry(row.at[1], row.at, <<>>)>>
         [] row.cell \in {"range", "reverse"} ->
                IF row.at[2] > row.at[1] THEN [i \in DOMAIN parts |-> entry(up[i], <<>>, parts)]
                                         ELSE <<entry(row.at[1], <<>>, <<>>)>>

\* A low half and the high half right after it are one value.
Halves(low, high) == low.doc[2] = "l" /\ high.doc = <<low.doc[1], "h">>
Joined(low, high) ==
    [low EXCEPT !.type = IF @ # "USHORT" THEN @ ELSE IF high.type # "USHORT" THEN high.type ELSE "UINT",
                !.var = IF @ = low.doc THEN <<@[1], "">> ELSE @,
                !.doc = <<@[1], "">>]
WithHalvesJoined(m) ==
    FlattenSeq([i \in DOMAIN m |->
        IF i > 1 /\ Halves(m[i - 1], m[i]) THEN <<>>
        ELSE IF i < Len(m) /\ Halves(m[i], m[i + 1]) THEN <<Joined(m[i], m[i + 1])>>
        ELSE <<m[i]>>])

\* A filter file may name a joined value, or its low half.
NamedIn(e, names) ==
    \/ e.doc \in names \/ e.var \in names
    \/ e.doc[2] = "" /\ <<e.doc[1], "l">> \in names
    \/ e.var[2] = "" /\ <<e.var[1], "l">> \in names

\* The entries of a map that are in S, in their order.
Kept(m, S) == FlattenSeq([i \in DOMAIN m |-> IF m[i] \in S THEN <<m[i]>> ELSE <<>>])

\* A mask wins over a screen. A screen that names nothing here empties the map.
Filtered(m, f) ==
    IF f.mask # {} THEN Kept(m, {e \in Range(m) : NamedIn(e, f.mask)})
    ELSE IF f.screen = {} THEN m
    ELSE IF \E e \in Range(m) : NamedIn(e, f.screen) THEN Kept(m, {e \in Range(m) : ~NamedIn(e, f.screen)})
    ELSE <<>>

\* _add_code_description_entries(): after the filters, which may screen one by name.
Described(m, f) ==
    LET names == {e.var : e \in Range(m)}
        desc(e) == <<e.var[1], "desc">>
        new == Kept(m, {e \in Range(m) : e.codes /\ desc(e) \notin names \cup f.screen})
    IN m \o [i \in DOMAIN new |->
               [new[i] EXCEPT !.doc = <<@[1], "desc">>, !.var = desc(new[i]), !.source = new[i].var, !.list = <<>>,
                              !.cat = <<>>, !.type = "STRING", !.codes = FALSE, !.readable = FALSE]]

\* The entries of a file and its overrides, before any two are joined.
Parsed(file) ==
    LET rows == [i \in DOMAIN file.rows |-> Overridden(file.rows[i], file.overrides)]
        all == rows \o Unmet(file.rows, file.overrides)
    IN FlattenSeq([i \in DOMAIN all |-> Entries(all[i])])

\* load__registry()
LoadedMap(file, f) == Described(Filtered(WithHalvesJoined(Parsed(file)), f), f)

----------------------------------------------------------------------------
(* From entries to ranges and back. *)

\* entry_word_count()
WordCount(e) == IF e.list # <<>> THEN Len(e.list) ELSE IF e.cat # <<>> THEN Len(e.cat) ELSE WordsOf(e.type)

\* Mutant of EndRegister: its own register.
EndRegisterOwn(e) == e.register
EndRegister(e) == IF e.list # <<>> THEN Max(Range(e.list)) ELSE e.register + WordCount(e) - 1

\* The entries that start in a window, and the range that covers them.
InWindow(entries, w) == {e \in entries : e.register \div BatchSize = w /\ e.readable}
Span(es) == <<Min({e.register : e \in es}), Max({EndRegister(e) : e \in es})>>

\* Mutant of RangesFor: without the last window.
RangesForSize(entries, top) ==
    FlattenSeq([i \in 1..(top \div BatchSize) |->
        LET es == InWindow(entries, i - 1) IN IF es = {} THEN <<>> ELSE <<Span(es)>>])

\* calculate_registry_ranges(): one range per window, from the first register
\* of the entries that start in it to the last that any of them needs.
RangesFor(entries, top) ==
    FlattenSeq([i \in 1..(top \div BatchSize + 1) |->
        LET es == InWindow(entries, i - 1) IN IF es = {} THEN <<>> ELSE <<Span(es)>>])

\* registry_map_size
SizeOf(m) == Max({0} \cup {EndRegister(e) : e \in Range(m)})

\* The last register that the rows of a file name.
LastOf(file) == SizeOf(FlattenSeq([i \in DOMAIN file.rows |-> Entries(file.rows[i])]))

\* read_group_data(): of two entries of one name and register, the first.
Union ==
    LET all == FlattenSeq(maps)
    IN {all[i] : i \in {j \in DOMAIN all :
            \A k \in 1..(j - 1) : all[k].register # all[j].register \/ all[k].var # all[j].var}}

\* Are the registers of an entry all there? A part of a range is one register.
Decodes(e) ==
    IF e.list # <<>> THEN Range(e.list) \subseteq registry
    ELSE IF e.cat # <<>> THEN e.register \in registry
    ELSE e.register..(e.register + WordsOf(e.type) - 1) \subseteq registry

\* process_registery(): values, ranges whose parts are all there, descriptions.
Delivered(m) ==
    LET here == {e \in Range(m) : e.source = NoName /\ Decodes(e)}
        parts == {e.register : e \in {d \in here : d.cat # <<>>}}
        names == {e.var : e \in {d \in here : Range(d.cat) \subseteq parts}}
    IN names \cup {e.var : e \in {d \in Range(m) : d.source \in names}}

----------------------------------------------------------------------------
RegisterMapTypeOK ==
    /\ \A m \in DOMAIN maps : \A e \in Range(maps[m]) : e.register \in Nat /\ e.every >= 1
    /\ DOMAIN left = DOMAIN maps[1] /\ \A i \in DOMAIN left : left[i] <= maps[1][i].every
    /\ {inCycle, missed} \subseteq BOOLEAN /\ registry \subseteq Nat
    /\ \A d \in due : d[1] \in DOMAIN maps /\ d[2] \in DOMAIN maps[d[1]]

Readable == {e.var : e \in {d \in UNION {Range(m) : m \in Range(maps)} : d.readable}}

\* protocolSettings of each member, all of one protocol.
RegisterMapInit ==
    /\ \E n \in MemberCounts, file \in MapFiles :
          /\ filters \in [1..n -> Filters] /\ lastRegister = Beyond + LastOf(file)
          /\ maps = [i \in 1..n |-> LoadedMap(file, filters[i])]
    /\ left = [i \in DOMAIN maps[1] |-> 0]
    /\ ranges = <<>> /\ inCycle = FALSE /\ registry = {} /\ due = {} /\ missed = FALSE /\ info = {}
    /\ lacking = Readable /\ unanswered = 0

Alone == Len(maps) = 1
DueEntries ==
    {d \in UNION {{m} \X DOMAIN maps[m] : m \in DOMAIN maps} :
        maps[d[1]][d[2]].readable /\ (~Alone \/ left[d[2]] = 0)}

\* read_data() and read_group_data(): the ranges are planned, and of a
\* transport alone the next reads with them.
PlanCycle ==
    /\ ~inCycle /\ inCycle' = TRUE /\ due' = DueEntries /\ registry' = {} /\ missed' = FALSE
    /\ IF Alone
          THEN /\ ranges' = RangesFor({maps[1][d[2]] : d \in DueEntries}, SizeOf(maps[1]))
               /\ left' = [i \in DOMAIN left |->
                             IF ~maps[1][i].readable THEN 0
                             ELSE IF left[i] = 0 THEN maps[1][i].every - 1 ELSE left[i] - 1]
          ELSE /\ ranges' = RangesFor(Union, Max({0} \cup {e.register : e \in Union}))
               /\ UNCHANGED left
    /\ UNCHANGED <<loaded, info, lacking, unanswered>>

\* A range is answered whole; one that reaches beyond the device is rejected.
ReadRange ==
    /\ inCycle /\ ranges # <<>> /\ ranges' = Tail(ranges)
    /\ \/ /\ Head(ranges)[2] <= lastRegister /\ UNCHANGED <<unanswered, missed>>
          /\ registry' = registry \cup (Head(ranges)[1]..Head(ranges)[2])
       \/ /\ Head(ranges)[2] > lastRegister /\ UNCHANGED <<unanswered, missed, registry>>
       \/ /\ unanswered < MaxUnanswered /\ unanswered' = unanswered + 1 /\ missed' = TRUE
          /\ UNCHANGED registry
    /\ UNCHANGED <<loaded, left, inCycle, due, info, lacking>>

\* The registers become values: of each member through its own map.
DecodeCycle ==
    /\ inCycle /\ ranges = <<>> /\ inCycle' = FALSE
    /\ info' = UNION {Delivered(m) : m \in Range(maps)}
    /\ lacking' = (IF lacking = {} THEN Readable ELSE lacking) \ info'
    /\ UNCHANGED <<loaded, left, ranges, registry, due, missed, unanswered>>

\* cleanup(), when the connection is lost: everything is due at once.
ResetTimestamps ==
    /\ ~inCycle /\ left' = [i \in DOMAIN left |-> 0]
    /\ UNCHANGED <<loaded, cycleVars, info, lacking, unanswered>>

RegisterMapNext == PlanCycle \/ ReadRange \/ DecodeCycle \/ ResetTimestamps
RegisterMapSpec == RegisterMapInit /\ [][RegisterMapNext]_mapVars
                   /\ WF_mapVars(PlanCycle) /\ WF_mapVars(ReadRange) /\ WF_mapVars(DecodeCycle)

----------------------------------------------------------------------------
(* Properties. *)

\* What is due is delivered by a cycle whose ranges were all answered: the plan
\* covers every register that any member needs to decode it.
DueIsDelivered ==
    ~inCycle /\ ~missed => \A d \in due : maps[d[1]][d[2]].var \in info

\* The metrics a user selected are the ones delivered: with a mask, what it
\* names; with a screen, what it does not; and a description only of a value.
SelectionIsDelivered ==
    \A n \in info :
        \/ \E m \in DOMAIN maps : \E e \in Range(maps[m]) :
              /\ e.var = n /\ e.source = NoName
              /\ IF filters[m].mask # {} THEN NamedIn(e, filters[m].mask) ELSE ~NamedIn(e, filters[m].screen)
        \/ n[2] = "desc" /\ \E e \in UNION {Range(m) : m \in Range(maps)} : e.var = n /\ e.source \in info

\* No description is left without its value, and none of a joined value's halves is left over.
MapIsConsistent ==
    \A m \in DOMAIN maps : LET es == Range(maps[m]) IN
        /\ \A e \in es : e.source # NoName => \E s \in es : s.var = e.source /\ s.source = NoName
        /\ \A e \in es : e.doc[2] = "h" => <<e.doc[1], "">> \notin {s.doc : s \in es}

\* The map is the user's, and it is read.
MapIsServed == DueIsDelivered /\ SelectionIsDelivered /\ MapIsConsistent

\* Every metric that can be read is delivered again and again, whatever its interval.
MetricsKeepComing == []<>(lacking = {})
=============================================================================
