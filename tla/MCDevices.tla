----------------------------- MODULE MCDevices -----------------------------
(***************************************************************************)
(* A Modbus device from its connection on, part by part: the map of its     *)
(* registers, what connecting does, who it is, the writes, and the tables   *)
(* its read intervals size. They share no state here, so a behaviour is one *)
(* part's.                                                                  *)
(***************************************************************************)
EXTENDS RegisterMap, DeviceStartup, Eg4Identity, RegisterWrites, DynamicSizing, TLC

CONSTANTS t1, t2, b1, b2, x1, x2, x3, p1, p2

\* Map files: an address, halves, a list, codes, intervals, a row that does not
\* parse and one that is write-only; then overrides, a reversed range, an
\* expression and a long value.
N(b) == <<b, "">>
Row(doc, cell, at, type) == [doc |-> doc, var |-> NoName, cell |-> cell, at |-> at, type |-> type, every |-> 0, mode |-> "", codes |-> FALSE]
Plain == [rows |-> <<Row(N("a"), "at", <<1>>, ""), [Row(N("a"), "#", <<2>>, "") EXCEPT !.doc = N("z")],
            Row(<<"b", "l">>, "at", <<2>>, ""), Row(<<"b", "h">>, "at", <<3>>, ""),
            [Row(N("f"), "list", <<4, 6>>, "UINT") EXCEPT !.every = 2],
            [Row(N("s"), "at", <<7>>, "") EXCEPT !.codes = TRUE, !.every = 3],
            Row(N("w"), "bad", <<8>>, ""), [Row(N("w"), "at", <<9>>, "") EXCEPT !.mode = "WO"]>>,
          overrides |-> <<>>]
O(doc, cell, at, every, mode) == [doc |-> doc, var |-> NoName, cell |-> cell, at |-> at, type |-> "", every |-> every, mode |-> mode, codes |-> FALSE]
Edited == [rows |-> <<Row(N("a"), "at", <<0>>, ""), Row(N("t"), "reverse", <<1, 3>>, "ASCII"), Row(N("q"), "expr", <<>>, ""),
             [Row(N("s"), "at", <<4>>, "") EXCEPT !.codes = TRUE, !.var = N("v")], Row(N("u"), "at", <<5>>, "UINT64")>>,
           overrides |-> <<O(N("a"), "", <<>>, 0, "WO"), [O(NoName, "at", <<5>>, 0, "") EXCEPT !.type = "UINT"], O(N("n"), "at", <<9>>, 2, ""), O(N("m"), "at", <<10>>, 0, "")>>]
F(m, s) == [mask |-> m, screen |-> s]
TheFiles == {Plain, Edited}
TheFilters == {F({}, {}), F({<<"b", "l">>, N("s")}, {N("s")}), F({}, {N("a"), <<"s", "desc">>}), F({}, {N("zz")})}
TheEnd == LastOf(Plain) + Beyond

\* What a map file, with its overrides, is taken to be: addresses are numbers, the first of a
\* list the least, none beyond the device's last register; the parts of a range are all there
\* and are of one entry; of one register and base name either all or none can be read; a half
\* is named once, and not next to the whole; and no name is that of a description.
Names == STRING \X {"", "l", "h", "desc"}
Types == {"USHORT", "UINT", "UINT64", "ASCII", "STRING"}
Entry == [register : Nat, list : Seq(Nat), cat : Seq(Nat), type : Types, doc : Names, var : Names,
          every : Nat \ {0}, readable : BOOLEAN, codes : BOOLEAN, source : Names]

PartsAreThere(e, m) ==
    \A r \in Range(e.cat) : \E d \in Range(m) :
        d.register = r /\ d.cat # <<>> /\ d.doc = e.doc /\ d.var = e.var /\ d.every = e.every /\ d.readable = e.readable

SoundFile(file) ==
    LET m == Parsed(file)
        last == Beyond + LastOf(file)
    IN /\ m \in Seq(Entry) /\ LastOf(file) \in Nat
       /\ \A e \in Range(m) :
             /\ e.source = NoName /\ e.var[1] # "" /\ e.var[2] # "desc"
             /\ EndRegister(e) <= last
             /\ \A r \in Range(e.list) : e.register <= r
             /\ e.cat # <<>> => e.list = <<>> /\ e.doc[2] \notin {"l", "h"}
             /\ PartsAreThere(e, m)
             /\ \A d \in Range(m) :
                   /\ d.register = e.register /\ d.var[1] = e.var[1] => d.readable = e.readable
                   /\ e.doc[2] = "h" => d.doc # <<e.doc[1], "">>
       /\ \A i, j \in DOMAIN m : m[i].doc = m[j].doc /\ m[i].doc[2] \in {"l", "h"} => i = j
       /\ \A i \in DOMAIN m : i < Len(m) /\ Halves(m[i], m[i + 1]) => EndRegister(Joined(m[i], m[i + 1])) <= last

SoundFiles == \A file \in MapFiles : SoundFile(file)

ASSUME TheFilesAreSound == SoundFiles

\* Chains: as the defaults say but shorter, as the defaults say, and without
\* the repeating model.
M(k, l, n) == [kind |-> k, length |-> l, n |-> n]
I == M("inverter", 1, 0)
Chains == {<<I, M("mppt", 5, 1)>>, <<I, M("meter", 2, 0), M("mppt", 5, 3)>>, <<I, M("meter", 2, 0), M("meter", 1, 0)>>}
Def == <<I, M("meter", 2, 0), M("mppt", 5, 3)>>
Cand == <<4, 0>>

\* Writable entries of every kind and order; those of t1 and t2 share no register.
Abcd == [words |-> FALSE, bytes |-> FALSE]
Cdab == [words |-> TRUE, bytes |-> FALSE]
Badc == [words |-> FALSE, bytes |-> TRUE]
Dcba == [words |-> TRUE, bytes |-> TRUE]
Fd(by, at, kind, bit, size, order, low, high, asks) ==
   [by |-> by, at |-> at, kind |-> kind, bit |-> bit, size |-> size, order |-> order, scale |-> 1, offset |-> 0,
    min |-> low, max |-> high, codes |-> {}, mode |-> "W", asks |-> asks]
OwnFields == {Fd({t1}, <<0>>, "bits", 1, 2, Abcd, 0, 3, {2, 4}), Fd({t1}, <<0>>, "sbits", 0, 3, Badc, -4, 3, {-3}),
  Fd({t1}, <<0>>, "sm", 1, 3, Badc, -3, 3, {-2, 3}), Fd({t1}, <<0>>, "byte", 0, 2, Abcd, 0, 3, {1}),
  Fd({t2}, <<1>>, "flags", 0, 4, Abcd, 0, 15, {5}), Fd({t2}, <<1, 2>>, "uint", 0, 8, Cdab, 0, 200, {18, 201}),
  Fd({t2}, <<1, 2>>, "int", 0, 8, Dcba, -128, 127, {-19}),
  [Fd({t2}, <<2>>, "ushort", 0, 4, Badc, 0, 30, {7, 40}) EXCEPT !.scale = 2],
  [Fd({t2}, <<2>>, "short", 0, 4, Abcd, -8, 7, {-5}) EXCEPT !.codes = {-5, 0}], [Fd({t1}, <<0>>, "ushort", 0, 4, Abcd, 0, 15, {6}) EXCEPT !.mode = "R"]}
SharedFields == {Fd({t1}, <<0>>, "bits", 0, 2, Abcd, 0, 3, {2}), Fd({t2}, <<0>>, "bits", 2, 2, Abcd, 0, 3, {1})}
OffsetFields == {[Fd({t1}, <<0>>, "ushort", 0, 4, Abcd, 0, 15, {6}) EXCEPT !.offset = 1]}
BitWords == {Fd({t1}, <<0>>, "ushort", 1, 2, Abcd, 0, 3, {1})}
Apart == {Fd({t1}, <<0, 2>>, "uint", 0, 8, Abcd, 0, 255, {18})}

\* What the entries are taken to be where a write is to land in its own bits: their registers
\* follow each other; none has an Offset adjustment, every one has a bit, and one that is
\* whole registers has all theirs; no register has entries of two transports.
InOneRun(fields) == \A f \in fields : \A i \in DOMAIN f.at : f.at[i] = f.at[1] + i - 1

PlainEntries(fields) ==
    \A f \in fields :
        /\ f.offset = 0 /\ f.size # 0
        /\ f.kind \in {"ushort", "short", "uint", "int"} => f.bit = 0 /\ f.size = Len(f.at) * WordBits

OwnRegisters(fields) ==
    \A f, g \in fields : \A w \in f.by, x \in g.by : w # x => Range(f.at) \cap Range(g.at) = {}

SoundEntries(fields) == InOneRun(fields) /\ PlainEntries(fields) /\ OwnRegisters(fields)

ASSUME TheEntriesAreSound == SoundEntries(OwnFields)

\* Two transports on one protocol, a third on another.
TwoProtocols == [t \in {x1, x2, x3} |-> IF t = x3 THEN p2 ELSE p1]

----------------------------------------------------------------------------
VARIABLE part
partVars == <<part, mapVars, startupVars, egVars, writeVars, sizingVars>>

PartInit ==
    /\ part \in {"map", "startup", "identity", "writes", "sizes"}
    /\ RegisterMapInit /\ (part # "map" => Len(maps) = 1 /\ filters[1] = F({}, {N("zz")}) /\ lastRegister = TheEnd)
    /\ StartupInit /\ (part # "startup" => layout = Def /\ markerAt = 4 /\ early = 0 /\ suits /\ writeType = "off")
    /\ EgInit /\ (part # "identity" => egKind = "inverter")
    /\ SizingInit /\ (part # "sizes" => counted = {})
    /\ RegisterWritesInit /\ (part # "writes" => registers = [r \in Words |-> 0])

OnMap == part = "map" /\ UNCHANGED <<part, startupVars, egVars, writeVars, sizingVars>>
OnStartup == part = "startup" /\ UNCHANGED <<part, mapVars, egVars, writeVars, sizingVars>>
OnIdentity == part = "identity" /\ UNCHANGED <<part, mapVars, startupVars, writeVars, sizingVars>>
OnWrites == part = "writes" /\ UNCHANGED <<part, mapVars, startupVars, egVars, sizingVars>>
OnSizes == part = "sizes" /\ UNCHANGED <<part, mapVars, startupVars, egVars, writeVars>>

PartNext ==
    \/ OnMap /\ RegisterMapNext
    \/ OnStartup /\ StartupNext
    \/ OnIdentity /\ EgNext
    \/ OnWrites /\ RegisterWritesNext
    \/ OnSizes /\ SizingNext

\* The fairness of the parts.
PartFairness ==
    /\ WF_mapVars(OnMap /\ PlanCycle) /\ WF_mapVars(OnMap /\ ReadRange) /\ WF_mapVars(OnMap /\ DecodeCycle)
    /\ WF_egVars(OnIdentity /\ (IdentifyAtConnect \/ ConnectAfterReload)) /\ WF_egVars(OnIdentity /\ EgTimePasses)
    /\ WF_egVars(OnIdentity /\ RetryIdentity) /\ WF_egVars(OnIdentity /\ RetryModules)
    /\ \A key \in Keys :
        /\ WF_sizingVars(OnSizes /\ TimerFires(key))
        /\ WF_sizingVars(OnSizes /\ (RetuneWorks(key) \/ RetuneFails(key)))

PartSpec == PartInit /\ [][PartNext]_partVars /\ PartFairness
----------------------------------------------------------------------------
\* The type invariants of the parts.
DevicesTypeOK == RegisterMapTypeOK /\ StartupTypeOK /\ EgTypeOK /\ RegisterWritesTypeOK /\ SizingTypeOK

\* The registers of the device that the map names are the ones in force, planned
\* for and decoded: the two maps of load__registry() and apply_anchors(). The tables the
\* readings go to are sized by their load once the retune timer has run.
MapsAreTrue == MapIsServed /\ DeviceIsMapped /\ TablesAreSized

\* What is written is what was asked for, and what is known is not lost again.
WritesAndIdentityHold == WritesAreTrue /\ IdentityIsKept

\* Every metric comes again and again, a device that answers is identified, and a
\* table leaves its static chunk size.
DeviceKeepsAnswering ==
    /\ part = "map" => MetricsKeepComing
    /\ part = "identity" => IdentityArrives
    /\ part = "sizes" => StaticIsTemporary
=============================================================================
