---------------------------- MODULE MCWebStorage ---------------------------
(***************************************************************************)
(* What the web server stages and commits - settings, metric selections    *)
(* and edits of the bridges' databases -, what these edits and the         *)
(* Timeshift screen make of the values there, and what the timescaledb     *)
(* bridge builds in its database: the wide table and its catalog, the      *)
(* rollup views and the compression jobs. A commit takes the first three   *)
(* one after the other, the bridge sets the others up one after the other  *)
(* under locks of their own, so a behaviour is one part's.                 *)
(***************************************************************************)
EXTENDS ConfigStaging, MetricSelections, AdminEdits, ValueEdits,
        WideSchema, Rollups, CompressionJobs

CONSTANTS d1, k1, k2, c1, c2, a1, a2

\* A code register with its description, a plain one and a synthetic metric.
OneDesc == [r \in {"code"} |-> "text"]
OwnNames == [r \in {"code", "text", "plain", "derived"} |-> r]

\* Two registers of one name.
NoDesc == <<>>
SharedNames == [r \in {"holding", "input"} |-> "power"]

OwnColumns == [m \in {a1, a2} |-> m]
SharedColumns == [m \in {a1, a2} |-> a1]

\* A float, a text and a boolean, at two times.
StoredAtFirst ==
    {<<1, "f", V("float", 150)>>, <<1, "g", V("string", -5)>>, <<1, "h", V("boolean", 100)>>,
     <<3, "f", V("float", 300)>>}
ThreeColumns == [f |-> "REAL", g |-> "TEXT", h |-> "BOOLEAN"]
LiveReading == [f |-> V("float", 700), g |-> V("string", -6)]

\* Two sheets that disagree about the time 2, a row at an hour that comes twice; and a
\* single sheet with a row without a time.
Cell(form, n) == [form |-> form, n |-> n]
SheetRow(t, a, b, c) == [at |-> t, cells |-> [A |-> a, B |-> b, C |-> c]]
TwoSheets ==
    << [timed |-> TRUE, rows |-> << SheetRow(2, Cell("int", 400), BlankCell, Cell("hex", 100)),
                                    SheetRow(1, BlankCell, Cell("text", -7), Cell("int", 500)) >>],
       [timed |-> TRUE, rows |-> << SheetRow(2, Cell("float", 250), Cell("text", -8), BlankCell),
                                    SheetRow(3, Cell("percent", 50), Cell("text", -7), Cell("int", 500)) >>] >>
OneSheet ==
    << [timed |-> TRUE, rows |-> << SheetRow(NoTime, Cell("int", 400), BlankCell, Cell("hex", 100)),
                                    SheetRow(2, Cell("float", 75), Cell("text", -7), Cell("int", 500)) >>] >>
Books == {TwoSheets, OneSheet}
BookColumns == <<"A", "B", "C">>
BookGuess == [A |-> "f", B |-> "g", C |-> ""]
HourTwice == [t \in {3} |-> TwiceThere]
StayOrMove == {[from |-> 1, to |-> 3, target |-> 1], [from |-> 1, to |-> 3, target |-> 4]}
WholeRange == {[from |-> 1, to |-> 3]}
OneOrTrue == {100, TrueText}

AnyOf(S) == CHOOSE x \in S : TRUE

VARIABLE part
webVars == <<stagingVars, selectionVars, adminVars>>
storageVars == <<wideVars, rollupVars, jobVars>>
partVars == <<part, webVars, storageVars, valueVars>>

WebParts == {"settings", "selections", "edits"}
StorageParts == {"schema", "rollups", "compression"}

PartInit ==
    /\ part \in WebParts \cup StorageParts \cup {"timeshift", "values"}
    /\ StagingInit /\ SelectionInit /\ AdminInit
    /\ WideInit /\ RollupInit /\ JobInit /\ TimeShiftInit /\ ValueEditsInit
    /\ part \notin {"timeshift", "values"} => dest = AnyOf(Destinations)
    /\ part # "schema" => declared = AnyOf(Declarations)
    /\ part # "compression" => ~validSettings /\ after = AnyOf(AfterValues)

OnWeb ==
    /\ \/ part = "settings" /\ StagingNext /\ UNCHANGED <<selectionVars, adminVars>>
       \/ part = "selections" /\ SelectionNext /\ UNCHANGED <<stagingVars, adminVars>>
       \/ part = "edits" /\ AdminNext /\ UNCHANGED <<stagingVars, selectionVars>>
    /\ UNCHANGED <<part, storageVars, valueVars>>

OnStorage ==
    /\ \/ part = "schema" /\ WideNext /\ UNCHANGED <<rollupVars, jobVars>>
       \/ part = "rollups" /\ RollupNext /\ UNCHANGED <<wideVars, jobVars>>
       \/ part = "compression" /\ JobNext /\ UNCHANGED <<wideVars, rollupVars>>
    /\ UNCHANGED <<part, webVars, valueVars>>

OnValues ==
    /\ \/ part = "timeshift" /\ TimeShiftNext /\ UNCHANGED editVars
       \/ part = "values" /\ EditNext
    /\ UNCHANGED <<part, webVars, storageVars>>

PartNext == OnWeb \/ OnStorage \/ OnValues

PartSpec == PartInit /\ [][PartNext]_partVars
----------------------------------------------------------------------------
\* The part at work keeps its types.
WebStorageTypeOK ==
    /\ part = "settings" => StagingTypeOK
    /\ part = "selections" => SelectionTypeOK
    /\ part = "edits" => AdminTypeOK
    /\ part = "schema" => WideTypeOK
    /\ part = "rollups" => RollupTypeOK
    /\ part = "compression" => JobTypeOK
    /\ part \in {"timeshift", "values"} => TimeShiftTypeOK
    /\ part = "values" => ValueEditsTypeOK

\* Exports, imports and edits change the values they are asked to, and what
\* they tell of it is so.
ValuesAreTrue == TimeShiftIsTrue /\ ValueEditsAreTrue
=============================================================================
