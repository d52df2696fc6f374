------------------------------ MODULE ValueEdits ------------------------------
(***************************************************************************)
(* The Metrics Edit screens: an admin has the values of a range counted,   *)
(* stages to delete them or to set them all to one value, and commits what *)
(* is staged, one edit after the other, while the bridge goes on writing.  *)
(* InfluxDB edits concern one field (deletions all of them), those of a    *)
(* wide table some of its columns and, if so asked, the same metrics of    *)
(* the narrow table. How the queue of edits is kept is AdminEdits' matter. *)
(***************************************************************************)
EXTENDS TimeShift

CONSTANTS
    EditRanges,   \* [from, to] in seconds
    NewValues,    \* texts an admin enters: a number in hundredths, or a word
    Edition,      \* of the InfluxDB 3 server: core or enterprise
    MaxEdits, MaxEditFaults  \* bounds

ASSUME ValueEditsAssumption ==
    /\ Edition \in {"core", "enterprise"} /\ NewValues \subseteq Int
    /\ MaxEdits \in Nat /\ MaxEditFaults \in Nat

VARIABLES
    plans,     \* the edits plans, in order
    nullRows,   \* times of rows of the wide table without a value left
    editStep,       \* where the commit is: idle, write (rows fetched) or narrow (companion left)
    fetched,    \* the values an InfluxDB edit is about to write again
    requested,  \* ranges InfluxDB 3 Enterprise has been asked to delete
    preview,    \* the preview the admin has asked for, if any
    parted,     \* history: values an edit has reached in one of the two tables only
    edits, editFaults

editBounds == <<edits, editFaults>>
editVars == <<plans, nullRows, editStep, fetched, requested, preview, parted, editBounds>>
elsewhere == <<dest, frame, csv, exporting, importing, paused, unpaused, shiftBounds>>
valueVars == <<shiftVars, editVars>>

NoText == -100  \* of a deletion
EditFaulty == editFaults < MaxEditFaults /\ editFaults' = editFaults + 1

\* The end of a range is the end of the second shown.
Within(plan, t) == plan.from * Ticks <= t /\ t < (plan.to + 1) * Ticks
\* The columns of the wide table an edit names, or the metrics and fields as they are.
Named(plan) == IF dest = "wide" THEN plan.fields \cap DOMAIN ColumnType ELSE plan.fields
WideRows == {p[1] : p \in points} \cup nullRows
RowsIn(plan) == {t \in (IF dest = "wide" THEN WideRows ELSE {p[1] : p \in Table}) : Within(plan, t)}
ValuesIn(s, plan) == {p \in s : Within(plan, p[1]) /\ p[2] \in Named(plan)}

\* _query_time_slices(): the slices a range is read in, if it can be read.
TooBig == [from |-> 0, to |-> 0, closed |-> FALSE]
SlicesOf(plan) ==
    LET end == (plan.to + 1) * Ticks - 1
        Of[s \in [from : 0..end, to : 0..end, closed : BOOLEAN]] ==
            IF ~TooManyFiles(s) THEN <<s>>
            ELSE IF s.to - s.from <= MinSlice THEN <<TooBig>>
            ELSE Of[Halves(s)[1]] \o Of[Halves(s)[2]]
    IN Of[[from |-> plan.from * Ticks, to |-> end, closed |-> TRUE]]
Readable(plan) == dest = "v3" => TooBig \notin Range(SlicesOf(plan))
InSlices(s, plan) ==
    IF dest = "v3" THEN UNION {Inside(s, slice) : slice \in Range(SlicesOf(plan))} ELSE {p \in s : Within(plan, p[1])}

----------------------------------------------------------------------------
(* The value an edit writes. *)

\* _infer_narrow_field_kinds()
Kind(f) == IF \E p \in narrow : p[2] = f /\ p[3].type = "string" THEN "text" ELSE "numeric"
KindsOf(plan) == {Kind(f) : f \in plan.fields}

\* _coerce_v1_field_value() and _coerce_v3_field_value()
ForField(v, type) ==
    CASE type = "none" -> IF dest = "v3" /\ IsNumber(v) THEN V("float", v.n) ELSE v
      [] type = "string" -> v
      [] type = "boolean" -> IF ToBoolean(v).type = "boolean" THEN ToBoolean(v) ELSE Refused
      [] type = "integer" -> IF IsNumber(v) /\ Whole(v.n) THEN V("integer", v.n) ELSE Refused
      [] type = "float" -> IF IsNumber(v) THEN V("float", v.n) ELSE Refused
FieldType(f) == IF TypesNow(f) = {} THEN "none" ELSE CHOOSE type \in TypesNow(f) : TRUE

\* What the edit makes of its value in the table it is of.
NewValueOf(plan, f) ==
    CASE Influx -> ForField(plan.value, FieldType(f))
      [] dest = "wide" -> ForColumn(plan.value, ColumnType[f])
      [] dest = "narrow" ->
            IF Cardinality(KindsOf(plan)) > 1 THEN Refused
            ELSE IF Kind(f) = "text" THEN plan.value
            ELSE IF IsNumber(plan.value) THEN V("float", plan.value.n) ELSE Refused

\* narrow_companion_value(): one value for all the columns of the edit.
\* Mutant of Companions: the text entered goes to the narrow table.
CompanionsAsEntered(plan) == {plan.value}
Companions(plan) == {Mirrored(NewValueOf(plan, f)) : f \in Named(plan)}

\* validate_metric_edit_value()
Acceptable(plan) ==
    \/ plan.action = "delete"
    \/ /\ Named(plan) # {} /\ \A f \in Named(plan) : NewValueOf(plan, f) # Refused
       /\ plan.also => Cardinality(Companions(plan)) = 1

----------------------------------------------------------------------------
(* Preview and staging. *)

Plans ==
    {[from |-> r.from, to |-> r.to, action |-> IF n = NoText THEN "delete" ELSE "set_value",
      fields |-> fs, value |-> V("string", n), also |-> also] :
        r \in EditRanges, fs \in (SUBSET KnownFields) \ {{}}, n \in NewValues \cup {NoText},
        also \in (IF dest = "wide" THEN BOOLEAN ELSE {FALSE})}
Offered(plan) == Influx => Cardinality(plan.fields) = 1

\* InfluxDB counts values, and the narrow table has a row for each.
ValueCount(plan) == Cardinality({p \in InSlices(Table, plan) : p[2] \in plan.fields})

\* preview_metric_edit(): the values of a field, the rows of the narrow table, or all rows
\* of the wide table in the range; and the narrow ones an edit of both would reach.
Preview(plan) ==
    /\ preview = {} /\ plans = <<>> /\ Offered(plan) /\ Readable(plan)
    /\ preview' = {[of |-> plan, among |-> <<points, narrow, nullRows>>,
                   count |-> IF dest = "wide" THEN Cardinality(RowsIn(plan)) ELSE ValueCount(plan),
                   beside |-> IF plan.also THEN Cardinality(ValuesIn(narrow, plan)) ELSE 0]}
    /\ UNCHANGED <<elsewhere, points, narrow, plans, nullRows, editStep, fetched, requested, parted, editBounds>>

\* detect_edition(): what the server says, kept for a while; nothing if it does not answer.
EditionsSeen == {Edition, "unknown"}

\* delete_unavailable_reason()
MayBeOffered(plan) == dest = "v3" /\ plan.action = "delete" => EditionsSeen # {"core"}

\* stage_metric_edit()
StageValueEdit(plan) ==
    /\ editStep = "idle" /\ edits < MaxEdits /\ edits' = edits + 1 /\ Offered(plan)
    /\ MayBeOffered(plan) /\ Acceptable(plan) /\ plans' = Append(plans, plan)
    /\ preview' = {shown \in preview : shown.of = plan}
    /\ UNCHANGED <<elsewhere, points, narrow, nullRows, editStep, fetched, requested, parted, editFaults>>

----------------------------------------------------------------------------
(* The commit. *)

\* The store with a value set in all rows of these times, and without the values there.
SetIn(s, times, value) ==
    {p \in s : ~(p[1] \in times /\ p[2] \in DOMAIN value)}
        \cup {<<t, f, value[f]>> : t \in times, f \in DOMAIN value}
KeysIn(plan, s) == {<<p[1], p[2]>> : p \in ValuesIn(s, plan)}

\* An edit in progress: the first of those staged.
First == Head(plans)
FinishEdit == plans' = Tail(plans) /\ editStep' = "idle"
\* It raises: what is staged stays so.
LeaveEdit == UNCHANGED plans /\ editStep' = "idle"

\* edit_metric_values() of InfluxDB: the rows are read, to be written again with the one field.
FetchRows ==
    /\ Influx /\ editStep = "idle" /\ plans # <<>> /\ First.action = "set_value"
    /\ Readable(First) /\ Acceptable(First)
    /\ editStep' = "write"
    /\ fetched' = {<<p[1], f, NewValueOf(First, f)>> : p \in InSlices(points, First), f \in First.fields}
    /\ UNCHANGED <<elsewhere, points, narrow, plans, nullRows, requested, preview, parted, editBounds>>

RewriteRows ==
    /\ editStep = "write"
    /\ \/ /\ points' = {p \in points : \A q \in fetched : <<p[1], p[2]>> # <<q[1], q[2]>>} \cup fetched
          /\ FinishEdit /\ UNCHANGED editFaults
       \/ EditFaulty /\ UNCHANGED points /\ LeaveEdit
    /\ fetched' = {}
    /\ UNCHANGED <<elsewhere, narrow, nullRows, requested, preview, parted, edits>>

DeletePoints ==
    /\ dest = "v1" /\ editStep = "idle" /\ plans # <<>> /\ First.action = "delete"
    /\ points' = {p \in points : ~Within(First, p[1])} /\ FinishEdit
    /\ UNCHANGED <<elsewhere, narrow, nullRows, fetched, requested, preview, parted, editBounds>>

\* _delete_rows_via_enterprise_api(): the server takes the request, and acts on it later.
RequestDeletion ==
    /\ dest = "v3" /\ editStep = "idle" /\ plans # <<>> /\ First.action = "delete"
    /\ Edition = "enterprise" /\ requested' = requested \cup {[from |-> First.from, to |-> First.to]} /\ FinishEdit
    /\ UNCHANGED <<elsewhere, points, narrow, nullRows, fetched, preview, parted, editBounds>>
CarryOutDeletion ==
    \E d \in requested :
       /\ requested' = requested \ {d} /\ points' = {p \in points : ~Within(d, p[1])}
       /\ UNCHANGED <<elsewhere, narrow, plans, nullRows, editStep, fetched, preview, parted, editBounds>>

\* edit_metric_values() of a table of TimescaleDB: one UPDATE or DELETE in one transaction;
\* if it fails, the edit stays staged.
WideValues(plan) ==
    IF plan.action = "delete" THEN points \ ValuesIn(points, plan)
    ELSE SetIn(points, RowsIn(plan), [f \in Named(plan) |-> NewValueOf(plan, f)])
NarrowValues(plan, value) ==
    IF plan.action = "delete" THEN narrow \ ValuesIn(narrow, plan)
    ELSE (narrow \ ValuesIn(narrow, plan)) \cup {<<p[1], p[2], value>> : p \in ValuesIn(narrow, plan)}

EditWideValues ==
    /\ dest = "wide" /\ editStep = "idle" /\ plans # <<>>
    /\ \/ /\ Acceptable(First) /\ points' = WideValues(First)
          /\ nullRows' = WideRows \ {p[1] : p \in points'}
          /\ parted' = parted \cup KeysIn(First, points) \cup KeysIn(First, points')
          /\ IF First.also THEN editStep' = "narrow" /\ UNCHANGED plans ELSE FinishEdit
          /\ UNCHANGED editFaults
       \/ EditFaulty /\ UNCHANGED <<points, nullRows, parted>> /\ LeaveEdit
    /\ UNCHANGED <<elsewhere, narrow, fetched, requested, preview, edits>>

\* The companion of an edit of the wide table, in a transaction of its own: it reaches
\* readings that came in between.
EditCompanion ==
    /\ editStep = "narrow"
    /\ \/ /\ narrow' = NarrowValues(First, CHOOSE v \in Companions(First) : TRUE)
          /\ parted' = {k \in parted : ~(Within(First, k[1]) /\ k[2] \in Named(First))}
                          \cup (KeysIn(First, narrow) \ parted)
          /\ FinishEdit /\ UNCHANGED editFaults
       \/ EditFaulty /\ UNCHANGED <<narrow, parted>> /\ LeaveEdit
    /\ UNCHANGED <<elsewhere, points, nullRows, fetched, requested, preview, edits>>

EditNarrowValues ==
    /\ dest = "narrow" /\ editStep = "idle" /\ plans # <<>>
    /\ \/ /\ Acceptable(First) /\ UNCHANGED editFaults /\ FinishEdit
          /\ narrow' = NarrowValues(First, NewValueOf(First, CHOOSE f \in First.fields : TRUE))
       \/ EditFaulty /\ UNCHANGED narrow /\ LeaveEdit
    /\ UNCHANGED <<elsewhere, points, nullRows, fetched, requested, preview, parted, edits>>

\* Readings come at times of their own.
WriteAmidEdits(t) == t \notin nullRows /\ LiveWrite(t) /\ UNCHANGED editVars

ValueEditsInit ==
    /\ plans = <<>> /\ nullRows = {} /\ editStep = "idle" /\ fetched = {} /\ requested = {}
    /\ preview = {} /\ parted = {} /\ edits = 0 /\ editFaults = 0

EditNext ==
    \/ \E plan \in Plans : Preview(plan) \/ StageValueEdit(plan)
    \/ FetchRows \/ RewriteRows \/ DeletePoints \/ RequestDeletion \/ CarryOutDeletion
    \/ EditWideValues \/ EditCompanion \/ EditNarrowValues
    \/ \E t \in LiveTimes : WriteAmidEdits(t)

ValueEditsSpec == TimeShiftInit /\ ValueEditsInit /\ [][EditNext]_valueVars

----------------------------------------------------------------------------
(* Properties. *)

ValueEditsTypeOK ==
    /\ IsFunction(points) /\ IsFunction(narrow) /\ editStep \in {"idle", "write", "narrow"}
    /\ editStep # "idle" => plans # <<>>
    /\ nullRows \cap {p[1] : p \in points} = {}

\* The first edit staged has been carried out, in the wide table or the narrow one.
Edited == plans # <<>> /\ (plans' = Tail(plans) \/ (editStep = "idle" /\ editStep' = "narrow"))
ChangedKeys(old, new) == StoredKeys((old \ new) \cup (new \ old))

\* An edit changes values of its fields in its range, and a deletion in InfluxDB the whole
\* points; a value set is set in every row, as far as InfluxDB was asked for it.
EditIsExact ==
    Edited =>
        /\ \A k \in ChangedKeys(points, points') \cup ChangedKeys(narrow, narrow') :
              /\ k[1] >= First.from * Ticks /\ k[1] <= First.to * Ticks + Ticks - 1
              /\ k[2] \in First.fields \/ (Influx /\ First.action = "delete")
        /\ editStep # "narrow" /\ ~(dest = "v3" /\ First.action = "delete") => \A p \in Table' : Within(First, p[1]) /\ p[2] \in First.fields =>
              /\ First.action = "set_value"
              /\ p[3].n = First.value.n \/ p[3].type = "boolean"
                    \/ (Influx /\ \A q \in fetched : q[1] # p[1])
        /\ editStep = "narrow" /\ First.action = "delete" => ValuesIn(narrow', First) = {}

\* The fields of a measurement keep their types.
TypesHold == Edited /\ Influx => \A f \in FieldsOf(points) : TypesNow(f)' \subseteq TypesNow(f)

\* The wide and the narrow table agree wherever both have a value, through imports, readings
\* and edits; but for what an edit has reached in one of them only.
TablesAgree ==
    dest = "wide" => \A p \in points : \A q \in narrow : p[1] = q[1] /\ p[2] = q[2] =>
        <<p[1], p[2]>> \in parted \/ (q[3].n = p[3].n /\ q[3].type = (IF p[3].type = "string" THEN "string" ELSE "float"))

\* What was accepted when it was staged will not be refused by the commit, where it would
\* hold up the edits behind it; but for metrics that have lost their last row.
StagedIsAccepted ==
    plans # <<>> /\ ~Acceptable(First) =>
        dest = "narrow" /\ \E f \in First.fields : f \notin FieldsOf(narrow)

\* With nothing changed in between, an edit reaches what its preview counted: the values of
\* the field that are replaced, all rows of the wide table, the rows of the narrow one.
PreviewTells ==
    Edited => \A shown \in preview : shown.of = First =>
        LET after == {p \in Table' : Within(First, p[1]) /\ p[2] \in First.fields}
            gone == {p[1] : p \in points \ points'}
        IN CASE editStep = "narrow" -> shown.among[2] = narrow =>
                    shown.beside = Cardinality(IF First.action = "delete" THEN narrow \ narrow' ELSE ValuesIn(narrow', First))
             [] OTHER -> shown.among = <<points, narrow, nullRows>> =>
                CASE Influx -> First.action = "delete" \/ shown.count = Cardinality(ValuesIn(points, First))
                  [] dest = "wide" ->
                        IF First.action = "delete" THEN shown.count >= Cardinality(gone)
                        ELSE shown.count * Cardinality(Named(First)) = Cardinality(after)
                  [] dest = "narrow" ->
                        shown.count = Cardinality(IF First.action = "delete" THEN narrow \ narrow' ELSE after)

\* The five together.
ValueEditsAreTrue ==
    [][EditIsExact /\ TypesHold /\ TablesAgree' /\ StagedIsAccepted' /\ PreviewTells]_valueVars
=============================================================================
