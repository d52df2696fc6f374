------------------------------- MODULE TimeShift -------------------------------
(***************************************************************************)
(* The Timeshift Data screen: a range of one device's readings goes out to *)
(* a CSV file, shifted in time, and a file - an exported one, or an EG4    *)
(* workbook - is uploaded, its columns matched to fields, and written to   *)
(* an InfluxDB measurement, the narrow table or a wide table with its      *)
(* narrow mirror. The bridge goes on writing. Numbers are in hundredths;   *)
(* a negative text is a word, one from 0 on the text of that number.       *)
(***************************************************************************)
EXTENDS Integers, Sequences, FiniteSets, SequencesExt, FiniteSetsExt, Functions

CONSTANTS
    Destinations,  \* of "v1", "v3", "wide" and "narrow"
    Stored,        \* what the destination holds at first: <<time, field, value>>
    ColumnType,    \* column of the wide table -> INTEGER, REAL, BOOLEAN or TEXT
    Workbooks,     \* EG4 files: sequences of sheets [timed, rows]
    ColumnsOf,     \* their columns, in order
    Guess,         \* column -> the field guess_mapping() finds, "" below the threshold
    ZoneSteps,     \* wall time -> UTC, where a clock change is: TwiceThere if ambiguous
    Offset,        \* local time is UTC - Offset elsewhere
    Ticks,         \* times a second
    ExportRanges,  \* [from, to, target] that may be exported, in seconds
    Shifts,        \* target start - source start of an import
    FileSpan,      \* the time a Parquet file covers
    MaxFiles,      \* the files a query of InfluxDB 3 Core may touch
    BatchPoints,   \* points a v1 write holds: 1000
    TypesMayFail,  \* TRUE: loading the field types may fail
    LiveTimes,     \* times at which the bridge may write
    LiveValues,    \* field -> what it writes then
    MaxImports, MaxExports, MaxWriteFaults  \* bounds

NoTime == -1
TwiceThere == -2
NoField == ""
NoValue == [type |-> "none", n |-> 0]
Refused == [type |-> "refused", n |-> 0]
MinSlice == 1  \* _V3_MIN_SLICE

ASSUME TimeShiftAssumption ==
    /\ Destinations \subseteq {"v1", "v3", "wide", "narrow"}
    /\ {Offset, Ticks, FileSpan, MaxFiles, BatchPoints, MaxImports, MaxExports, MaxWriteFaults} \subseteq Nat
    /\ Ticks > 0 /\ FileSpan > 0 /\ BatchPoints > 0 /\ TypesMayFail \in BOOLEAN
    /\ \A r \in ExportRanges : r.from <= r.to

VARIABLES
    dest,       \* where the screen reads and writes
    points,     \* <<time, field, value>> of the measurement or the wide table
    narrow,     \* those of the narrow table
    frame,      \* the uploaded file, once parsed
    csv,        \* the file exported last
    exporting,  \* the export under way
    importing,  \* the import under way
    paused,     \* tables whose compression job an import has paused
    unpaused,   \* history: tables whose job could not be resumed
    imports, exports, writeFaults

shiftBounds == <<imports, exports, writeFaults>>
shiftVars == <<dest, points, narrow, frame, csv, exporting, importing, paused, unpaused, shiftBounds>>

Influx == dest \in {"v1", "v3"}
\* The table the screen is on.
Table == IF dest = "narrow" THEN narrow ELSE points
FieldsOf(s) == {p[2] : p \in s}
----------------------------------------------------------------------------
(* Values: normalize_value(), coerce_to_influx_type(), check_field_type(),  *)
(* _coerce_value_for_data_type() and _narrow_value_pair().                  *)

V(type, n) == [type |-> type, n |-> n]
TrueText == -1
FalseText == -2
TextOf(v) == V("string", IF v.type = "boolean" THEN (IF v.n = 0 THEN FalseText ELSE TrueText) ELSE v.n)
IsNumber(v) == v.type \in {"integer", "float", "boolean"} \/ (v.type = "string" /\ v.n >= 0)
Whole(n) == n % 100 = 0
Truncated(n) == IF n >= 0 THEN (n \div 100) * 100 ELSE -((-n) \div 100) * 100

Normalized(cell) ==
    CASE cell.form = "blank" -> NoValue
      [] cell.form \in {"int", "hex"} -> V("integer", cell.n)
      [] cell.form \in {"float", "percent"} -> V("float", cell.n)
      [] cell.form = "bool" -> V("boolean", cell.n)
      [] cell.form = "text" ->
            IF cell.n < 0 THEN V("string", cell.n) ELSE V(IF Whole(cell.n) THEN "integer" ELSE "float", cell.n)

\* A fraction below 1 is taken for a percentage of an integer field.
ToInteger(v) ==
    IF v.type = "float" /\ v.n \in 0..99 THEN V("integer", v.n * 100)
    ELSE IF IsNumber(v) THEN V("integer", Truncated(v.n)) ELSE v
ToBoolean(v) ==
    IF v.type # "string" THEN V("boolean", IF v.n = 0 THEN 0 ELSE 100)
    ELSE IF v.n \in {TrueText, 100} THEN V("boolean", 100)
    ELSE IF v.n \in {FalseText, 0} THEN V("boolean", 0) ELSE v
CoercedTo(v, type) ==
    CASE type = "string" -> TextOf(v)
      [] type = "float" -> IF IsNumber(v) THEN V("float", v.n) ELSE v
      [] type = "integer" -> ToInteger(v)
      [] type = "boolean" -> ToBoolean(v)
      [] OTHER -> v
HasType(v, type) ==
    CASE type = "float" -> v.type \in {"integer", "float", "boolean"}
      [] type = "integer" -> v.type \in {"integer", "boolean"}
      [] type \in {"boolean", "string"} -> v.type = type
      [] OTHER -> TRUE

ForColumn(v, type) ==
    CASE type = "BOOLEAN" ->
            LET b == ToBoolean(TextOf(v)) IN
            IF v.type = "boolean" THEN v ELSE IF b.type = "boolean" /\ v.type # "float" THEN b ELSE Refused
      [] type = "TEXT" -> TextOf(v)
      [] type = "REAL" -> IF IsNumber(v) THEN V("float", v.n) ELSE Refused
      [] type = "INTEGER" -> IF IsNumber(v) /\ Whole(v.n) THEN V("integer", v.n) ELSE Refused

\* Mutant of Mirrored: a text is mirrored as the number it reads as.
MirroredNumber(v) == V("float", v.n)
Mirrored(v) == IF v.type = "string" THEN v ELSE V("float", v.n)

----------------------------------------------------------------------------
(* Files. *)

BlankCell == [form |-> "blank", n |-> 0]
CellOf(v) ==
    CASE v.type = "integer" -> [form |-> "int", n |-> v.n]
      [] v.type = "float" -> [form |-> "float", n |-> v.n]
      [] v.type = "boolean" -> [form |-> "bool", n |-> v.n]
      [] v.type = "string" -> [form |-> "text", n |-> v.n]
      [] OTHER -> BlankCell

\* Mutant of FirstCell: the last sheet's value is kept.
FirstCellLast(rows, t, c) ==
    LET given == SelectSeq(rows, LAMBDA r : r.at = t /\ r.cells[c] # BlankCell)
    IN IF given = <<>> THEN BlankCell ELSE Last(given).cells[c]
FirstCell(rows, t, c) ==
    LET given == SelectSeq(rows, LAMBDA r : r.at = t /\ r.cells[c] # BlankCell)
    IN IF given = <<>> THEN BlankCell ELSE Head(given).cells[c]

\* consolidate_sheets(): one row for each time any of the sheets has.
Consolidated(sheets) ==
    LET rows == FlattenSeq([i \in DOMAIN sheets |->
                   IF sheets[i].timed THEN SelectSeq(sheets[i].rows, LAMBDA r : r.at # NoTime) ELSE <<>>])
        times == SetToSortSeq({rows[i].at : i \in DOMAIN rows}, <)
    IN [i \in DOMAIN times |-> [at |-> times[i], cells |-> [c \in Range(ColumnsOf) |-> FirstCell(rows, times[i], c)]]]

\* parse_upload(): a single sheet is taken as it is.
Parsed(book) == IF Len(book) = 1 THEN book[1].rows ELSE Consolidated(book)

NoFrame == [kind |-> "none"]

\* timeshift_upload()
UploadWorkbook(book) ==
    /\ importing.at = "idle" /\ Parsed(book) # <<>>
    /\ frame' = [kind |-> "eg4", columns |-> ColumnsOf, rows |-> Parsed(book), book |-> book]
    /\ UNCHANGED <<dest, points, narrow, csv, exporting, importing, paused, unpaused, shiftBounds>>

UploadExport ==
    /\ importing.at = "idle" /\ csv.kind = "csv" /\ frame' = csv
    /\ UNCHANGED <<dest, points, narrow, csv, exporting, importing, paused, unpaused, shiftBounds>>

\* timeshift_discard_upload(); or the server was restarted. An import that has begun
\* holds the frame.
DiscardUpload ==
    /\ frame # NoFrame /\ frame' = NoFrame
    /\ UNCHANGED <<dest, points, narrow, csv, exporting, importing, paused, unpaused, shiftBounds>>

\* suggest_field_mapping(), as the admin takes it over: a column left without a field is
\* ignored, or becomes a field of its own where that may be.
KnownFields == IF dest = "wide" THEN DOMAIN ColumnType ELSE FieldsOf(Table)
Suggested(column) ==
    IF frame.kind = "csv" THEN (IF column \in KnownFields THEN column ELSE NoField)
    ELSE IF Guess[column] \in KnownFields THEN Guess[column] ELSE NoField
NewField(column) == IF dest = "wide" \/ column = "time" THEN NoField ELSE column

----------------------------------------------------------------------------
(* Export. *)

PointsAt(s, t) == {p \in s : p[1] = t}
RowAt(s, t) ==
    [at |-> t, cells |-> [f \in FieldsOf(s) |-> IF \E p \in PointsAt(s, t) : p[2] = f
        THEN CellOf((CHOOSE p \in PointsAt(s, t) : p[2] = f)[3]) ELSE BlankCell]]
Inside(s, slice) == {p \in s : slice.from <= p[1] /\ (p[1] < slice.to \/ (slice.closed /\ p[1] = slice.to))}
TimesOf(s) == SetToSortSeq({p[1] : p \in s}, <)

NotExporting == [at |-> "idle"]

\* timeshift_export_csv(): to the end of the last second, which the InfluxQL of v1
\* writes in whole seconds.
StartExport(r) ==
    /\ exporting = NotExporting /\ exports < MaxExports /\ exports' = exports + 1
    /\ LET from == r.from * Ticks
           to == IF dest = "v1" THEN r.to * Ticks ELSE r.to * Ticks + Ticks - 1
       IN exporting' = [at |-> "query", slices |-> <<[from |-> from, to |-> to, closed |-> TRUE]>>,
             rows |-> <<>>, shift |-> (r.target - r.from) * Ticks,
             asked |-> {p \in Table : from <= p[1] /\ p[1] < (r.to + 1) * Ticks}, had |-> FieldsOf(Table)]
    /\ UNCHANGED <<dest, points, narrow, frame, csv, importing, paused, unpaused, imports, writeFaults>>

TooManyFiles(slice) ==
    dest = "v3" /\ Cardinality({p[1] \div FileSpan : p \in Inside(points, slice)}) > MaxFiles

\* Mutant of Halves: both halves are open.
HalvesOpen(slice) ==
    LET middle == (slice.from + slice.to) \div 2
    IN <<[slice EXCEPT !.to = middle, !.closed = FALSE], [slice EXCEPT !.from = middle, !.closed = FALSE]>>
Halves(slice) ==
    LET middle == (slice.from + slice.to) \div 2
    IN <<[slice EXCEPT !.to = middle, !.closed = FALSE], [slice EXCEPT !.from = middle]>>

\* _query_v3_time_slices(), a query at a time; v1 and TimescaleDB ask once.
QuerySlice ==
    /\ exporting.at = "query" /\ exporting.slices # <<>>
    /\ LET slice == Head(exporting.slices)
           rest == Tail(exporting.slices)
           times == TimesOf(Inside(Table, slice))
       IN exporting' =
            IF ~TooManyFiles(slice)
               THEN [exporting EXCEPT !.slices = rest,
                        !.rows = @ \o [i \in DOMAIN times |-> RowAt(Table, times[i])]]
            ELSE IF slice.to - slice.from <= MinSlice THEN NotExporting
            ELSE [exporting EXCEPT !.slices = Halves(slice) \o rest]
    /\ UNCHANGED <<dest, points, narrow, frame, csv, importing, paused, unpaused, shiftBounds>>

\* The rows are shifted and saved: `time`, then the fields as they appear.
FinishExport ==
    /\ exporting.at = "query" /\ exporting.slices = <<>> /\ exporting' = NotExporting
    /\ LET fields == UNION {DOMAIN exporting.rows[i].cells : i \in DOMAIN exporting.rows}
           shifted(r) == [at |-> r.at + exporting.shift,
                          cells |-> [f \in fields |-> IF f \in DOMAIN r.cells THEN r.cells[f] ELSE BlankCell]]
       IN csv' = [kind |-> "csv", columns |-> SetToSeq(fields),
                  rows |-> [i \in DOMAIN exporting.rows |-> shifted(exporting.rows[i])],
                  asked |-> {<<p[1] + exporting.shift, p[2], p[3]>> : p \in exporting.asked \cap Table}, had |-> exporting.had]
    /\ UNCHANGED <<dest, points, narrow, frame, importing, paused, unpaused, shiftBounds>>

----------------------------------------------------------------------------
(* Import. *)

NotImporting == [at |-> "idle"]

\* A naive time of an EG4 file is local, one of an exported file UTC.
Utc(t) == IF frame.kind = "csv" THEN t ELSE IF t \in DOMAIN ZoneSteps THEN ZoneSteps[t] ELSE t + Offset

\* load_influx_field_types(): the types v1 reports may be those of several shards.
TypesNow(f) == {p[3].type : p \in {q \in points : q[2] = f}}

\* A cell, ready to be written; build_points() and build_points_timescale().
Ready(cell, field, types) ==
    LET v == Normalized(cell) IN
    IF v = NoValue THEN NoValue
    ELSE CASE Influx /\ field \in DOMAIN types ->
                 LET c == CoercedTo(v, types[field]) IN IF HasType(c, types[field]) THEN c ELSE Refused
           [] dest = "wide" -> IF field \in DOMAIN ColumnType THEN ForColumn(v, ColumnType[field]) ELSE Refused
           [] OTHER -> v

\* A later column takes the place of an earlier one of the same field.
FieldsOfRow(row, mapping, types) ==
    LET written(c) == mapping[c] # NoField /\ Ready(row.cells[c], mapping[c], types) \notin {NoValue, Refused}
        columns == SelectSeq(frame.columns, written)
        lastOf(f) == Last(SelectSeq(columns, LAMBDA c : mapping[c] = f))
    IN [f \in {mapping[c] : c \in Range(columns)} |-> Ready(row.cells[lastOf(f)], f, types)]

BuiltPoints(mapping, types, shift) ==
    LET readable(r) ==
            r.at # NoTime /\ Utc(r.at) # TwiceThere /\ DOMAIN FieldsOfRow(r, mapping, types) # {}
        rows == SelectSeq(frame.rows, readable)
    IN [i \in DOMAIN rows |->
           [at |-> Utc(rows[i].at) + shift, fields |-> FieldsOfRow(rows[i], mapping, types)]]

\* timeshift_import(), up to the write.
StartImport(shift, widely) ==
    /\ importing.at = "idle" /\ frame # NoFrame /\ imports < MaxImports /\ imports' = imports + 1
    /\ LET mapping == [c \in Range(frame.columns) |->
                          IF Suggested(c) = NoField /\ widely THEN NewField(c) ELSE Suggested(c)]
       IN \E types \in [FieldsOf(points) -> {"integer", "float", "boolean", "string"}] \cup {<<>>} :
          /\ types = <<>> => ~Influx \/ TypesMayFail \/ points = {}
          /\ types # <<>> => Influx /\ \A f \in DOMAIN types : types[f] \in TypesNow(f)
          /\ LET built == BuiltPoints(mapping, types, shift) IN
             /\ built # <<>>
             /\ importing' = [at |-> IF Influx THEN "write" ELSE "prepare", points |-> built,
                   done |-> 0, floated |-> {}, repeated |-> FALSE, ended |-> "no", meanwhile |-> {},
                   types |-> types, mapping |-> mapping, shift |-> shift, source |-> frame]
    /\ UNCHANGED <<dest, points, narrow, frame, csv, exporting, paused, unpaused, exports, writeFaults>>

\* The store with the fields of a point written to it.
PutIn(s, t, fields) ==
    {p \in s : ~(p[1] = t /\ p[2] \in DOMAIN fields)} \cup {<<t, f, fields[f]>> : f \in DOMAIN fields}
Put(s, ps) == FoldLeft(LAMBDA acc, p : PutIn(acc, p.at, p.fields), s, ps)
MirrorOf(ps) == [i \in DOMAIN ps |-> [ps[i] EXCEPT !.fields = [f \in DOMAIN ps[i].fields |-> Mirrored(ps[i].fields[f])]]]

EndImport(how) == importing' = [importing EXCEPT !.at = "ended", !.ended = how]
Faulty == writeFaults < MaxWriteFaults /\ writeFaults' = writeFaults + 1

\* Points whose value for a field is of another type than the field has, in the order
\* they arrive; v1 drops them and writes the others.
Clashes(s, p) == \E f \in DOMAIN p.fields : \E q \in s : q[2] = f /\ q[3].type # p.fields[f].type
Landing(s, ps) == FoldLeft(LAMBDA acc, p : IF Clashes(acc, p) THEN acc ELSE PutIn(acc, p.at, p.fields), s, ps)
Clashing(s, ps) ==
    LET after == Landing(s, ps)
    IN {f \in UNION {DOMAIN ps[i].fields : i \in DOMAIN ps} :
           \E i \in DOMAIN ps : f \in DOMAIN ps[i].fields /\ \E q \in after : q[2] = f /\ q[3].type # ps[i].fields[f].type}
Floated(ps, f) ==
    [i \in DOMAIN ps |-> [ps[i] EXCEPT !.fields = [g \in DOMAIN @ |->
        IF g = f /\ @[g].type = "integer" THEN V("float", @[g].n) ELSE @[g]]]]

\* write_points_v1(): batches; a field of conflicting type is made float in all points,
\* and the writing starts again.
WriteBatch ==
    /\ importing.at = "write" /\ dest = "v1"
    /\ LET last == IF importing.done + BatchPoints < Len(importing.points)
                      THEN importing.done + BatchPoints ELSE Len(importing.points)
           batch == SubSeq(importing.points, importing.done + 1, last)
       IN \/ /\ points' = Landing(points, batch)
             /\ \/ /\ Clashing(points, batch) = {} /\ UNCHANGED writeFaults
                   /\ IF last = Len(importing.points) THEN EndImport("done")
                      ELSE importing' = [importing EXCEPT !.done = last]
                \/ /\ UNCHANGED writeFaults
                   /\ \E f \in Clashing(points, batch) :
                         importing' = [importing EXCEPT !.points = Floated(@, f), !.done = 0,
                                         !.floated = @ \cup {f}, !.repeated = @ \/ f \in importing.floated]
                \/ Faulty /\ EndImport("failed")        \* the answer is lost
          \/ UNCHANGED points /\ Faulty /\ EndImport("failed")
    /\ UNCHANGED <<dest, narrow, frame, csv, exporting, paused, unpaused, imports, exports>>

\* write_points_v3(): all in one write, which conflicting types spoil.
WriteAll ==
    /\ importing.at = "write" /\ dest = "v3"
    /\ \/ /\ Clashing(points, importing.points) = {} /\ points' = Put(points, importing.points)
          /\ \/ EndImport("done") /\ UNCHANGED writeFaults
             \/ Faulty /\ EndImport("failed")
       \/ /\ Clashing(points, importing.points) # {} /\ EndImport("failed")
          /\ UNCHANGED <<points, writeFaults>>
       \/ UNCHANGED points /\ Faulty /\ EndImport("failed")
    /\ UNCHANGED <<dest, narrow, frame, csv, exporting, paused, unpaused, imports, exports>>

\* write_points_timescale(): the compression jobs are paused, one table after the other,
\* and the chunks of the range decompressed, as far as that works.
PrepareTables ==
    /\ importing.at = "prepare" /\ importing' = [importing EXCEPT !.at = "write"]
    /\ \E ts \in SUBSET {dest, "narrow"} :
          /\ IF ts = {dest, "narrow"} THEN UNCHANGED writeFaults ELSE Faulty
          /\ paused' = paused \cup ts
    /\ UNCHANGED <<dest, points, narrow, frame, csv, exporting, unpaused, imports, exports>>

\* One transaction: the rows of the wide table, and their narrow mirror.
WriteRows ==
    /\ importing.at = "write" /\ dest \in {"wide", "narrow"}
    /\ \/ /\ points' = (IF dest = "wide" THEN Put(points, importing.points) ELSE points)
          /\ narrow' = Put(narrow, MirrorOf(importing.points))
          /\ \/ importing' = [importing EXCEPT !.at = "resume", !.ended = "done"] /\ UNCHANGED writeFaults
             \/ Faulty /\ importing' = [importing EXCEPT !.at = "resume", !.ended = "failed"]
       \/ /\ Faulty /\ UNCHANGED <<points, narrow>>
          /\ importing' = [importing EXCEPT !.at = "resume", !.ended = "failed"]
    /\ UNCHANGED <<dest, frame, csv, exporting, paused, unpaused, imports, exports>>

\* The finally of it.
ResumeJobs ==
    /\ importing.at = "resume" /\ importing' = [importing EXCEPT !.at = "ended"]
    /\ \/ paused' = {} /\ UNCHANGED <<unpaused, writeFaults>>
       \/ \E t \in paused : Faulty /\ paused' = {t} /\ unpaused' = unpaused \cup {t}
    /\ UNCHANGED <<dest, points, narrow, frame, csv, exporting, imports, exports>>

\* The answer is with the admin.
ImportAnswered ==
    /\ importing.at = "ended" /\ importing' = NotImporting
    /\ UNCHANGED <<dest, points, narrow, frame, csv, exporting, paused, unpaused, shiftBounds>>

----------------------------------------------------------------------------
\* The bridge writes a reading: to both tables of its protocol, if it has a wide one, and
\* in the narrow table not over what is there.
LiveWrite(t) ==
    /\ PointsAt(points, t) = {} /\ PointsAt(narrow, t) = {}
    /\ LET reading == {<<t, f, LiveValues[f]>> : f \in DOMAIN LiveValues} IN
       /\ points' = (IF dest = "narrow" THEN points ELSE points \cup reading)
       /\ narrow' = (IF Influx THEN narrow ELSE narrow \cup {<<p[1], p[2], Mirrored(p[3])>> : p \in reading})
    /\ importing' = (IF importing.at = "idle" THEN importing ELSE [importing EXCEPT !.meanwhile = @ \cup {t}])
    /\ UNCHANGED <<dest, frame, csv, exporting, paused, unpaused, shiftBounds>>

TimeShiftInit ==
    /\ dest \in Destinations
    /\ points = (IF dest = "narrow" THEN {} ELSE Stored)
    /\ narrow = (IF Influx THEN {} ELSE {<<p[1], p[2], Mirrored(p[3])>> : p \in Stored})
    /\ frame = NoFrame /\ csv = NoFrame /\ exporting = NotExporting /\ importing = NotImporting
    /\ paused = {} /\ unpaused = {} /\ imports = 0 /\ exports = 0 /\ writeFaults = 0

TimeShiftNext ==
    \/ (\E b \in Workbooks : UploadWorkbook(b)) \/ UploadExport \/ DiscardUpload
    \/ (\E r \in ExportRanges : StartExport(r)) \/ QuerySlice \/ FinishExport
    \/ \E d \in Shifts : \E widely \in BOOLEAN : StartImport(d, widely)
    \/ WriteBatch \/ WriteAll \/ PrepareTables \/ WriteRows \/ ResumeJobs \/ ImportAnswered
    \/ \E t \in LiveTimes : LiveWrite(t)

TimeShiftSpec == TimeShiftInit /\ [][TimeShiftNext]_shiftVars

----------------------------------------------------------------------------
(* Properties. *)

IsFunction(s) == \A p, q \in s : p[1] = q[1] /\ p[2] = q[2] => p = q
TimeShiftTypeOK ==
    /\ dest \in Destinations /\ IsFunction(points) /\ IsFunction(narrow)
    /\ dest = "wide" => FieldsOf(points) \subseteq DOMAIN ColumnType
    /\ exporting.at \in {"idle", "query"}
    /\ importing.at \in {"idle", "prepare", "write", "resume", "ended"}
    /\ paused \subseteq {"wide", "narrow"} /\ unpaused \subseteq {"wide", "narrow"}

\* No compression job is left paused by an import, but for one that would not resume.
JobsAreResumed == importing.at \in {"idle", "ended"} => paused \subseteq unpaused

Ends == importing.at # "ended" /\ importing'.at = "ended"
ImportDone == Ends /\ importing'.ended = "done"
Keys(ps) == UNION {{<<ps[i].at, f>> : f \in DOMAIN ps[i].fields} : i \in DOMAIN ps}
StoredKeys(s) == {<<p[1], p[2]>> : p \in s}

\* An import changes what its file names and nothing else; one that is done has written
\* all of it, in the last version, and one into TimescaleDB is all or nothing.
ImportIsExact ==
    /\ importing.at = "write" /\ <<points, narrow>>' # <<points, narrow>> /\ importing'.meanwhile = importing.meanwhile =>
          /\ StoredKeys((points' \ points) \cup (points \ points') \cup (narrow' \ narrow) \cup (narrow \ narrow'))
                \subseteq Keys(importing.points)
          /\ dest \in {"wide", "narrow"} =>
                Keys(importing.points) \subseteq (IF dest = "wide" THEN StoredKeys(points') ELSE Keys(importing.points))
                                                    \cap StoredKeys(narrow')
    /\ ImportDone => \A k \in Keys(importing.points) :
          LET p == Last(SelectSeq(importing.points, LAMBDA q : q.at = k[1] /\ k[2] \in DOMAIN q.fields)) IN
          \/ k[1] \in importing.meanwhile
          \/ \E q \in Table' : <<q[1], q[2]>> = k /\ q[3].n = p.fields[k[2]].n

\* What an export was asked for and stayed where it was is there again when the file has
\* been imported without another change, a shift away, value for value.
ExportComesBack ==
    ImportDone /\ importing.source.kind = "csv" /\ (Influx => importing.types # <<>>) =>
        \A p \in importing.source.asked :
            LET t == p[1] + importing.shift IN
            t \in importing.meanwhile \/ importing.mapping[p[2]] # p[2] \/ <<t, p[2], p[3]>> \in Table'

\* Where two sheets disagree the earlier one is right.
EarlierSheetWins ==
    ImportDone /\ importing.source.kind = "eg4" /\ Len(importing.source.book) > 1 =>
        \A i \in DOMAIN importing.source.book : \A r \in Range(importing.source.book[i].rows) :
            \A c \in DOMAIN r.cells :
                LET f == importing.mapping[c]
                    at == r.at + Offset + importing.shift
                IN /\ importing.source.book[i].timed /\ r.at \notin DOMAIN ZoneSteps \cup {NoTime}
                   /\ f # NoField /\ r.cells[c].form \in {"int", "float"}
                   /\ \A j \in 1..(i - 1) : \A s \in Range(importing.source.book[j].rows) :
                         s.at = r.at => s.cells[c] = BlankCell
                   /\ \A d \in DOMAIN importing.mapping : importing.mapping[d] = f => d = c
                   /\ at \notin importing.meanwhile
                   => \E q \in Table' : q[1] = at /\ q[2] = f /\ q[3].n = r.cells[c].n

\* A field is made float once: doing it again would change nothing, and for ever.
ConversionHelps == importing.at = "write" => ~importing.repeated

\* The five together.
TimeShiftIsTrue ==
    [][JobsAreResumed' /\ ConversionHelps' /\ ImportIsExact /\ ExportComesBack /\ EarlierSheetWins]_shiftVars
=============================================================================
