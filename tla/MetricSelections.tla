-------------------------- MODULE MetricSelections --------------------------
(***************************************************************************)
(* Which metrics of a device are written (W), masked (M) or screened (S):  *)
(* the selection rows of the staging database, the registers they belong   *)
(* to, and the filter files and protocol CSV a commit writes and a scan    *)
(* reads back.                                                             *)
(***************************************************************************)
EXTENDS Naturals

CONSTANTS
    Devices,       \* devices of one protocol
    CsvRows,       \* registers of the protocol's CSV
    Synthetics,    \* metrics without a register
    Described,     \* CSV rows with a JSON description
    DescOf,        \* [Described -> the description's row]
    NameOf,        \* [rows -> variable names]; the registry types may share one
    WritableRows,  \* CSV rows the protocol allows to write
    MaxToggles,    \* bound: what the user changes
    MaxCommits,    \* bound: commits
    MaxDeaths      \* bound: crashes

Descriptions == {DescOf[r] : r \in Described}
AllRows == CsvRows \cup Synthetics \cup Descriptions

ASSUME SelectionAssumption ==
    /\ Described \cup WritableRows \subseteq CsvRows
    /\ CsvRows \cap (Synthetics \cup Descriptions) = {} /\ Synthetics \cap Descriptions = {}
    /\ DOMAIN NameOf = AllRows /\ {MaxToggles, MaxCommits, MaxDeaths} \subseteq Nat

VARIABLES
    registers,     \* ProtocolRegister rows of the database, with their definitions
    edited,        \* those with is_dirty
    leaving,       \* those with pending_delete
    selections,    \* DeviceProtocolSelection rows
    csvFile,       \* the protocol's CSV: [rows -> definitions]
    filters,       \* mask, screen and writable files: [Marks -> [Devices -> names]]
    commitStep,    \* how far commit_all() has come
    up,            \* the web server is up
    discarded,     \* history: <<device, row>> whose staged marks a discard left as they were, until a scan
    toggles, commits, deaths  \* count what the bounds bound

selectionVars == <<registers, edited, leaving, selections, csvFile, filters, commitStep, up,
                   discarded, toggles, commits, deaths>>

Marks == {"write", "mask", "screen"}
Definitions == {"old", "new"}
Unmarked == [m \in Marks |-> FALSE]
Selection(marks, onDisk) == [on |-> marks, disk |-> onDisk, dirty |-> marks # onDisk]
Quiet == up /\ commitStep = "idle"

\* The rows of f, and of g those f has not.
Over(f, g) == [x \in DOMAIN f \cup DOMAIN g |-> IF x \in DOMAIN f THEN f[x] ELSE g[x]]

----------------------------------------------------------------------------
(* The scan                                                                *)

\* _upsert_device_protocol_selection(): only a dirty row keeps its marks.
Rescanned(sels, dev, r) ==
    LET found == [m \in Marks |-> NameOf[r] \in filters[m][dev]]
    IN IF <<dev, r>> \in DOMAIN sels /\ sels[<<dev, r>>].dirty
       THEN Selection(sels[<<dev, r>>].on, found) ELSE Selection(found, found)

\* _upsert_protocol_register(): a row being edited keeps its definition.
ScannedRegisters == Over([r \in edited \cap DOMAIN registers |-> registers[r]], Over(csvFile, registers))

\* _sync_device_protocol_selections()
ScannedSelections ==
    Over([p \in Devices \X DOMAIN ScannedRegisters |-> Rescanned(selections, p[1], p[2])], selections)

SelectionInit ==
    /\ csvFile = [r \in CsvRows |-> "old"] /\ registers = csvFile
    /\ edited = {} /\ leaving = {}
    /\ filters = [m \in Marks |-> [dev \in Devices |-> {}]]
    /\ selections = [p \in Devices \X CsvRows |-> Selection(Unmarked, Unmarked)]
    /\ commitStep = "idle" /\ up = TRUE /\ discarded = {}
    /\ toggles = 0 /\ commits = 0 /\ deaths = 0

Scan ==
    /\ Quiet
    /\ registers' = ScannedRegisters /\ selections' = ScannedSelections /\ discarded' = {}
    /\ UNCHANGED <<edited, leaving, csvFile, filters, commitStep, up, toggles, commits, deaths>>

----------------------------------------------------------------------------
(* Changes                                                                 *)

UserDecides == Quiet /\ toggles < MaxToggles /\ toggles' = toggles + 1

\* device_mask_in_use()
MaskInUse(dev) == \E p \in DOMAIN selections : p[1] = dev /\ selections[p].on["mask"]

\* _toggle_selection_for_row(): mask and screen exclude each other.
Marked(sels, dev, r, mark, value) ==
    LET old == IF <<dev, r>> \in DOMAIN sels THEN sels[<<dev, r>>] ELSE Selection(Unmarked, Unmarked)
        other == IF mark = "mask" THEN "screen" ELSE "mask"
        on == IF value /\ mark # "write" THEN [old.on EXCEPT ![mark] = TRUE, ![other] = FALSE]
              ELSE [old.on EXCEPT ![mark] = value]
    IN Over([p \in {<<dev, r>>} |-> Selection(on, old.disk)], sels)

\* The row a mask or screen mark is carried to.
Counterparts(r) ==
    IF r \in Described THEN {DescOf[r]}
    ELSE {c \in Described : DescOf[c] = r} \cap DOMAIN registers

\* toggle_register() and create_and_toggle_virtual_register(): a synthetic metric or a
\* description gets its register row with its first mark.
Toggle(dev, r, mark, value) ==
    /\ UserDecides
    /\ r \in DOMAIN registers \cup Synthetics \cup Descriptions
    /\ mark = "write" /\ value => r \in WritableRows
    /\ mark = "screen" /\ value => ~MaskInUse(dev)
    /\ LET carried == IF mark = "write" THEN {} ELSE Counterparts(r)
           one == Marked(selections, dev, r, mark, value)
       IN /\ selections' = IF carried = {} THEN one
                           ELSE Marked(one, dev, CHOOSE c \in carried : TRUE, mark, value)
          /\ registers' = Over(registers, [v \in (carried \cup {r}) \ CsvRows |-> "old"])
    /\ UNCHANGED <<edited, leaving, csvFile, filters, commitStep, up, discarded, commits, deaths>>

\* toggle_register_pending_delete()
StageDelete(r, value) ==
    /\ UserDecides /\ r \in CsvRows \cap DOMAIN registers
    /\ leaving' = IF value THEN leaving \cup {r} ELSE leaving \ {r}
    /\ UNCHANGED <<registers, edited, selections, csvFile, filters, commitStep, up, discarded,
                   commits, deaths>>

\* update_protocol_register_field()
EditRegister(r) ==
    /\ UserDecides /\ r \in CsvRows \cap DOMAIN registers
    /\ registers' = [registers EXCEPT ![r] = "new"] /\ edited' = edited \cup {r}
    /\ UNCHANGED <<leaving, selections, csvFile, filters, commitStep, up, discarded, commits, deaths>>

Pending == edited \cup leaving # {} \/ \E p \in DOMAIN selections : selections[p].dirty

\* discard_changes(), of registers and selections: the flags, not the values.
DiscardMarks ==
    /\ Quiet /\ Pending
    /\ edited' = {} /\ leaving' = {}
    /\ selections' = [p \in DOMAIN selections |-> [selections[p] EXCEPT !.dirty = FALSE]]
    /\ discarded' = discarded \cup {p \in DOMAIN selections : selections[p].dirty}
    /\ UNCHANGED <<registers, csvFile, filters, commitStep, up, toggles, commits, deaths>>

----------------------------------------------------------------------------
(* Commit                                                                  *)

\* The names a device marks and marks nowhere else not; descriptions are left to their code.
FilterNames(dev, mark) ==
    LET mine == {r \in DOMAIN registers \ Descriptions : <<dev, r>> \in DOMAIN selections}
        yes == {r \in mine : selections[<<dev, r>>].on[mark]}
    IN IF mark = "write" THEN {NameOf[r] : r \in yes \cap WritableRows}
       ELSE {NameOf[r] : r \in yes} \ {NameOf[r] : r \in mine \ yes}

NextFilters == [m \in Marks |-> [dev \in Devices |-> FilterNames(dev, m)]]

\* _write_mask_screen_files(), _write_writable_csv()
CommitFilters ==
    /\ Quiet /\ Pending /\ commits < MaxCommits /\ commits' = commits + 1
    /\ filters' = NextFilters /\ commitStep' = "filters"
    /\ UNCHANGED <<registers, edited, leaving, selections, csvFile, up, discarded, toggles, deaths>>

\* _write_protocol_csvs(), if a register was edited or leaves; virtual rows never get in.
CommitCsv ==
    /\ commitStep = "filters" /\ commitStep' = "csv"
    /\ csvFile' = IF edited \cup leaving = {} THEN csvFile
                  ELSE [r \in (DOMAIN registers \cap CsvRows) \ leaving |-> registers[r]]
    /\ UNCHANGED <<registers, edited, leaving, selections, filters, up, discarded, toggles,
                   commits, deaths>>

\* _delete_pending_protocol_registers() takes the selections of every device along.
KeptSelections == {p \in DOMAIN selections : p[2] \notin leaving}

\* Mutant of Settled: the disk marks wait for a scan.
SettledFlag(sel) == [sel EXCEPT !.dirty = FALSE]

\* _reset_dirty_flags()
Settled(sel) == IF sel.dirty THEN Selection(sel.on, sel.on) ELSE sel

\* The database commit.
CommitMarks ==
    /\ commitStep = "csv" /\ commitStep' = "idle"
    /\ registers' = [r \in DOMAIN registers \ leaving |-> registers[r]]
    /\ selections' = [p \in KeptSelections |-> Settled(selections[p])]
    /\ edited' = {} /\ leaving' = {}
    /\ UNCHANGED <<csvFile, filters, up, discarded, toggles, commits, deaths>>

\* The files stay as they are, the transaction is rolled back.
Die ==
    /\ up /\ deaths < MaxDeaths /\ deaths' = deaths + 1
    /\ up' = FALSE /\ commitStep' = "idle"
    /\ UNCHANGED <<registers, edited, leaving, selections, csvFile, filters, discarded, toggles, commits>>

\* A start scans before it serves.
StartAgain ==
    /\ ~up /\ up' = TRUE
    /\ registers' = ScannedRegisters /\ selections' = ScannedSelections /\ discarded' = {}
    /\ UNCHANGED <<edited, leaving, csvFile, filters, commitStep, toggles, commits, deaths>>

SelectionNext ==
    \/ Scan \/ DiscardMarks \/ CommitFilters \/ CommitCsv \/ CommitMarks \/ Die \/ StartAgain
    \/ \E dev \in Devices, r \in AllRows, m \in Marks, b \in BOOLEAN : Toggle(dev, r, m, b)
    \/ \E r \in CsvRows : EditRegister(r) \/ \E b \in BOOLEAN : StageDelete(r, b)

SelectionSpec == SelectionInit /\ [][SelectionNext]_selectionVars

----------------------------------------------------------------------------
(* What should hold                                                        *)

\* The types; a description or a synthetic metric is never in the protocol's CSV.
SelectionTypeOK ==
    /\ DOMAIN registers \subseteq AllRows /\ DOMAIN csvFile \subseteq CsvRows
    /\ \A r \in DOMAIN registers : registers[r] \in Definitions
    /\ \A r \in DOMAIN csvFile : csvFile[r] \in Definitions
    /\ edited \cup leaving \subseteq DOMAIN registers \cap CsvRows
    /\ DOMAIN selections \subseteq Devices \X AllRows
    /\ \A p \in DOMAIN selections :
          selections[p] \in [on : [Marks -> BOOLEAN], disk : [Marks -> BOOLEAN], dirty : BOOLEAN]
    /\ commitStep \in {"idle", "filters", "csv"} /\ up \in BOOLEAN

\* "Mask and screen are mutually exclusive for a register": by toggles, by the carried marks of
\* a description, and by what a scan reads back from two files.
MaskOrScreen ==
    \A p \in DOMAIN selections : ~(selections[p].on["mask"] /\ selections[p].on["screen"])

\* No device keeps a selection of a register that is gone (_delete_pending_protocol_registers()).
SelectionsHaveRegisters == \A p \in DOMAIN selections : p[2] \in DOMAIN registers

OwnName(r) == \A q \in AllRows \ {r} : NameOf[q] # NameOf[r]

\* The disk marks of a selection are what the device's files say: the state a commit believes
\* to have written is the one the gateway reads. Not of a selection whose edit was discarded, of
\* a description, and of a name two registry types share.
DiskMarksAreTrue ==
    Quiet => \A p \in DOMAIN selections \ discarded : p[2] \notin Descriptions /\ OwnName(p[2]) =>
        \A m \in Marks : ~(m = "write" /\ p[2] \notin WritableRows) =>
            (selections[p].disk[m] <=> NameOf[p[2]] \in filters[m][p[1]])

\* "Selecting either a description or its code always selects both" (toggle_register_field()).
CodeAndDescTogether ==
    Quiet => \A dev \in Devices, r \in Described :
        LET code == <<dev, r>>
            desc == <<dev, DescOf[r]>>
        IN {code, desc} \subseteq DOMAIN selections =>
              \A m \in {"mask", "screen"} : selections[code].on[m] = selections[desc].on[m]

\* A filter file names only registers there are: "a single stale line can take down every metric
\* for a device" (_sync_orphaned_filter_names()).
NoStaleFilterName ==
    Quiet => \A m \in Marks, dev \in Devices :
        filters[m][dev] \subseteq {NameOf[r] : r \in DOMAIN registers}

\* With nothing pending a commit "would only reproduce byte-identical output on disk"
\* (_has_dirty_config_state()).
CleanMarksAreWritten == Quiet /\ ~Pending => NextFilters = filters

\* A marked metric is in the file once it is committed.
MarkReachesFile ==
    Quiet /\ ~Pending => \A p \in DOMAIN selections \ discarded :
        selections[p].on["mask"] /\ p[2] \notin Descriptions => NameOf[p[2]] \in filters["mask"][p[1]]

\* The selections the pages show are consistent and are those of the files the gateway reads:
\* toggle_register_field(), commit_all() and the scanner agree on them.
SelectionsAreTrue == MaskOrScreen /\ SelectionsHaveRegisters /\ DiskMarksAreTrue
=============================================================================
