--------------------------- MODULE ConfigStaging ---------------------------
(***************************************************************************)
(* The settings of the web server: config.cfg, the staging database's      *)
(* Setting rows, and what moves between them: edits, commit, discard,      *)
(* rollback, the scanner, a restart.                                       *)
(***************************************************************************)
EXTENDS Naturals, Sequences, SequencesExt

CONSTANTS
    DeviceKeys,    \* keys of a scraper's section that its transport defines
    OtherKeys,     \* keys of that section another transport defines
    GeneralKeys,   \* keys of [general]
    BridgeKeys,    \* keys of a bridge's section, all defined by its transport
    BridgeRef,     \* the "bridge" key of the scraper, one of DeviceKeys
    Refers,        \* the value of BridgeRef that names the bridge
    SettingValues, \* nonempty values; Refers and DefaultValue among them
    DefaultValue,  \* what a key is created or activated with
    Committed,     \* the keys config.cfg has at first
    EditsOverlap,  \* TRUE: an edit's request may read a row before a commit or scan writes it
    ScansOverlap,  \* TRUE: a scan of the watcher may run beside a rollback's
    Mishaps,       \* bound: edits of config.cfg by hand and crashes of the process
    MaxChanges,    \* bound: what the user changes
    MaxBackups     \* bound: recorded backups, so commits and rollbacks

SettingKeys == DeviceKeys \cup OtherKeys \cup GeneralKeys \cup BridgeKeys
Blank == "blank"

ASSUME StagingAssumption ==
    /\ BridgeRef \in DeviceKeys /\ {Refers, DefaultValue} \subseteq SettingValues
    /\ Committed \subseteq SettingKeys /\ Blank \notin SettingValues
    /\ {EditsOverlap, ScansOverlap} \subseteq BOOLEAN
    /\ {Mishaps, MaxChanges, MaxBackups} \subseteq Nat

VARIABLES
    file,       \* config.cfg: the value of each key it has
    settings,   \* the committed Setting rows
    backups,    \* contents recorded as ConfigBackup, oldest first
    saving,     \* <<the old file>> while commit_all() holds the database's write lock, else <<>>
    edit,       \* a request that read its row: the key, the new value, the row as read
    scans,      \* what each scan does: "idle", "reading", "done"; a rollback is "copied", "recorded" first
    seenFile,   \* config.cfg and the flag as each scan read them; the file a rollback replaced
    cfgTruth,   \* _cfg_truth_flag of the one Scanner
    serving,    \* the web server is up
    unscanned,  \* history: config.cfg was changed by hand since the last scan
    raced,      \* history: a request wrote a row that had changed since it read it
    mishaps,    \* counts what Mishaps bounds
    changed     \* counts what MaxChanges bounds

stagingVars == <<file, settings, backups, saving, edit, scans, seenFile, cfgTruth, serving,
                 unscanned, raced, mishaps, changed>>

Scanners == {"watch", "rollback"}
Texts == UNION {[S -> SettingValues \cup {Blank}] : S \in SUBSET SettingKeys}
NoEdit == [key |-> "none"]
Idle == serving /\ saving = <<>> /\ \A s \in Scanners : scans[s] # "reading"

Row(onDisk, staged, on) ==
    [disk |-> onDisk, staged |-> staged, active |-> on, dirty |-> staged # onDisk, orphan |-> FALSE]

----------------------------------------------------------------------------
(* The scanner                                                             *)

\* What the UI shows for a section that is in the file.
KnownKeys(text) ==
    DOMAIN text \cup DeviceKeys \cup (IF DOMAIN text \cap BridgeKeys # {} THEN BridgeKeys ELSE {})

\* _upsert_setting(); Truth: the keys whose staged value is overwritten.
Upsert(rows, k, value, on, truth) ==
    IF k \notin DOMAIN rows THEN Row(value, value, on)
    ELSE LET staged == IF truth THEN value ELSE rows[k].staged IN Row(value, staged, on)

\* _scan(): the file's keys, the known but unset ones, and the orphans.
Merge(rows, text, truth) ==
    [k \in DOMAIN rows \cup KnownKeys(text) |->
        IF k \in DOMAIN text THEN Upsert(rows, k, text[k], TRUE, k \in truth)
        ELSE IF k \in KnownKeys(text) THEN Upsert(rows, k, Blank, FALSE, FALSE)
        ELSE [rows[k] EXCEPT !.orphan = TRUE]]

StagingInit ==
    /\ file = [k \in Committed |-> DefaultValue]
    /\ settings = Merge(<<>>, file, {})
    /\ backups = <<file>> /\ saving = <<>> /\ edit = NoEdit
    /\ scans = [s \in Scanners |-> "idle"] /\ seenFile = [s \in Scanners |-> [text |-> <<>>, truth |-> FALSE]]
    /\ cfgTruth = FALSE /\ serving = TRUE /\ unscanned = FALSE /\ raced = FALSE
    /\ mishaps = 0 /\ changed = 0

----------------------------------------------------------------------------
(* Edits. A request reads its row, waits for the database's write lock and *)
(* writes the columns it changed.                                          *)

\* update_setting(), update_general_setting(): switched off, switched on, or a new value.
Changed(row, change) ==
    IF change = "off"
    THEN [row EXCEPT !.active = FALSE, !.dirty = row.disk # Blank]
    ELSE LET staged == IF change # "on" THEN change
                       ELSE IF row.staged = Blank THEN DefaultValue ELSE row.staged
         IN [row EXCEPT !.active = TRUE, !.staged = staged, !.dirty = staged # row.disk]

\* What the pages offer: [general] and the bridge list have no switch.
Offers(k) ==
    IF k \in GeneralKeys \cup {BridgeRef} THEN SettingValues
    ELSE IF settings[k].active THEN SettingValues \cup {"off"} ELSE {"on"}

\* ensure_bridge_sections_exist(): only for a section without any row.
Seeded(rows, k, change) ==
    IF k = BridgeRef /\ change = Refers /\ DOMAIN rows \cap BridgeKeys = {}
    THEN [j \in DOMAIN rows \cup BridgeKeys |->
             IF j \in BridgeKeys THEN Row(Blank, DefaultValue, TRUE) ELSE rows[j]]
    ELSE rows

\* Of a row as it was read, only the columns that differ are written.
Patched(rows, k, seen, change) ==
    LET new == Changed(seen, change)
    IN Seeded([rows EXCEPT ![k] = [f \in DOMAIN @ |-> IF new[f] # seen[f] THEN new[f] ELSE @[f]]],
              k, change)

UserActs == changed < MaxChanges /\ changed' = changed + 1

\* The request ran while nothing else did.
ChangeSetting ==
    /\ UserActs /\ Idle
    /\ \E k \in DOMAIN settings : \E c \in Offers(k) :
          settings' = Patched(settings, k, settings[k], c)
    /\ UNCHANGED <<raced, file, backups, saving, edit, scans, seenFile, cfgTruth, serving, unscanned,
                   mishaps>>

ReadSetting ==
    /\ UserActs /\ serving /\ EditsOverlap /\ edit = NoEdit
    /\ \E k \in DOMAIN settings : \E c \in Offers(k) :
          edit' = [key |-> k, change |-> c, seen |-> settings[k]]
    /\ UNCHANGED <<raced, file, settings, backups, saving, scans, seenFile, cfgTruth, serving,
                   unscanned, mishaps>>

WriteSetting ==
    /\ Idle /\ edit # NoEdit /\ edit' = NoEdit
    /\ settings' = IF edit.key \in DOMAIN settings
                      THEN Patched(settings, edit.key, edit.seen, edit.change) ELSE settings
    /\ raced' = (raced \/ edit.key \notin DOMAIN settings \/ settings[edit.key] # edit.seen)
    /\ UNCHANGED <<file, backups, saving, scans, seenFile, cfgTruth, serving, unscanned, mishaps, changed>>

\* create_and_activate(): a key of another transport, shown as a virtual row.
CreateKey ==
    /\ UserActs /\ Idle
    /\ \E k \in OtherKeys \ DOMAIN settings :
          settings' = [j \in DOMAIN settings \cup {k} |->
                          IF j = k THEN Row(Blank, DefaultValue, TRUE) ELSE settings[j]]
    /\ UNCHANGED <<raced, file, backups, saving, edit, scans, seenFile, cfgTruth, serving, unscanned,
                   mishaps>>

\* reconcile_settings(): its change of is_orphan is committed with the session.
PreviewTransport ==
    /\ UserActs /\ Idle
    /\ settings' = [k \in DOMAIN settings |->
                       IF k \in OtherKeys THEN [settings[k] EXCEPT !.orphan = FALSE] ELSE settings[k]]
    /\ UNCHANGED <<raced, file, backups, saving, edit, scans, seenFile, cfgTruth, serving, unscanned,
                   mishaps>>

\* delete_bridge(): the section is switched off, the scraper's reference staged away.
DeleteBridge ==
    /\ UserActs /\ Idle /\ DOMAIN settings \cap BridgeKeys # {}
    /\ settings' = [k \in DOMAIN settings |->
          IF k \in BridgeKeys
          THEN [settings[k] EXCEPT !.active = FALSE, !.dirty = settings[k].disk # Blank]
          ELSE IF k = BridgeRef /\ settings[k].staged = Refers
          THEN [settings[k] EXCEPT !.staged = Blank, !.dirty = settings[k].disk # Blank]
          ELSE settings[k]]
    /\ UNCHANGED <<raced, file, backups, saving, edit, scans, seenFile, cfgTruth, serving, unscanned,
                   mishaps>>

\* delete_orphan(), of the active orphans the UI lists.
DeleteOrphan ==
    /\ UserActs /\ Idle
    /\ \E k \in DOMAIN settings :
          /\ settings[k].orphan /\ settings[k].active
          /\ settings' = [j \in DOMAIN settings \ {k} |-> settings[j]]
    /\ UNCHANGED <<raced, file, backups, saving, edit, scans, seenFile, cfgTruth, serving, unscanned,
                   mishaps>>

\* Mutant of Discarded: the value stays.
DiscardedFlag(row) == IF row.dirty THEN [row EXCEPT !.dirty = FALSE] ELSE row

\* discard_changes() of one row.
Discarded(row) ==
    IF row.dirty
    THEN [row EXCEPT !.active = @ \/ row.disk # Blank, !.staged = row.disk, !.dirty = FALSE]
    ELSE row

Discard ==
    /\ Idle
    /\ settings' = [k \in DOMAIN settings |-> Discarded(settings[k])]
    /\ UNCHANGED <<raced, file, backups, saving, edit, scans, seenFile, cfgTruth, serving, unscanned, mishaps, changed>>

----------------------------------------------------------------------------
(* Commit. The write lock is held from the backup to the database commit.  *)

\* _has_dirty_config_state(), of the settings.
AnyDirty(rows) == \E k \in DOMAIN rows : rows[k].dirty

\* _build_config_text()
Written(rows) ==
    [k \in {j \in DOMAIN rows : rows[j].active /\ ~rows[j].orphan} |-> rows[k].staged]

\* _reset_dirty_flags()
Reset(row) ==
    IF ~row.dirty THEN row
    ELSE LET value == IF row.active THEN row.staged ELSE Blank
         IN [row EXCEPT !.disk = value, !.staged = value, !.dirty = FALSE]

CommitWrites ==
    /\ Idle /\ AnyDirty(settings) /\ Len(backups) < MaxBackups
    /\ saving' = <<file>> /\ file' = Written(settings)
    /\ UNCHANGED <<raced, settings, backups, edit, scans, seenFile, cfgTruth, serving, unscanned, mishaps, changed>>

CommitEnds ==
    /\ saving # <<>> /\ saving' = <<>>
    /\ backups' = backups \o saving
    /\ settings' = [k \in DOMAIN settings |-> Reset(settings[k])]
    /\ UNCHANGED <<raced, file, edit, scans, seenFile, cfgTruth, serving, unscanned, mishaps, changed>>

----------------------------------------------------------------------------
(* Scans, rollback                                                         *)

\* A file of the configuration or protocols directory changed, config.cfg excepted.
BeginScan(s) ==
    /\ Idle
    /\ \/ /\ s = "watch" /\ scans[s] = "idle"
          /\ ScansOverlap \/ \A t \in Scanners : scans[t] = "idle"
       \/ s = "rollback" /\ scans[s] = "recorded"
    /\ scans' = [scans EXCEPT ![s] = "reading"]
    /\ seenFile' = [seenFile EXCEPT ![s] = [text |-> file, truth |-> cfgTruth]]
    /\ UNCHANGED <<raced, file, settings, backups, saving, edit, cfgTruth, serving, unscanned, mishaps, changed>>

\* The flag is looked up for every key: one that changed meanwhile counts for some of them.
TruthFor(s) ==
    IF seenFile[s].truth = cfgTruth THEN {IF cfgTruth THEN SettingKeys ELSE {}}
    ELSE SUBSET SettingKeys

FinishScan(s) ==
    /\ scans[s] = "reading" /\ scans' = [scans EXCEPT ![s] = "done"]
    /\ \E truth \in TruthFor(s) : settings' = Merge(settings, seenFile[s].text, truth)
    /\ unscanned' = (unscanned /\ file # seenFile[s].text)
    /\ UNCHANGED <<raced, file, backups, saving, edit, seenFile, cfgTruth, serving, mishaps, changed>>

\* run()'s finally resets the flag, whoever set it.
EndScan(s) ==
    /\ scans[s] = "done" /\ scans' = [scans EXCEPT ![s] = "idle"]
    /\ seenFile' = [seenFile EXCEPT ![s] = [text |-> <<>>, truth |-> FALSE]]
    /\ cfgTruth' = FALSE
    /\ UNCHANGED <<raced, file, settings, backups, saving, edit, serving, unscanned, mishaps, changed>>

\* rollback_to() restores the file first ...
RollbackCopies ==
    /\ serving /\ saving = <<>> /\ scans["rollback"] = "idle" /\ Len(backups) < MaxBackups
    /\ ScansOverlap \/ scans["watch"] = "idle"
    /\ \E i \in DOMAIN backups : file' = backups[i]
    /\ scans' = [scans EXCEPT !["rollback"] = "copied"]
    /\ seenFile' = [seenFile EXCEPT !["rollback"] = [text |-> file, truth |-> FALSE]]
    /\ UNCHANGED <<raced, settings, backups, saving, edit, cfgTruth, serving, unscanned, mishaps, changed>>

\* Mutant of RollbackTruth: the flag is not set.
RollbackTruthNever == FALSE

\* do_rollback()'s set_cfg_is_truth(True)
RollbackTruth == TRUE

\* ... and records what it replaced once it has the lock.
RollbackRecords ==
    /\ Idle /\ scans["rollback"] = "copied"
    /\ scans' = [scans EXCEPT !["rollback"] = "recorded"]
    /\ backups' = Append(backups, seenFile["rollback"].text)
    /\ cfgTruth' = RollbackTruth
    /\ UNCHANGED <<raced, file, settings, saving, edit, seenFile, serving, unscanned, mishaps, changed>>

----------------------------------------------------------------------------
(* Outside the web server                                                  *)

HandEdit ==
    /\ mishaps < Mishaps /\ mishaps' = mishaps + 1
    /\ \E k \in SettingKeys \ BridgeKeys : \E v \in SettingValues :
          file' = [j \in DOMAIN file \cup {k} |-> IF j = k THEN v ELSE file[j]]
    /\ unscanned' = TRUE
    /\ UNCHANGED <<raced, settings, backups, saving, edit, scans, seenFile, cfgTruth, serving, changed>>

\* The gateway loaded the changed file and archived it.
ReloadArchives ==
    /\ Idle /\ file # Last(backups) /\ Len(backups) < MaxBackups
    /\ backups' = Append(backups, file)
    /\ UNCHANGED <<raced, file, settings, saving, edit, scans, seenFile, cfgTruth, serving, unscanned, mishaps, changed>>

Crash ==
    /\ serving /\ mishaps < Mishaps /\ mishaps' = mishaps + 1
    /\ serving' = FALSE /\ saving' = <<>> /\ edit' = NoEdit /\ cfgTruth' = FALSE
    /\ scans' = [s \in Scanners |-> "idle"]
    /\ seenFile' = [s \in Scanners |-> [text |-> <<>>, truth |-> FALSE]]
    /\ UNCHANGED <<raced, file, settings, backups, unscanned, changed>>

\* _startup_io(): config.cfg differs from the last recorded backup.
StartupTruth == IF file # Last(backups) THEN SettingKeys ELSE {}

Restart ==
    /\ ~serving /\ serving' = TRUE /\ unscanned' = FALSE
    /\ settings' = Merge(settings, file, StartupTruth)
    /\ UNCHANGED <<raced, file, backups, saving, edit, scans, seenFile, cfgTruth, mishaps, changed>>

StagingNext ==
    \/ ChangeSetting \/ ReadSetting \/ WriteSetting \/ CreateKey \/ PreviewTransport
    \/ DeleteBridge \/ DeleteOrphan \/ Discard \/ CommitWrites \/ CommitEnds
    \/ \E s \in Scanners : BeginScan(s) \/ FinishScan(s) \/ EndScan(s)
    \/ RollbackCopies \/ RollbackRecords \/ HandEdit \/ ReloadArchives \/ Crash \/ Restart

StagingSpec == StagingInit /\ [][StagingNext]_stagingVars

----------------------------------------------------------------------------
(* What should hold                                                        *)

RowType ==
    [disk : SettingValues \cup {Blank}, staged : SettingValues \cup {Blank},
     active : BOOLEAN, dirty : BOOLEAN, orphan : BOOLEAN]

\* The types; and a key the database does not know yet is not in the file the scanner last read.
StagingTypeOK ==
    /\ DOMAIN file \subseteq SettingKeys /\ DOMAIN settings \subseteq SettingKeys
    /\ \A k \in DOMAIN file : file[k] \in SettingValues \cup {Blank}
    /\ \A k \in DOMAIN settings : settings[k] \in RowType
    /\ Len(backups) \in 1..(MaxBackups + 1)
    /\ scans["watch"] \in {"idle", "reading", "done"}
    /\ scans["rollback"] \in {"idle", "copied", "recorded", "reading", "done"}
    /\ ~(saving # <<>> /\ \E s \in Scanners : scans[s] = "reading")
    /\ {serving, cfgTruth, unscanned, raced} \subseteq BOOLEAN
    /\ mishaps \in 0..Mishaps /\ changed \in 0..MaxChanges

\* What is staged and differs from disk is counted: the Commit button sees every pending value
\* of a setting that will be written (is_dirty, models.py mark_dirty()). Not after a request that
\* wrote what it made of a row another one had changed meanwhile.
PendingIsCounted ==
    raced \/ \A k \in DOMAIN settings :
        LET row == settings[k]
        IN row.active /\ ~row.orphan /\ row.staged # row.disk => row.dirty

\* Between operations, and unless config.cfg was edited by hand since the last scan, value_disk
\* is what config.cfg says (and no request raced, as above): through commits, discards, rollbacks, crashes and restarts.
DiskColumnIsTrue ==
    Idle /\ ~raced /\ ~unscanned /\ scans["rollback"] \in {"idle", "done"} =>
        /\ \A k \in DOMAIN file : k \in DOMAIN settings /\ settings[k].disk = file[k]
        /\ \A k \in DOMAIN settings \ OtherKeys :
              settings[k].active /\ ~settings[k].orphan /\ settings[k].disk # Blank => k \in DOMAIN file

\* A rollback leaves no staged edit of a setting of the restored file (do_rollback()'s docstring,
\* of the settings in the file).
RollbackLeavesNoEdits ==
    [][scans["rollback"] = "reading" /\ scans'["rollback"] = "done" =>
          \A k \in DOMAIN seenFile["rollback"].text :
              ~settings'[k].dirty /\ settings'[k].staged = seenFile["rollback"].text[k]]_stagingVars

\* "When nothing here is dirty [...] running it anyway would only reproduce byte-identical output
\* on disk" (_has_dirty_config_state()): what a commit would write is what is there.
CleanMeansWritten ==
    Idle /\ ~unscanned /\ scans["rollback"] \in {"idle", "done"} /\ ~AnyDirty(settings) =>
        Written(settings) = file

\* PendingIsCounted, whatever the order of the requests.
PendingIsAlwaysCounted ==
    \A k \in DOMAIN settings :
        LET row == settings[k]
        IN row.active /\ ~row.orphan /\ row.staged # row.disk => row.dirty

\* After a rollback no setting at all has a staged edit left ("for every setting", do_rollback()).
RollbackClearsAll ==
    [][scans["rollback"] = "reading" /\ scans'["rollback"] = "done" => ~AnyDirty(settings')]_stagingVars

\* A committed "bridge = transport.X" names a section of config.cfg: what
\* ensure_bridge_sections_exist() is for.
NoDanglingBridge ==
    Idle /\ BridgeRef \in DOMAIN file /\ file[BridgeRef] = Refers => DOMAIN file \cap BridgeKeys # {}

\* What is staged, what is on disk and what is counted agree: the Commit button (mark_dirty(),
\* models.py) sees every pending value, and a commit, discard or rollback leaves the database
\* saying of config.cfg what commit_all() and the scanner last saw there.
StagingIsTrue == PendingIsCounted /\ DiskColumnIsTrue
=============================================================================
