-------------------------- MODULE CompressionJobs --------------------------
(***************************************************************************)
(* The compression policy of the tables of a TimescaleDB bridge and those  *)
(* who pause it. TimescaleDB's scheduler compresses chunks on its own; an  *)
(* edit (Metrics Edit, a column deletion, a Timeshift import) pauses the   *)
(* job of its tables, decompresses chunks, writes and resumes the job, and *)
(* Rebuild Compression pauses it to rewrite the compressed chunks. A set-up*)
(* puts a missing, a different or a paused policy right, which is how a    *)
(* job whose pauser died is scheduled again. A pause that fails is only    *)
(* logged: the edit or the rebuild goes on with the job scheduled.         *)
(*                                                                         *)
(* Every database step is a transaction of its own. The scheduler, the     *)
(* jobs view and the chunks view are TimescaleDB's.                        *)
(***************************************************************************)
EXTENDS Naturals, FiniteSets

CONSTANTS
    RawTables,     \* hypertables
    RollupViews,   \* continuous aggregates: their chunks belong to another relation
    Chunks,        \* chunks of each table
    AfterValues,   \* values of compress_after
    Pausers,       \* threads that edit or rebuild
    MaxJobStarts, MaxPauses, MaxJobFaults  \* bounds

ASSUME CompressionJobsAssumption ==
    /\ IsFiniteSet(RawTables) /\ IsFiniteSet(RollupViews) /\ RawTables \cap RollupViews = {}
    /\ IsFiniteSet(Chunks) /\ AfterValues # {}
    /\ {MaxJobStarts, MaxPauses, MaxJobFaults} \subseteq Nat

StoredTables == RawTables \cup RollupViews
NoJob == [id |-> 0, after |-> "none", scheduled |-> FALSE]
AtRestPauser == [at |-> "idle", op |-> "none", tables |-> {}, missed |-> {}, ids |-> {}, plan |-> {}]

VARIABLES
    after,       \* the compress_after of the configuration
    validSettings,    \* the columnstore settings of the configuration are valid
    enabled,     \* tables with the columnstore enabled
    job,         \* table -> its compression job
    lastId,      \* job ids are not used again
    pending,     \* tables whose columnstore settings are not yet those of the configuration
    inColumns,   \* <<table, chunk>> that are compressed
    outdated,    \* those of them compressed under settings the table has no more
    toSetUp,     \* tables the set-up under way has still to configure
    pausers,     \* thread -> what it is at
    unresumed,   \* history: tables whose job a failure left paused, or took away
    crowded,     \* history: a table was set up or paused while paused by another
    rebuilt,     \* history: tables a rebuild without failures covered, under their settings
    jobStarts, pauses, jobFaults  \* bounded by the constants

jobDb == <<enabled, job, lastId, pending, inColumns, outdated>>
jobHistory == <<unresumed, crowded, rebuilt>>
jobBounds == <<jobStarts, pauses, jobFaults>>
jobVars == <<after, validSettings, jobDb, toSetUp, pausers, jobHistory, jobBounds>>

JobInit ==
    /\ after \in AfterValues /\ validSettings \in BOOLEAN
    /\ enabled = {} /\ job = [t \in StoredTables |-> NoJob] /\ lastId = 0
    /\ pending = {} /\ inColumns = {} /\ outdated = {}
    /\ toSetUp = StoredTables /\ pausers = [p \in Pausers |-> AtRestPauser]
    /\ unresumed = {} /\ crowded = FALSE /\ rebuilt = {}
    /\ jobStarts = 1 /\ pauses = 0 /\ jobFaults = 0

HeldBy(p, t) == pausers[p].at # "idle" /\ t \in pausers[p].tables
Held(t) == \E p \in Pausers : HeldBy(p, t)
----------------------------------------------------------------------------
(* Set-up of a table: configure_compression(), or the policies of a view.  *)

\* Mutant of PolicyMatches: a paused job with the right interval counts as a match.
PolicyMatchesPaused(t) == job[t] # NoJob /\ job[t].after = after

\* policy_config_matches_helper(): a paused job never matches.
PolicyMatches(t) == job[t] # NoJob /\ job[t].scheduled /\ job[t].after = after

\* _apply_compression_helper(), a transaction of its own: invalid settings are refused. The
\* columnstore of a view is enabled without settings. New settings hold for the chunks to come:
\* those compressed by then keep the earlier ones, and a rebuild at work has to be repeated.
ApplyCompression(t, works) ==
    LET altered == works /\ (validSettings \/ t \in RollupViews)
        anew == altered /\ t \in pending
    IN /\ enabled' = IF altered THEN enabled \cup {t} ELSE enabled
       /\ pending' = IF altered THEN pending \ {t} ELSE pending
       /\ outdated' = IF anew THEN outdated \cup {x \in inColumns : x[1] = t} ELSE outdated
       /\ rebuilt' = IF anew THEN rebuilt \ {t} ELSE rebuilt
       /\ pausers' = [p \in Pausers |->
              IF anew /\ HeldBy(p, t) /\ pausers[p].op = "rebuild"
              THEN [pausers[p] EXCEPT !.op = "overtaken"] ELSE pausers[p]]

\* ensure_compression_policy(), the next: the old policy is removed.
NewPolicy == [id |-> lastId + 1, after |-> after, scheduled |-> TRUE]

\* The policy is tried after refused settings too: the database refuses it on a table
\* without a columnstore. When it fails it is not tried again before the next set-up.
EnsurePolicy(t, works) ==
    /\ IF PolicyMatches(t) \/ t \notin enabled' \/ ~works
         THEN UNCHANGED <<job, lastId>>
         ELSE lastId' = lastId + 1 /\ job' = [job EXCEPT ![t] = NewPolicy]
    /\ unresumed' = IF works THEN unresumed \ {t} ELSE unresumed \cup {t}

FaultIf(fails) ==
    jobFaults' = jobFaults + (IF fails THEN 1 ELSE 0) /\ jobFaults' <= MaxJobFaults

\* Either half may fail, and is logged; those of a view are one transaction.
ConfigureCompression(t) ==
    /\ t \in toSetUp /\ toSetUp' = toSetUp \ {t}
    /\ \E alters, ensures \in BOOLEAN :
          /\ t \in RollupViews => alters = ensures
          /\ FaultIf(~alters \/ ~ensures)
          /\ ApplyCompression(t, alters) /\ EnsurePolicy(t, ensures)
    /\ crowded' = (crowded \/ Held(t))
    /\ UNCHANGED <<after, validSettings, inColumns, jobStarts, pauses>>

\* A retune or a rebuild of the rollups walks a table again.
SetUpAgain(t) ==
    /\ toSetUp = {} /\ pauses < MaxPauses /\ pauses' = pauses + 1
    /\ toSetUp' = {t}
    /\ UNCHANGED <<after, validSettings, jobDb, pausers, jobHistory, jobStarts, jobFaults>>
----------------------------------------------------------------------------
(* Pause, work, resume.                                                    *)

At(p, where) == pausers' = [pausers EXCEPT ![p].at = where]

\* pause_compression_job_for_table(): the scheduled jobs of the tables. A job that is
\* paused already is not among them, nor one whose pause fails ("could not pause").
Pause(p, op, tables) ==
    /\ pausers[p].at = "idle" /\ pauses < MaxPauses /\ pauses' = pauses + 1
    /\ \E missed \in SUBSET tables :
          LET mine == {t \in tables \ missed : job[t] # NoJob /\ job[t].scheduled}
          IN /\ FaultIf(missed # {})
             /\ job' = [t \in StoredTables |->
                           IF t \in mine THEN [job[t] EXCEPT !.scheduled = FALSE] ELSE job[t]]
             /\ pausers' = [pausers EXCEPT ![p] =
                   [at |-> "paused", op |-> op, tables |-> tables, missed |-> missed,
                    ids |-> {job[t].id : t \in mine}, plan |-> {}]]
    /\ crowded' = (crowded \/ \E t \in tables : Held(t) \/ t \in toSetUp)
    /\ UNCHANGED <<after, validSettings, enabled, lastId, pending, inColumns, outdated, toSetUp,
                   unresumed, rebuilt, jobStarts>>

\* An edit decompresses the chunks of its range, as far as the database lets it
\* (best effort, a savepoint), and writes.
EditChunks(p) ==
    /\ pausers[p].at = "paused" /\ pausers[p].op = "edit"
    /\ \E touched \in SUBSET {x \in inColumns : x[1] \in pausers[p].tables} :
          inColumns' = inColumns \ touched /\ outdated' = outdated \ touched
    /\ At(p, "resuming")
    /\ UNCHANGED <<after, validSettings, enabled, job, lastId, pending, toSetUp, jobHistory, jobBounds>>

\* The chunks timescaledb_information.chunks lists under the name of the table: none under
\* the name of a view.
CompressedChunks(t) == {x \in inColumns : x[1] = t /\ t \in RawTables}

\* rebuild_compression(): the plan is made before the job is paused.
StartRebuild(p, t) ==
    /\ pausers[p].at = "idle" /\ pauses < MaxPauses /\ pauses' = pauses + 1
    /\ pausers' = [pausers EXCEPT ![p] =
           [at |-> "planned", op |-> "rebuild", tables |-> {t}, missed |-> {}, ids |-> {},
            plan |-> CompressedChunks(t)]]
    /\ crowded' = (crowded \/ Held(t) \/ t \in toSetUp)
    /\ UNCHANGED <<after, validSettings, jobDb, toSetUp, unresumed, rebuilt, jobStarts, jobFaults>>

\* A table without compressed chunks is passed over. Here too a pause may fail unnoticed.
PauseForRebuild(p) ==
    /\ pausers[p].at = "planned"
    /\ \E t \in pausers[p].tables, fails \in {FALSE, pausers[p].plan # {}} :
          LET mine == job[t] # NoJob /\ job[t].scheduled /\ pausers[p].plan # {} /\ ~fails
          IN /\ FaultIf(fails)
             /\ job' = IF mine THEN [job EXCEPT ![t].scheduled = FALSE] ELSE job
             /\ pausers' = [pausers EXCEPT ![p].at = IF pausers[p].plan = {} THEN "resuming" ELSE "rewriting",
                                           ![p].missed = IF fails THEN {t} ELSE {},
                                           ![p].ids = IF mine THEN {job[t].id} ELSE {}]
             /\ rebuilt' = IF pausers[p].plan = {} /\ pausers[p].op = "rebuild"
                           THEN rebuilt \cup {t} ELSE rebuilt
    /\ UNCHANGED <<after, validSettings, enabled, lastId, pending, inColumns, outdated, toSetUp,
                   unresumed, crowded, jobStarts, pauses>>

\* One chunk: to the rowstore and back, in one transaction.
RewriteChunk(p) ==
    /\ pausers[p].at = "rewriting"
    /\ \E x \in pausers[p].plan :
          /\ inColumns' = inColumns \cup {x} /\ outdated' = outdated \ {x}
          /\ LET left == pausers[p].plan \ {x}
             IN /\ pausers' = [pausers EXCEPT ![p].plan = left,
                                              ![p].at = IF left = {} THEN "resuming" ELSE @]
                /\ rebuilt' = IF left = {} /\ pausers[p].op = "rebuild"
                              THEN rebuilt \cup pausers[p].tables ELSE rebuilt
    /\ UNCHANGED <<after, validSettings, enabled, job, lastId, pending, toSetUp, unresumed, crowded,
                   jobBounds>>

\* A chunk that fails is counted and left as it was.
RewriteFails(p) ==
    /\ pausers[p].at = "rewriting" /\ jobFaults < MaxJobFaults /\ jobFaults' = jobFaults + 1
    /\ \E x \in pausers[p].plan :
          LET left == pausers[p].plan \ {x}
          IN pausers' = [pausers EXCEPT ![p].plan = left, ![p].op = "failed",
                                        ![p].at = IF left = {} THEN "resuming" ELSE @]
    /\ UNCHANGED <<after, validSettings, jobDb, toSetUp, jobHistory, jobStarts, pauses>>

\* resume_compression_job_for_table(): by id. A job that was replaced is not touched.
Resumed(p) ==
    [t \in StoredTables |-> IF job[t].id \in pausers[p].ids THEN [job[t] EXCEPT !.scheduled = TRUE]
                            ELSE job[t]]

\* The finally block.
Resume(p) ==
    /\ pausers[p].at = "resuming"
    /\ job' = Resumed(p)
    /\ pausers' = [pausers EXCEPT ![p] = AtRestPauser]
    /\ UNCHANGED <<after, validSettings, enabled, lastId, pending, inColumns, outdated, toSetUp, jobHistory,
                   jobBounds>>

\* It fails: "re-enable it manually".
ResumeFails(p) ==
    /\ pausers[p].at = "resuming" /\ jobFaults < MaxJobFaults /\ jobFaults' = jobFaults + 1
    /\ pausers' = [pausers EXCEPT ![p] = AtRestPauser]
    /\ unresumed' = unresumed \cup {t \in pausers[p].tables : job[t].id \in pausers[p].ids}
    /\ UNCHANGED <<after, validSettings, jobDb, toSetUp, crowded, rebuilt, jobStarts, pauses>>
----------------------------------------------------------------------------
\* The scheduler runs a job: a chunk that is old enough is compressed.
JobRuns(t, c) ==
    /\ job[t].scheduled /\ <<t, c>> \notin inColumns
    /\ inColumns' = inColumns \cup {<<t, c>>}
    /\ UNCHANGED <<after, validSettings, enabled, job, lastId, pending, outdated, toSetUp, pausers,
                   jobHistory, jobBounds>>

\* _purge_ghost_jobs_helper(), of a rebuild of some rollups: a job that has hung is deleted,
\* whatever its table.
PurgeHungJob(t) ==
    /\ job[t].scheduled /\ jobFaults < MaxJobFaults /\ jobFaults' = jobFaults + 1
    /\ job' = [job EXCEPT ![t] = NoJob] /\ unresumed' = unresumed \cup {t}
    /\ UNCHANGED <<after, validSettings, enabled, lastId, pending, inColumns, outdated, toSetUp, pausers,
                   crowded, rebuilt, jobStarts, pauses>>

\* A restart, at any moment, with a configuration that may have changed: the interval, and
\* the columnstore settings of any tables. What was paused stays paused.
RestartBridge ==
    /\ jobStarts < MaxJobStarts /\ jobStarts' = jobStarts + 1
    /\ after' \in AfterValues /\ validSettings' \in BOOLEAN /\ pending' \in SUBSET RawTables
    /\ toSetUp' = StoredTables /\ pausers' = [p \in Pausers |-> AtRestPauser]
    /\ crowded' = FALSE
    /\ UNCHANGED <<enabled, job, lastId, inColumns, outdated, unresumed, rebuilt, pauses, jobFaults>>

PausedWork(p) ==
    \/ EditChunks(p) \/ PauseForRebuild(p) \/ RewriteChunk(p) \/ RewriteFails(p)
    \/ Resume(p) \/ ResumeFails(p)

JobNext ==
    \/ \E t \in StoredTables :
          \/ ConfigureCompression(t) \/ SetUpAgain(t) \/ PurgeHungJob(t)
          \/ \E c \in Chunks : JobRuns(t, c)
          \/ \E p \in Pausers : StartRebuild(p, t)
    \/ \E p \in Pausers :
          \/ PausedWork(p)
          \/ \E tables \in SUBSET RawTables : tables # {} /\ Pause(p, "edit", tables)
    \/ RestartBridge

JobSpec == JobInit /\ [][JobNext]_jobVars
----------------------------------------------------------------------------
(* Properties. *)

JobTypeOK ==
    /\ after \in AfterValues /\ validSettings \in BOOLEAN /\ enabled \subseteq StoredTables
    /\ \A t \in StoredTables :
          /\ job[t].id \in 0..lastId
          /\ job[t] # NoJob => job[t].after \in AfterValues /\ t \in enabled
    /\ pending \subseteq RawTables /\ outdated \subseteq inColumns /\ inColumns \subseteq StoredTables \X Chunks
    /\ toSetUp \cup unresumed \cup rebuilt \subseteq StoredTables
    /\ \A p \in Pausers : pausers[p].tables \subseteq StoredTables

\* "The job would otherwise stay paused for good" (policy_config_matches_helper()): when no
\* set-up and no pauser is at work, the job of every table is scheduled with the configured
\* interval, though any pauser may have died, and however they overlapped. Of the tables whose
\* columnstore could be enabled, unless a failure was reported since the last set-up.
PolicyIsRestored ==
    toSetUp = {} /\ (\A p \in Pausers : pausers[p].at = "idle") =>
        \A t \in enabled \ unresumed : job[t].scheduled /\ job[t].after = after

\* No job compresses a table while an edit or a rebuild has it: of those that were alone with
\* the table and whose pause did not fail.
WorkIsUndisturbed ==
    ~crowded => \A p \in Pausers, t \in StoredTables :
        HeldBy(p, t) /\ t \notin pausers[p].missed /\ pausers[p].at \in {"paused", "rewriting"} =>
            ~job[t].scheduled

\* Rebuild Compression leaves no chunk of a raw table under settings the table had before
\* (timescaledb.md, section 4.6), whatever else went on, but for a set-up that changes them
\* while it is at work.
RebuildIsThorough == \A x \in outdated : x[1] \in RawTables => x[1] \notin rebuilt

\* The same with others at the table - the second pauser holds no job, and the first resumes
\* it -, and when the pause failed: the edit goes on.
WorkIsNeverDisturbed ==
    \A p \in Pausers, t \in StoredTables :
        HeldBy(p, t) /\ pausers[p].at \in {"paused", "rewriting"} => ~job[t].scheduled

\* "And its four rollup views" (timescaledb.md, section 4.6): chunks are looked up by the name of
\* the view, which has none.
RebuildReachesViews ==
    [][\A p \in Pausers : pausers[p].at = "idle" /\ pausers'[p].at = "planned" =>
          pausers'[p].plan = {x \in inColumns : x[1] \in pausers'[p].tables}]_jobVars

\* "Or immediately via Rebuild Compression" (timeshift_service.py:1667): what an edit decompressed
\* is not among the chunks it rewrites.
RebuildRecompresses ==
    [][\A t \in RawTables : t \in rebuilt' \ rebuilt => \A c \in Chunks : <<t, c>> \in inColumns']_jobVars

\* The three together: what pausers, set-ups and rebuilds leave behind.
JobsAreTrue == PolicyIsRestored /\ WorkIsUndisturbed /\ RebuildIsThorough
=============================================================================
