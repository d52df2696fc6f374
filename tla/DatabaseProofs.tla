--------------------------- MODULE DatabaseProofs ---------------------------
(***************************************************************************)
(* What the timescaledb bridge keeps in its database, for any protocols,   *)
(* tables, actors and bounds: the compression policy that outlives those   *)
(* who pause it, the wide table with its catalog, and the rollup views     *)
(* with the list they are refreshed by.                                    *)
(***************************************************************************)
EXTENDS WideSchema, Rollups, CompressionJobs, ValueEdits, InductionLemmas, SequenceTheorems

----------------------------------------------------------------------------
(* Compression jobs. Job ids are not used again, so that a pauser that       *)
(* resumes by id resumes a job of its own tables or none. A job that is not  *)
(* scheduled is then one a pauser will resume, one of a table a set-up has   *)
(* still to visit, or one of a reported failure.                             *)

Places == {"idle", "planned", "paused", "rewriting", "resuming"}
JobRecords == [id : Nat, after : AfterValues \cup {"none"}, scheduled : BOOLEAN]
PauserRecords ==
    [at : Places, op : {"none", "edit", "rebuild", "failed", "overtaken"}, tables : SUBSET StoredTables,
     missed : SUBSET StoredTables, ids : SUBSET Nat, plan : SUBSET (StoredTables \X Chunks)]

JobShape ==
    /\ after \in AfterValues /\ validSettings \in BOOLEAN /\ enabled \subseteq StoredTables
    /\ job \in [StoredTables -> JobRecords] /\ lastId \in Nat
    /\ pending \subseteq RawTables
    /\ outdated \subseteq inColumns /\ inColumns \subseteq StoredTables \X Chunks
    /\ toSetUp \cup unresumed \cup rebuilt \subseteq StoredTables
    /\ pausers \in [Pausers -> PauserRecords] /\ crowded \in BOOLEAN

\* An id is that of one job, or of none any more.
JobsNumbered ==
    /\ \A t \in StoredTables :
          /\ job[t].id <= lastId
          /\ IF job[t].id = 0 THEN job[t] = NoJob ELSE job[t].after \in AfterValues /\ t \in enabled
    /\ \A t, u \in StoredTables : job[t].id = job[u].id /\ job[t].id # 0 => t = u
    /\ \A p \in Pausers : \A i \in pausers[p].ids : i \in 1..lastId

\* A pauser holds jobs of its tables, and while it is at work.
PausersHoldOwn ==
    \A p \in Pausers :
        /\ \A t \in StoredTables : job[t].id \in pausers[p].ids => t \in pausers[p].tables
        /\ pausers[p].at \in {"idle", "planned"} => pausers[p].ids = {}

\* What is not scheduled will be.
JobsAreAwaited ==
    \A t \in enabled \ (unresumed \cup toSetUp) :
        /\ job[t].id # 0 /\ job[t].after = after
        /\ job[t].scheduled \/ \E p \in Pausers : job[t].id \in pausers[p].ids

Alone ==
    ~crowded => \A p, q \in Pausers, t \in StoredTables : HeldBy(p, t) /\ HeldBy(q, t) => p = q

\* A rebuild has one table, and its plan all that is outdated there.
PlansAreThorough ==
    \A p \in Pausers :
        /\ pausers[p].at = "planned" =>
              pausers[p].op \in {"rebuild", "overtaken"} /\ \E t \in StoredTables : pausers[p].tables = {t}
        /\ pausers[p].at \in {"planned", "rewriting"} /\ pausers[p].op = "rebuild" =>
              \A x \in outdated : x[1] \in RawTables \cap pausers[p].tables => x \in pausers[p].plan

JobInv ==
    /\ JobShape /\ JobsNumbered /\ PausersHoldOwn /\ JobsAreAwaited
    /\ Alone /\ WorkIsUndisturbed /\ PlansAreThorough /\ RebuildIsThorough
----------------------------------------------------------------------------
(* Shapes. *)

LEMMA JobConstants ==
  /\ RawTables \subseteq StoredTables /\ RollupViews \subseteq StoredTables
  /\ NoJob \in JobRecords /\ AtRestPauser \in PauserRecords
  /\ NoJob.id = 0 /\ ~NoJob.scheduled
  /\ AtRestPauser.at = "idle" /\ AtRestPauser.ids = {}
  BY DEF StoredTables, NoJob, JobRecords, AtRestPauser, PauserRecords, Places

LEMMA JobInitially == JobInit => JobInv
<1> SUFFICES ASSUME JobInit PROVE JobInv
  OBVIOUS
<1> USE JobConstants DEF JobInit
<1>1. JobShape
  BY DEF JobShape
<1>2. JobsNumbered
  BY DEF JobsNumbered, NoJob, AtRestPauser
<1>3. PausersHoldOwn /\ JobsAreAwaited /\ Alone /\ WorkIsUndisturbed /\ PlansAreThorough /\ RebuildIsThorough
  BY DEF PausersHoldOwn, JobsAreAwaited, Alone, WorkIsUndisturbed, PlansAreThorough, RebuildIsThorough,
         HeldBy, AtRestPauser
<1> QED BY <1>1, <1>2, <1>3 DEF JobInv

\* What one pauser becomes.
Becomes(p, q) == q \in PauserRecords /\ pausers' = [pausers EXCEPT ![p] = q]

LEMMA StartRebuildStep ==
  ASSUME JobShape, NEW p \in Pausers, NEW t \in StoredTables, StartRebuild(p, t)
  PROVE  Becomes(p, [at |-> "planned", op |-> "rebuild", tables |-> {t}, missed |-> {}, ids |-> {},
                 plan |-> CompressedChunks(t)])
<1>1. CompressedChunks(t) \subseteq StoredTables \X Chunks
  BY DEF CompressedChunks, JobShape
<1> QED BY <1>1 DEF StartRebuild, Becomes, PauserRecords, Places

LEMMA EditStep ==
  ASSUME JobShape, NEW p \in Pausers, EditChunks(p)
  PROVE  Becomes(p, [pausers[p] EXCEPT !.at = "resuming"])
  BY DEF EditChunks, At, Becomes, JobShape, PauserRecords, Places

LEMMA PlannedStep ==
  ASSUME JobShape, NEW p \in Pausers, PauseForRebuild(p)
  PROVE  \E t \in pausers[p].tables, mine \in BOOLEAN, fails \in BOOLEAN :
           /\ mine <=> job[t] # NoJob /\ job[t].scheduled /\ pausers[p].plan # {} /\ ~fails
           /\ job' = IF mine THEN [job EXCEPT ![t] = [job[t] EXCEPT !.scheduled = FALSE]] ELSE job
           /\ job' \in [StoredTables -> JobRecords]
           /\ rebuilt' = IF pausers[p].plan = {} /\ pausers[p].op = "rebuild" THEN rebuilt \cup {t} ELSE rebuilt
           /\ Becomes(p, [pausers[p] EXCEPT
                            !.at = IF pausers[p].plan = {} THEN "resuming" ELSE "rewriting",
                            !.missed = IF fails THEN {t} ELSE {},
                            !.ids = IF mine THEN {job[t].id} ELSE {}])
<1>1. PICK t \in pausers[p].tables, fails \in {FALSE, pausers[p].plan # {}} :
        LET mine == job[t] # NoJob /\ job[t].scheduled /\ pausers[p].plan # {} /\ ~fails
        IN /\ job' = IF mine THEN [job EXCEPT ![t].scheduled = FALSE] ELSE job
           /\ pausers' = [pausers EXCEPT ![p].at = IF pausers[p].plan = {} THEN "resuming" ELSE "rewriting",
                                         ![p].missed = IF fails THEN {t} ELSE {},
                                         ![p].ids = IF mine THEN {job[t].id} ELSE {}]
           /\ rebuilt' = IF pausers[p].plan = {} /\ pausers[p].op = "rebuild" THEN rebuilt \cup {t} ELSE rebuilt
  BY DEF PauseForRebuild
<1>2. pausers[p] \in PauserRecords /\ t \in StoredTables /\ job[t] \in JobRecords /\ fails \in BOOLEAN
  BY DEF JobShape, PauserRecords
<1>3. PICK mine \in BOOLEAN : mine <=> job[t] # NoJob /\ job[t].scheduled /\ pausers[p].plan # {} /\ ~fails
  OBVIOUS
<1>4. job' = IF mine THEN [job EXCEPT ![t] = [job[t] EXCEPT !.scheduled = FALSE]] ELSE job
  BY <1>1, <1>3
<1>5. job' \in [StoredTables -> JobRecords]
  BY <1>2, <1>4 DEF JobShape, JobRecords
<1>6. pausers' = [pausers EXCEPT ![p] = [pausers[p] EXCEPT
                     !.at = IF pausers[p].plan = {} THEN "resuming" ELSE "rewriting",
                     !.missed = IF fails THEN {t} ELSE {},
                     !.ids = IF mine THEN {job[t].id} ELSE {}]]
  BY <1>1, <1>2, <1>3 DEF JobShape
<1>7. [pausers[p] EXCEPT !.at = IF pausers[p].plan = {} THEN "resuming" ELSE "rewriting",
                         !.missed = IF fails THEN {t} ELSE {},
                         !.ids = IF mine THEN {job[t].id} ELSE {}] \in PauserRecords
  BY <1>2 DEF PauserRecords, Places, JobRecords
<1> QED BY <1>1, <1>2, <1>3, <1>4, <1>5, <1>6, <1>7 DEF Becomes

LEMMA RewriteStep ==
  ASSUME JobShape, NEW p \in Pausers, RewriteChunk(p)
  PROVE  \E x \in pausers[p].plan :
           /\ inColumns' = inColumns \cup {x} /\ outdated' = outdated \ {x}
           /\ Becomes(p, [pausers[p] EXCEPT
                            !.plan = @ \ {x}, !.at = IF pausers[p].plan \ {x} = {} THEN "resuming" ELSE @])
           /\ rebuilt' = IF pausers[p].plan \ {x} = {} /\ pausers[p].op = "rebuild"
                         THEN rebuilt \cup pausers[p].tables ELSE rebuilt
<1>1. PICK x \in pausers[p].plan :
        /\ inColumns' = inColumns \cup {x} /\ outdated' = outdated \ {x}
        /\ LET left == pausers[p].plan \ {x}
           IN /\ pausers' = [pausers EXCEPT ![p].plan = left,
                                            ![p].at = IF left = {} THEN "resuming" ELSE @]
              /\ rebuilt' = IF left = {} /\ pausers[p].op = "rebuild"
                            THEN rebuilt \cup pausers[p].tables ELSE rebuilt
  BY DEF RewriteChunk
<1>2. pausers[p] \in PauserRecords
  BY DEF JobShape
<1>3. pausers' = [pausers EXCEPT ![p] = [pausers[p] EXCEPT
                    !.plan = @ \ {x}, !.at = IF pausers[p].plan \ {x} = {} THEN "resuming" ELSE @]]
  BY <1>1, <1>2 DEF JobShape
<1>4. [pausers[p] EXCEPT !.plan = @ \ {x}, !.at = IF pausers[p].plan \ {x} = {} THEN "resuming" ELSE @]
         \in PauserRecords
  BY <1>2 DEF PauserRecords, Places
<1> QED BY <1>1, <1>3, <1>4 DEF Becomes

LEMMA RewriteFailsStep ==
  ASSUME JobShape, NEW p \in Pausers, RewriteFails(p)
  PROVE  \E x \in pausers[p].plan :
           Becomes(p, [pausers[p] EXCEPT !.plan = @ \ {x}, !.op = "failed",
                         !.at = IF pausers[p].plan \ {x} = {} THEN "resuming" ELSE @])
<1>1. PICK x \in pausers[p].plan :
        LET left == pausers[p].plan \ {x}
        IN pausers' = [pausers EXCEPT ![p].plan = left, ![p].op = "failed",
                                      ![p].at = IF left = {} THEN "resuming" ELSE @]
  BY DEF RewriteFails
<1>2. pausers[p] \in PauserRecords
  BY DEF JobShape
<1>3. pausers' = [pausers EXCEPT ![p] = [pausers[p] EXCEPT !.plan = @ \ {x}, !.op = "failed",
                    !.at = IF pausers[p].plan \ {x} = {} THEN "resuming" ELSE @]]
  BY <1>1, <1>2 DEF JobShape
<1>4. [pausers[p] EXCEPT !.plan = @ \ {x}, !.op = "failed",
                         !.at = IF pausers[p].plan \ {x} = {} THEN "resuming" ELSE @] \in PauserRecords
  BY <1>2 DEF PauserRecords, Places
<1> QED BY <1>1, <1>3, <1>4 DEF Becomes

LEMMA ResumeStep ==
  ASSUME JobShape, NEW p \in Pausers, Resume(p)
  PROVE  /\ job' \in [StoredTables -> JobRecords]
         /\ \A t \in StoredTables :
              job'[t] = IF job[t].id \in pausers[p].ids THEN [job[t] EXCEPT !.scheduled = TRUE] ELSE job[t]
         /\ Becomes(p, AtRestPauser)
<1>1. \A t \in StoredTables : [job[t] EXCEPT !.scheduled = TRUE] \in JobRecords /\ job[t] \in JobRecords
  BY DEF JobShape, JobRecords
<1> QED BY <1>1, JobConstants DEF Resume, Resumed, Becomes

----------------------------------------------------------------------------
(* Steps that change no pauser. *)

LEMMA QuietJobs ==
  ASSUME JobInv, UNCHANGED <<after, validSettings, enabled, job, lastId, pending, outdated, pausers, crowded, rebuilt>>,
         inColumns \subseteq inColumns', inColumns' \subseteq StoredTables \X Chunks,
         toSetUp' \cup unresumed' \subseteq StoredTables, unresumed \subseteq unresumed',
         toSetUp \subseteq toSetUp' \cup unresumed'
  PROVE  JobInv'
<1> USE DEF JobInv
<1>1. JobShape'
  BY DEF JobShape
<1>2. JobsNumbered' /\ PausersHoldOwn'
  BY DEF JobsNumbered, PausersHoldOwn
<1>3. JobsAreAwaited'
  BY DEF JobsAreAwaited
<1>4. Alone' /\ WorkIsUndisturbed'
  BY DEF Alone, WorkIsUndisturbed, HeldBy
<1>5. PlansAreThorough' /\ RebuildIsThorough'
  BY DEF PlansAreThorough, RebuildIsThorough
<1> QED BY <1>1, <1>2, <1>3, <1>4, <1>5

\* New settings leave the pausers where they are, but for what a rebuild of the table is
\* worth.
LEMMA ApplyStep ==
  ASSUME JobShape, NEW t \in StoredTables, NEW works \in BOOLEAN, ApplyCompression(t, works)
  PROVE  /\ enabled \subseteq enabled' /\ enabled' \subseteq enabled \cup {t} /\ pending' \subseteq pending
         /\ \E anew \in BOOLEAN :
              /\ outdated' = IF anew THEN outdated \cup {x \in inColumns : x[1] = t} ELSE outdated
              /\ rebuilt' = IF anew THEN rebuilt \ {t} ELSE rebuilt
              /\ \A r \in Pausers :
                   pausers'[r].op = IF anew /\ HeldBy(r, t) /\ pausers[r].op = "rebuild"
                                    THEN "overtaken" ELSE pausers[r].op
         /\ pausers' \in [Pausers -> PauserRecords]
         /\ \A r \in Pausers :
              /\ pausers'[r].at = pausers[r].at /\ pausers'[r].tables = pausers[r].tables
              /\ pausers'[r].missed = pausers[r].missed
              /\ pausers'[r].ids = pausers[r].ids /\ pausers'[r].plan = pausers[r].plan
<1>1. \A r \in Pausers : pausers[r] \in PauserRecords /\ [pausers[r] EXCEPT !.op = "overtaken"] \in PauserRecords
  BY DEF JobShape, PauserRecords
<1>2. PICK anew \in BOOLEAN : anew <=> works /\ (validSettings \/ t \in RollupViews) /\ t \in pending
  OBVIOUS
<1>3. /\ outdated' = IF anew THEN outdated \cup {x \in inColumns : x[1] = t} ELSE outdated
      /\ rebuilt' = IF anew THEN rebuilt \ {t} ELSE rebuilt
      /\ pausers' = [r \in Pausers |->
             IF anew /\ HeldBy(r, t) /\ pausers[r].op = "rebuild"
             THEN [pausers[r] EXCEPT !.op = "overtaken"] ELSE pausers[r]]
  BY <1>2 DEF ApplyCompression
<1>4. \A r \in Pausers :
        pausers'[r] = IF anew /\ HeldBy(r, t) /\ pausers[r].op = "rebuild"
                      THEN [pausers[r] EXCEPT !.op = "overtaken"] ELSE pausers[r]
  BY <1>3
<1>5. \A r \in Pausers :
        /\ pausers'[r].at = pausers[r].at /\ pausers'[r].tables = pausers[r].tables
        /\ pausers'[r].missed = pausers[r].missed
        /\ pausers'[r].ids = pausers[r].ids /\ pausers'[r].plan = pausers[r].plan
        /\ pausers'[r].op = IF anew /\ HeldBy(r, t) /\ pausers[r].op = "rebuild"
                            THEN "overtaken" ELSE pausers[r].op
  BY <1>1, <1>4 DEF PauserRecords
<1>6. pausers' \in [Pausers -> PauserRecords]
  BY <1>1, <1>3
<1>7. enabled \subseteq enabled' /\ enabled' \subseteq enabled \cup {t} /\ pending' \subseteq pending
  BY DEF ApplyCompression
<1> HIDE DEF JobShape
<1> QED BY <1>3, <1>5, <1>6, <1>7

\* A set-up gives the table a new job, under an id no pauser holds.
LEMMA ConfigureKeeps ==
  ASSUME JobInv, NEW t \in StoredTables, ConfigureCompression(t)
  PROVE  JobInv'
<1> USE JobConstants DEF JobInv
<1>1. PICK alters \in BOOLEAN, ensures \in BOOLEAN : ApplyCompression(t, alters) /\ EnsurePolicy(t, ensures)
  BY DEF ConfigureCompression
<1>2. /\ UNCHANGED <<after, validSettings, inColumns>>
      /\ t \in toSetUp /\ toSetUp' = toSetUp \ {t}
      /\ crowded' = (crowded \/ Held(t))
  BY DEF ConfigureCompression
<1>3. /\ enabled \subseteq enabled' /\ enabled' \subseteq enabled \cup {t} /\ pending' \subseteq pending
      /\ pausers' \in [Pausers -> PauserRecords]
      /\ \A r \in Pausers :
           /\ pausers'[r].at = pausers[r].at /\ pausers'[r].tables = pausers[r].tables
           /\ pausers'[r].missed = pausers[r].missed
           /\ pausers'[r].ids = pausers[r].ids /\ pausers'[r].plan = pausers[r].plan
  BY <1>1, ApplyStep
<1>4. PICK anew \in BOOLEAN :
        /\ outdated' = IF anew THEN outdated \cup {x \in inColumns : x[1] = t} ELSE outdated
        /\ rebuilt' = IF anew THEN rebuilt \ {t} ELSE rebuilt
        /\ \A r \in Pausers :
             pausers'[r].op = IF anew /\ HeldBy(r, t) /\ pausers[r].op = "rebuild"
                              THEN "overtaken" ELSE pausers[r].op
  BY <1>1, ApplyStep
<1>5. /\ outdated' \subseteq inColumns /\ rebuilt' \subseteq StoredTables /\ crowded' \in BOOLEAN
      /\ enabled' \subseteq StoredTables /\ pending' \subseteq RawTables
  <2>1. outdated' \subseteq inColumns /\ rebuilt' \subseteq StoredTables
    BY <1>4 DEF JobShape
  <2>2. crowded' \in BOOLEAN
    BY <1>2
  <2> QED BY <1>3, <2>1, <2>2 DEF JobShape
<1>6. PlansAreThorough'
  <2> SUFFICES ASSUME NEW p \in Pausers
               PROVE  /\ pausers'[p].at = "planned" =>
                           /\ pausers'[p].op \in {"rebuild", "overtaken"}
                           /\ \E u \in StoredTables : pausers'[p].tables = {u}
                      /\ pausers'[p].at \in {"planned", "rewriting"} /\ pausers'[p].op = "rebuild" =>
                           \A x \in outdated' : x[1] \in RawTables \cap pausers'[p].tables => x \in pausers'[p].plan
    BY DEF PlansAreThorough
  <2>1. pausers'[p].op = "rebuild" => pausers[p].op = "rebuild" /\ ~(anew /\ HeldBy(p, t))
    BY <1>4
  <2>2. pausers'[p].at = "planned" =>
           /\ pausers'[p].op \in {"rebuild", "overtaken"}
           /\ \E u \in StoredTables : pausers'[p].tables = {u}
    BY <1>3, <1>4 DEF PlansAreThorough
  <2>3. ASSUME pausers'[p].at \in {"planned", "rewriting"}, pausers'[p].op = "rebuild",
               NEW x \in outdated', x[1] \in RawTables \cap pausers'[p].tables
        PROVE  x \in pausers'[p].plan
    <3>1. pausers[p].at \in {"planned", "rewriting"} /\ pausers[p].op = "rebuild" /\ x[1] \in pausers[p].tables
      BY <1>3, <2>1, <2>3
    <3>2. anew => x[1] # t
      BY <2>1, <2>3, <3>1 DEF HeldBy
    <3>3. x \in outdated
      BY <1>4, <2>3, <3>2
    <3> QED BY <1>3, <2>3, <3>1, <3>3 DEF PlansAreThorough
  <2> QED BY <2>2, <2>3
<1>7. RebuildIsThorough'
  BY <1>4 DEF RebuildIsThorough
<1>8. \A r \in Pausers, u \in StoredTables : HeldBy(r, u)' <=> HeldBy(r, u)
  BY <1>3 DEF HeldBy
<1>9. Alone'
  BY <1>2, <1>8 DEF Alone
<1>10. CASE UNCHANGED <<job, lastId>>
  <2>1. /\ PolicyMatches(t) \/ t \notin enabled' \/ t \in unresumed'
        /\ unresumed' \subseteq unresumed \cup {t} /\ unresumed \subseteq unresumed' \cup {t}
    <3>1. CASE ensures
      <4>1. PolicyMatches(t) \/ t \notin enabled'
        <5>1. ASSUME ~PolicyMatches(t), t \in enabled' PROVE FALSE
          <6>1. lastId' = lastId + 1 /\ lastId \in Nat
            BY <1>1, <3>1, <5>1 DEF EnsurePolicy, JobShape
          <6> QED BY <1>10, <6>1
        <5> QED BY <5>1
      <4> QED BY <1>1, <3>1, <4>1 DEF EnsurePolicy
    <3>2. CASE ~ensures
      BY <1>1, <3>2 DEF EnsurePolicy
    <3> QED BY <3>1, <3>2
  <2>2. JobShape'
    BY <1>2, <1>3, <1>5, <1>10, <2>1 DEF JobShape
  <2>3. JobsNumbered' /\ PausersHoldOwn'
    BY <1>3, <1>10 DEF JobsNumbered, PausersHoldOwn
  <2>4. JobsAreAwaited'
    <3> SUFFICES ASSUME NEW u \in enabled' \ (unresumed' \cup toSetUp')
                 PROVE  /\ job[u].id # 0 /\ job[u].after = after
                        /\ job[u].scheduled \/ \E p \in Pausers : job[u].id \in pausers[p].ids
      BY <1>2, <1>3, <1>10 DEF JobsAreAwaited
    <3>1. CASE u = t
      <4>1. PolicyMatches(t)
        BY <2>1, <3>1
      <4> QED BY <3>1, <4>1 DEF PolicyMatches, JobsNumbered
    <3>2. CASE u # t
      BY <1>2, <1>3, <2>1, <3>2 DEF JobsAreAwaited
    <3> QED BY <3>1, <3>2
  <2>5. WorkIsUndisturbed'
    BY <1>2, <1>3, <1>8, <1>10 DEF WorkIsUndisturbed
  <2> QED BY <1>6, <1>7, <1>9, <2>2, <2>3, <2>4, <2>5
<1>11. CASE /\ t \in enabled' /\ lastId' = lastId + 1 /\ job' = [job EXCEPT ![t] = NewPolicy]
            /\ unresumed' = unresumed \ {t}
  <2>1. /\ NewPolicy \in JobRecords /\ NewPolicy.id = lastId + 1 /\ NewPolicy.after = after
        /\ NewPolicy.scheduled
    BY DEF NewPolicy, JobShape, JobRecords
  <2>2. /\ job'[t] = NewPolicy /\ job' \in [StoredTables -> JobRecords]
        /\ \A u \in StoredTables \ {t} : job'[u] = job[u]
    BY <1>11, <2>1 DEF JobShape
  <2>3. /\ lastId \in Nat /\ \A u \in StoredTables : job[u] \in JobRecords /\ job[u].id \in Nat
        /\ \A p \in Pausers : pausers[p].ids \subseteq Nat
    BY DEF JobShape, JobRecords, PauserRecords
  <2>4. JobShape'
    BY <1>2, <1>3, <1>5, <1>11, <2>2 DEF JobShape
  <2>5. JobsNumbered'
    <3>1. \A u \in StoredTables :
            /\ job'[u].id <= lastId'
            /\ IF job'[u].id = 0 THEN job'[u] = NoJob ELSE job'[u].after \in AfterValues /\ u \in enabled'
      BY <1>2, <1>3, <1>11, <2>1, <2>2, <2>3, <2>4 DEF JobsNumbered, JobShape
    <3>2. \A u, v \in StoredTables : job'[u].id = job'[v].id /\ job'[u].id # 0 => u = v
      BY <2>1, <2>2, <2>3 DEF JobsNumbered
    <3>3. \A p \in Pausers : \A i \in pausers'[p].ids : i \in 1..lastId'
      BY <1>3, <1>11, <2>3 DEF JobsNumbered
    <3> QED BY <3>1, <3>2, <3>3 DEF JobsNumbered
  <2>6. PausersHoldOwn'
    <3>1. \A p \in Pausers : NewPolicy.id \notin pausers[p].ids
      BY <2>1, <2>3 DEF JobsNumbered
    <3> QED BY <1>3, <2>2, <3>1 DEF PausersHoldOwn
  <2>7. JobsAreAwaited'
    <3> SUFFICES ASSUME NEW u \in enabled' \ (unresumed' \cup toSetUp')
                 PROVE  /\ job'[u].id # 0 /\ job'[u].after = after
                        /\ job'[u].scheduled \/ \E p \in Pausers : job'[u].id \in pausers[p].ids
      BY <1>2, <1>3 DEF JobsAreAwaited
    <3>1. CASE u = t
      BY <2>1, <2>2, <2>3, <3>1
    <3>2. CASE u # t
      <4>1. job'[u] = job[u] /\ u \in enabled \ (unresumed \cup toSetUp)
        BY <1>2, <1>3, <1>5, <1>11, <2>2, <3>2
      <4> QED BY <4>1 DEF JobsAreAwaited
    <3> QED BY <3>1, <3>2
  <2>8. WorkIsUndisturbed'
    <3> SUFFICES ASSUME ~crowded', NEW r \in Pausers, NEW u \in StoredTables, HeldBy(r, u)',
                        u \notin pausers'[r].missed, pausers'[r].at \in {"paused", "rewriting"}
                 PROVE  ~job'[u].scheduled
      BY DEF WorkIsUndisturbed
    <3>1. ~crowded /\ HeldBy(r, u) /\ ~Held(t) /\ u \notin pausers[r].missed /\ pausers[r].at \in {"paused", "rewriting"}
      BY <1>2, <1>3, <1>8
    <3>2. u # t
      BY <3>1 DEF Held
    <3> QED BY <2>2, <3>1, <3>2 DEF WorkIsUndisturbed
  <2> QED BY <1>6, <1>7, <1>9, <2>4, <2>5, <2>6, <2>7, <2>8
<1> QED BY <1>1, <1>10, <1>11 DEF EnsurePolicy

LEMMA PurgeKeeps ==
  ASSUME JobInv, NEW t \in StoredTables, PurgeHungJob(t)
  PROVE  JobInv'
<1> USE JobConstants DEF JobInv
<1>1. /\ UNCHANGED <<after, validSettings, enabled, lastId, pending, inColumns, outdated, toSetUp, pausers, crowded, rebuilt>>
      /\ job' = [job EXCEPT ![t] = NoJob] /\ unresumed' = unresumed \cup {t}
  BY DEF PurgeHungJob
<1>2. /\ job'[t] = NoJob /\ job' \in [StoredTables -> JobRecords]
      /\ \A u \in StoredTables \ {t} : job'[u] = job[u]
  BY <1>1 DEF JobShape
<1>3. JobShape'
  BY <1>1, <1>2 DEF JobShape
<1>4. JobsNumbered'
  BY <1>1, <1>2 DEF JobsNumbered, JobShape
<1>5. PausersHoldOwn'
  <2>1. \A p \in Pausers : 0 \notin pausers[p].ids
    BY DEF JobsNumbered
  <2> QED BY <1>1, <1>2, <2>1 DEF PausersHoldOwn
<1>6. JobsAreAwaited'
  BY <1>1, <1>2 DEF JobsAreAwaited, JobShape
<1>7. Alone' /\ PlansAreThorough' /\ RebuildIsThorough'
  BY <1>1 DEF Alone, PlansAreThorough, RebuildIsThorough, HeldBy
<1>8. WorkIsUndisturbed'
  BY <1>1, <1>2 DEF WorkIsUndisturbed, HeldBy
<1> QED BY <1>3, <1>4, <1>5, <1>6, <1>7, <1>8

LEMMA RestartKeepsJobs ==
  ASSUME JobInv, RestartBridge
  PROVE  JobInv'
<1> USE JobConstants DEF JobInv, RestartBridge
<1>1. JobShape'
  BY DEF JobShape
<1>2. \A p \in Pausers : pausers'[p] = AtRestPauser
  OBVIOUS
<1>3. JobsNumbered'
  BY <1>2 DEF JobsNumbered
<1>4. PausersHoldOwn' /\ JobsAreAwaited'
  BY <1>2 DEF PausersHoldOwn, JobsAreAwaited, JobShape
<1>5. Alone' /\ WorkIsUndisturbed' /\ PlansAreThorough' /\ RebuildIsThorough'
  BY <1>2 DEF Alone, WorkIsUndisturbed, PlansAreThorough, RebuildIsThorough, HeldBy
<1> QED BY <1>1, <1>3, <1>4, <1>5

----------------------------------------------------------------------------
(* Steps of a pauser. *)

LEMMA BecomesParts ==
  ASSUME JobShape, NEW p \in Pausers, NEW q, Becomes(p, q)
  PROVE  /\ pausers'[p] = q /\ pausers' \in [Pausers -> PauserRecords]
         /\ \A r \in Pausers \ {p} : pausers'[r] = pausers[r]
         /\ \A r \in Pausers : pausers[r] \in PauserRecords
  BY DEF Becomes, JobShape

\* The pauser goes on with the tables and the jobs it has.
LEMMA PauserGoesOn ==
  ASSUME JobInv, NEW p \in Pausers, NEW q, Becomes(p, q),
         q.tables = pausers[p].tables, q.missed = pausers[p].missed, q.ids = pausers[p].ids,
         pausers[p].at \in {"paused", "rewriting"}, q.at \in {pausers[p].at, "resuming"},
         UNCHANGED <<after, validSettings, enabled, job, lastId, pending, toSetUp, unresumed, crowded>>,
         outdated' \subseteq outdated, outdated' \subseteq inColumns', inColumns' \subseteq StoredTables \X Chunks,
         rebuilt' \subseteq StoredTables,
         q.at = "rewriting" /\ q.op = "rebuild" =>
            pausers[p].op = "rebuild" /\ \A x \in outdated' : x \in pausers[p].plan => x \in q.plan,
         \A t \in rebuilt' \ rebuilt : \A x \in outdated' : x[1] \in RawTables => x[1] # t
  PROVE  JobInv'
<1> USE DEF JobInv
<1>1. /\ pausers'[p] = q /\ pausers' \in [Pausers -> PauserRecords]
      /\ \A r \in Pausers \ {p} : pausers'[r] = pausers[r]
  BY BecomesParts
<1>2. JobShape'
  BY <1>1 DEF JobShape
<1>3. \A r \in Pausers : /\ pausers'[r].ids = pausers[r].ids /\ pausers'[r].tables = pausers[r].tables
                        /\ pausers'[r].missed = pausers[r].missed
  BY <1>1
<1>4. JobsNumbered' /\ PausersHoldOwn' /\ JobsAreAwaited'
  BY <1>1, <1>3 DEF JobsNumbered, PausersHoldOwn, JobsAreAwaited
<1>5. \A r \in Pausers, t \in StoredTables : HeldBy(r, t)' <=> HeldBy(r, t)
  BY <1>1 DEF HeldBy
<1>6. Alone' /\ WorkIsUndisturbed'
  <2>1. \A r \in Pausers : pausers'[r].at \in {"paused", "rewriting"} => pausers[r].at \in {"paused", "rewriting"}
    BY <1>1
  <2> QED BY <1>3, <1>5, <2>1 DEF Alone, WorkIsUndisturbed
<1>7. PlansAreThorough'
  BY <1>1 DEF PlansAreThorough
<1>8. RebuildIsThorough'
  BY DEF RebuildIsThorough
<1> QED BY <1>2, <1>4, <1>6, <1>7, <1>8

LEMMA EditKeeps ==
  ASSUME JobInv, NEW p \in Pausers, EditChunks(p)
  PROVE  JobInv'
<1> DEFINE q == [pausers[p] EXCEPT !.at = "resuming"]
<1>1. Becomes(p, q) /\ pausers[p] \in PauserRecords
  BY EditStep DEF JobInv, JobShape
<1>2. q.at = "resuming" /\ q.tables = pausers[p].tables /\ q.missed = pausers[p].missed /\ q.ids = pausers[p].ids
  BY <1>1 DEF PauserRecords
<1>3. /\ pausers[p].at = "paused" /\ outdated' \subseteq outdated /\ outdated' \subseteq inColumns'
      /\ inColumns' \subseteq StoredTables \X Chunks
      /\ UNCHANGED <<after, validSettings, enabled, job, lastId, pending, toSetUp, unresumed, crowded, rebuilt>>
  BY DEF EditChunks, JobInv, JobShape, jobHistory
<1>4. rebuilt \subseteq StoredTables
  BY DEF JobInv, JobShape
<1> HIDE DEF q
<1> QED BY <1>1, <1>2, <1>3, <1>4, PauserGoesOn

LEMMA RewriteKeeps ==
  ASSUME JobInv, NEW p \in Pausers, RewriteChunk(p)
  PROVE  JobInv'
<1>1. PICK x \in pausers[p].plan :
        /\ inColumns' = inColumns \cup {x} /\ outdated' = outdated \ {x}
        /\ Becomes(p, [pausers[p] EXCEPT
                         !.plan = @ \ {x}, !.at = IF pausers[p].plan \ {x} = {} THEN "resuming" ELSE @])
        /\ rebuilt' = IF pausers[p].plan \ {x} = {} /\ pausers[p].op = "rebuild"
                      THEN rebuilt \cup pausers[p].tables ELSE rebuilt
  BY RewriteStep DEF JobInv
<1> DEFINE q == [pausers[p] EXCEPT
                   !.plan = @ \ {x}, !.at = IF pausers[p].plan \ {x} = {} THEN "resuming" ELSE @]
<1>2. pausers[p] \in PauserRecords
  BY DEF JobInv, JobShape
<1>3. /\ q.tables = pausers[p].tables /\ q.missed = pausers[p].missed /\ q.ids = pausers[p].ids /\ q.plan = pausers[p].plan \ {x}
      /\ q.op = pausers[p].op /\ q.at \in {pausers[p].at, "resuming"}
  BY <1>2 DEF PauserRecords
<1>4. /\ pausers[p].at = "rewriting"
      /\ UNCHANGED <<after, validSettings, enabled, job, lastId, pending, toSetUp, unresumed, crowded>>
  BY DEF RewriteChunk
<1>5. /\ outdated' \subseteq outdated /\ outdated' \subseteq inColumns' /\ inColumns' \subseteq StoredTables \X Chunks
      /\ rebuilt' \subseteq StoredTables
  BY <1>1, <1>2 DEF JobInv, JobShape, PauserRecords
<1>6. Becomes(p, q)
  BY <1>1
<1> HIDE DEF q
<1>7. \A t \in rebuilt' \ rebuilt : \A y \in outdated' : y[1] \in RawTables => y[1] # t
  BY <1>1, <1>4 DEF JobInv, PlansAreThorough
<1>8. q.at = "rewriting" /\ q.op = "rebuild" =>
         pausers[p].op = "rebuild" /\ \A y \in outdated' : y \in pausers[p].plan => y \in q.plan
  BY <1>1, <1>3
<1> QED BY <1>3, <1>4, <1>5, <1>6, <1>7, <1>8, PauserGoesOn

LEMMA RewriteFailsKeeps ==
  ASSUME JobInv, NEW p \in Pausers, RewriteFails(p)
  PROVE  JobInv'
<1>1. PICK x \in pausers[p].plan :
        Becomes(p, [pausers[p] EXCEPT !.plan = @ \ {x}, !.op = "failed",
                      !.at = IF pausers[p].plan \ {x} = {} THEN "resuming" ELSE @])
  BY RewriteFailsStep DEF JobInv
<1> DEFINE q == [pausers[p] EXCEPT !.plan = @ \ {x}, !.op = "failed",
                   !.at = IF pausers[p].plan \ {x} = {} THEN "resuming" ELSE @]
<1>2. pausers[p] \in PauserRecords
  BY DEF JobInv, JobShape
<1>3. /\ q.tables = pausers[p].tables /\ q.missed = pausers[p].missed /\ q.ids = pausers[p].ids
      /\ q.op = "failed" /\ q.at \in {pausers[p].at, "resuming"}
  BY <1>2 DEF PauserRecords
<1>4. /\ pausers[p].at = "rewriting"
      /\ UNCHANGED <<after, validSettings, enabled, job, lastId, pending, toSetUp, unresumed, crowded, rebuilt,
                     inColumns, outdated>>
  BY DEF RewriteFails, jobDb, jobHistory
<1>5. /\ outdated \subseteq inColumns /\ inColumns \subseteq StoredTables \X Chunks
      /\ rebuilt \subseteq StoredTables
  BY DEF JobInv, JobShape
<1>6. Becomes(p, q)
  BY <1>1
<1> HIDE DEF q
<1> QED BY <1>3, <1>4, <1>5, <1>6, PauserGoesOn

LEMMA StartRebuildKeeps ==
  ASSUME JobInv, NEW p \in Pausers, NEW t \in StoredTables, StartRebuild(p, t)
  PROVE  JobInv'
<1> DEFINE q == [at |-> "planned", op |-> "rebuild", tables |-> {t}, missed |-> {}, ids |-> {},
                 plan |-> CompressedChunks(t)]
<1>1. Becomes(p, q)
  BY StartRebuildStep DEF JobInv
<1>2. /\ q.at = "planned" /\ q.op = "rebuild" /\ q.tables = {t} /\ q.missed = {} /\ q.ids = {} /\ q.plan = CompressedChunks(t)
  OBVIOUS
<1>3. /\ pausers[p].at = "idle" /\ crowded' = (crowded \/ Held(t) \/ t \in toSetUp)
      /\ UNCHANGED <<after, validSettings, enabled, job, lastId, pending, inColumns, outdated, toSetUp, unresumed, rebuilt>>
  BY DEF StartRebuild, jobDb
<1> HIDE DEF q
<1> USE DEF JobInv
<1>4. /\ pausers'[p] = q /\ pausers' \in [Pausers -> PauserRecords]
      /\ \A r \in Pausers \ {p} : pausers'[r] = pausers[r]
  BY <1>1, BecomesParts
<1>5. crowded' \in BOOLEAN
  BY <1>3
<1>6. JobShape'
  BY <1>3, <1>4, <1>5 DEF JobShape
<1>7. pausers[p].ids = {}
  BY <1>3 DEF PausersHoldOwn
<1>8. JobsNumbered' /\ PausersHoldOwn' /\ JobsAreAwaited'
  BY <1>2, <1>3, <1>4, <1>7 DEF JobsNumbered, PausersHoldOwn, JobsAreAwaited
<1>9. Alone'
  BY <1>2, <1>3, <1>4, ZenonT(60) DEF Alone, HeldBy, Held
<1>10. WorkIsUndisturbed'
  BY <1>2, <1>3, <1>4, ZenonT(60) DEF WorkIsUndisturbed, HeldBy
<1>11. PlansAreThorough'
  <2>1. \A x \in outdated : x[1] \in RawTables \cap {t} => x \in CompressedChunks(t)
    BY DEF CompressedChunks, JobShape
  <2> QED BY <1>2, <1>3, <1>4, <2>1 DEF PlansAreThorough
<1>12. RebuildIsThorough'
  BY <1>3 DEF RebuildIsThorough
<1> QED BY <1>6, <1>8, <1>9, <1>10, <1>11, <1>12

LEMMA ResumeFailsKeeps ==
  ASSUME JobInv, NEW p \in Pausers, ResumeFails(p)
  PROVE  JobInv'
<1> USE JobConstants DEF JobInv
<1>1. /\ pausers[p].at = "resuming" /\ pausers' = [pausers EXCEPT ![p] = AtRestPauser]
      /\ unresumed' = unresumed \cup {t \in pausers[p].tables : job[t].id \in pausers[p].ids}
      /\ UNCHANGED <<after, validSettings, enabled, job, lastId, pending, inColumns, outdated, toSetUp, crowded, rebuilt>>
  BY DEF ResumeFails, jobDb
<1>2. Becomes(p, AtRestPauser)
  BY <1>1 DEF Becomes
<1>3. /\ pausers'[p] = AtRestPauser /\ pausers' \in [Pausers -> PauserRecords]
      /\ \A r \in Pausers \ {p} : pausers'[r] = pausers[r]
      /\ pausers[p] \in PauserRecords
  BY <1>2, BecomesParts
<1>4. JobShape'
  BY <1>1, <1>3 DEF JobShape, PauserRecords
<1>5. JobsNumbered' /\ PausersHoldOwn'
  BY <1>1, <1>3 DEF JobsNumbered, PausersHoldOwn
<1>6. JobsAreAwaited'
  <2>1. \A t \in StoredTables : job[t].id \in pausers[p].ids => t \in unresumed'
    BY <1>1 DEF PausersHoldOwn
  <2> QED BY <1>1, <1>3, <2>1 DEF JobsAreAwaited, JobShape
<1>7. Alone' /\ WorkIsUndisturbed' /\ PlansAreThorough' /\ RebuildIsThorough'
  BY <1>1, <1>3 DEF Alone, WorkIsUndisturbed, PlansAreThorough, RebuildIsThorough, HeldBy
<1> QED BY <1>4, <1>5, <1>6, <1>7

\* A job that is stopped here is in the pauser's hands.
LEMMA PauseKeeps ==
  ASSUME JobInv, NEW p \in Pausers, NEW stopped \in SUBSET RawTables, Pause(p, "edit", stopped)
  PROVE  JobInv'
<1>1. PICK missed \in SUBSET stopped, mine \in SUBSET stopped :
        /\ mine = {t \in stopped \ missed : job[t] # NoJob /\ job[t].scheduled}
        /\ job' = [t \in StoredTables |-> IF t \in mine THEN [job[t] EXCEPT !.scheduled = FALSE] ELSE job[t]]
        /\ pausers' = [pausers EXCEPT ![p] =
             [at |-> "paused", op |-> "edit", tables |-> stopped, missed |-> missed,
              ids |-> {job[t].id : t \in mine}, plan |-> {}]]
  BY DEF Pause
<1> DEFINE q == [at |-> "paused", op |-> "edit", tables |-> stopped, missed |-> missed,
                 ids |-> {job[t].id : t \in mine}, plan |-> {}]
<1>2. /\ job' \in [StoredTables -> JobRecords]
      /\ \A t \in StoredTables :
           job'[t] = IF t \in mine THEN [job[t] EXCEPT !.scheduled = FALSE] ELSE job[t]
      /\ Becomes(p, q)
  <2>1. JobShape
    BY DEF JobInv
  <2>2. \A t \in StoredTables : job[t] \in JobRecords /\ [job[t] EXCEPT !.scheduled = FALSE] \in JobRecords
    BY <2>1 DEF JobShape, JobRecords
  <2>3. {job[t].id : t \in mine} \subseteq Nat
    <3>1. \A t \in mine : job[t].id \in Nat
      BY <2>1, JobConstants DEF JobShape, JobRecords
    <3> QED BY <3>1
  <2>4. q \in PauserRecords
    BY <2>3, JobConstants DEF PauserRecords, Places
  <2>5. job' \in [StoredTables -> JobRecords]
    <3>1. \A t \in StoredTables :
            (IF t \in mine THEN [job[t] EXCEPT !.scheduled = FALSE] ELSE job[t]) \in JobRecords
      BY <2>2
    <3> QED BY <1>1, <3>1
  <2> HIDE DEF q, JobShape
  <2>6. Becomes(p, q)
    BY <1>1, <2>4 DEF Becomes, q
  <2> QED BY <1>1, <2>5, <2>6
<1>3. /\ q.at = "paused" /\ q.op = "edit" /\ q.tables = stopped /\ q.missed = missed
      /\ q.ids = {job[t].id : t \in mine}
  OBVIOUS
<1> HIDE DEF q
<1> USE JobConstants DEF JobInv
<1>4. /\ pausers[p].at = "idle" /\ crowded' = (crowded \/ \E t \in stopped : Held(t) \/ t \in toSetUp)
      /\ UNCHANGED <<after, validSettings, enabled, lastId, pending, inColumns, outdated, toSetUp, unresumed, rebuilt>>
  BY DEF Pause
<1>5. /\ pausers'[p] = q /\ pausers' \in [Pausers -> PauserRecords]
      /\ \A r \in Pausers \ {p} : pausers'[r] = pausers[r]
  BY <1>2, BecomesParts
<1>6. /\ mine \subseteq stopped /\ stopped \subseteq StoredTables
      /\ \A t \in StoredTables : job[t] \in JobRecords
  BY <1>1 DEF JobShape
<1>7. \A t \in StoredTables :
        /\ job'[t].id = job[t].id /\ job'[t].after = job[t].after
        /\ job'[t].scheduled => job[t].scheduled
        /\ t \in stopped \ missed => ~job'[t].scheduled
        /\ t \notin mine => job'[t] = job[t]
        /\ t \in mine => job[t].id # 0
  <2> SUFFICES ASSUME NEW t \in StoredTables
               PROVE  /\ job'[t].id = job[t].id /\ job'[t].after = job[t].after
                      /\ job'[t].scheduled => job[t].scheduled
                      /\ t \in stopped \ missed => ~job'[t].scheduled
                      /\ t \notin mine => job'[t] = job[t]
                      /\ t \in mine => job[t].id # 0
    OBVIOUS
  <2>1. CASE t \in mine
    <3>1. job'[t] = [job[t] EXCEPT !.scheduled = FALSE] /\ job[t] \in JobRecords
      BY <1>2, <1>6, <2>1
    <3>2. job'[t].id = job[t].id /\ job'[t].after = job[t].after /\ job'[t].scheduled = FALSE
      BY <3>1 DEF JobRecords
    <3>3. job[t].id # 0
      BY <1>1, <2>1 DEF JobsNumbered
    <3> QED BY <2>1, <3>2, <3>3
  <2>2. CASE t \notin mine
    <3>1. job'[t] = job[t]
      BY <1>2, <2>2
    <3>2. t \in stopped \ missed => ~job[t].scheduled
      BY <1>1, <2>2
    <3> QED BY <2>2, <3>1, <3>2
  <2> QED BY <2>1, <2>2
<1>8. crowded' \in BOOLEAN
  BY <1>4
<1>9. JobShape'
  BY <1>2, <1>4, <1>5, <1>8 DEF JobShape
<1>10. pausers[p].ids = {}
  BY <1>4 DEF PausersHoldOwn
<1>11. JobsNumbered'
  <2>1. \A r \in Pausers : \A i \in pausers'[r].ids : i \in 1..lastId
    <3>1. \A t \in mine : job[t].id \in 1..lastId
      BY <1>6, <1>7 DEF JobsNumbered, JobShape, JobRecords
    <3> QED BY <1>3, <1>5, <3>1 DEF JobsNumbered
  <2>2. \A t \in StoredTables :
          /\ job'[t].id <= lastId
          /\ IF job'[t].id = 0 THEN job'[t] = NoJob ELSE job'[t].after \in AfterValues /\ t \in enabled
    BY <1>7 DEF JobsNumbered
  <2> QED BY <1>4, <1>7, <2>1, <2>2 DEF JobsNumbered
<1>12. PausersHoldOwn'
  <2>1. \A t \in StoredTables : job[t].id \in q.ids => t \in mine
    BY <1>3, <1>6, <1>7 DEF JobsNumbered
  <2> QED BY <1>3, <1>5, <1>6, <1>7, <2>1 DEF PausersHoldOwn
<1>13. JobsAreAwaited'
  <2> SUFFICES ASSUME NEW t \in enabled \ (unresumed \cup toSetUp)
               PROVE  /\ job'[t].id # 0 /\ job'[t].after = after
                      /\ job'[t].scheduled \/ \E r \in Pausers : job'[t].id \in pausers'[r].ids
    BY <1>4 DEF JobsAreAwaited
  <2>1. /\ t \in StoredTables /\ job[t].id # 0 /\ job[t].after = after
        /\ job[t].scheduled \/ \E r \in Pausers : job[t].id \in pausers[r].ids
    BY DEF JobsAreAwaited, JobShape
  <2>2. CASE t \in mine
    BY <1>3, <1>5, <1>7, <2>1, <2>2
  <2>3. CASE t \notin mine
    <3>1. job'[t] = job[t]
      BY <1>7, <2>1, <2>3
    <3> QED BY <1>5, <1>10, <2>1, <3>1
  <2> QED BY <2>2, <2>3
<1>14. Alone'
  <2>1. ~crowded' => ~crowded /\ \A r \in Pausers, t \in stopped : ~HeldBy(r, t)
    BY <1>4 DEF Held
  <2>2. \A t \in StoredTables : HeldBy(p, t)' => t \in stopped
    BY <1>3, <1>5 DEF HeldBy
  <2>3. \A r \in Pausers \ {p}, t \in StoredTables : HeldBy(r, t)' => HeldBy(r, t)
    BY <1>5 DEF HeldBy
  <2> QED BY <2>1, <2>2, <2>3 DEF Alone
<1>15. WorkIsUndisturbed'
  <2> SUFFICES ASSUME ~crowded', NEW r \in Pausers, NEW t \in StoredTables, HeldBy(r, t)',
                      t \notin pausers'[r].missed, pausers'[r].at \in {"paused", "rewriting"}
               PROVE  ~job'[t].scheduled
    BY DEF WorkIsUndisturbed
  <2>1. CASE r = p
    BY <1>3, <1>5, <1>7, <2>1 DEF HeldBy
  <2>2. CASE r # p
    <3>1. ~crowded /\ HeldBy(r, t) /\ t \notin pausers[r].missed /\ pausers[r].at \in {"paused", "rewriting"}
      BY <1>4, <1>5, <2>2 DEF HeldBy
    <3> QED BY <1>7, <3>1 DEF WorkIsUndisturbed
  <2> QED BY <2>1, <2>2
<1>16. PlansAreThorough' /\ RebuildIsThorough'
  BY <1>3, <1>4, <1>5 DEF PlansAreThorough, RebuildIsThorough
<1> QED BY <1>9, <1>11, <1>12, <1>13, <1>14, <1>15, <1>16

LEMMA PauseForRebuildKeeps ==
  ASSUME JobInv, NEW p \in Pausers, PauseForRebuild(p)
  PROVE  JobInv'
<1> USE JobConstants DEF JobInv
<1>1. PICK t \in pausers[p].tables, mine \in BOOLEAN, fails \in BOOLEAN :
        /\ mine <=> job[t] # NoJob /\ job[t].scheduled /\ pausers[p].plan # {} /\ ~fails
        /\ job' = IF mine THEN [job EXCEPT ![t] = [job[t] EXCEPT !.scheduled = FALSE]] ELSE job
        /\ job' \in [StoredTables -> JobRecords]
        /\ rebuilt' = IF pausers[p].plan = {} /\ pausers[p].op = "rebuild" THEN rebuilt \cup {t} ELSE rebuilt
        /\ Becomes(p, [pausers[p] EXCEPT
                         !.at = IF pausers[p].plan = {} THEN "resuming" ELSE "rewriting",
                         !.missed = IF fails THEN {t} ELSE {},
                         !.ids = IF mine THEN {job[t].id} ELSE {}])
  BY PlannedStep
<1> DEFINE q == [pausers[p] EXCEPT !.at = IF pausers[p].plan = {} THEN "resuming" ELSE "rewriting",
                                   !.missed = IF fails THEN {t} ELSE {},
                                   !.ids = IF mine THEN {job[t].id} ELSE {}]
<1>2. pausers[p] \in PauserRecords
  BY DEF JobShape
<1>3. /\ q.tables = pausers[p].tables /\ q.plan = pausers[p].plan /\ q.op = pausers[p].op
      /\ q.at = (IF pausers[p].plan = {} THEN "resuming" ELSE "rewriting")
      /\ q.missed = (IF fails THEN {t} ELSE {})
      /\ q.ids = (IF mine THEN {job[t].id} ELSE {})
  BY <1>2 DEF PauserRecords
<1>4. Becomes(p, q)
  BY <1>1
<1> HIDE DEF q
<1>5. /\ pausers[p].at = "planned"
      /\ UNCHANGED <<after, validSettings, enabled, lastId, pending, inColumns, outdated, toSetUp, unresumed, crowded>>
  BY DEF PauseForRebuild
<1>6. /\ pausers'[p] = q /\ pausers' \in [Pausers -> PauserRecords]
      /\ \A r \in Pausers \ {p} : pausers'[r] = pausers[r]
  BY <1>4, BecomesParts
<1>7. pausers[p].op \in {"rebuild", "overtaken"} /\ pausers[p].tables = {t} /\ t \in StoredTables /\ pausers[p].ids = {}
  BY <1>1, <1>5 DEF PlansAreThorough, PausersHoldOwn
<1>8. \A u \in StoredTables :
        /\ job'[u].id = job[u].id /\ job'[u].after = job[u].after
        /\ job'[u].scheduled => job[u].scheduled
        /\ u # t \/ ~mine => job'[u] = job[u]
  <2>1. \A u \in StoredTables : u # t \/ ~mine => job'[u] = job[u]
    BY <1>1, <1>7 DEF JobShape
  <2>2. mine => job'[t] = [job[t] EXCEPT !.scheduled = FALSE] /\ job[t] \in JobRecords
    BY <1>1, <1>7 DEF JobShape
  <2>3. mine => job'[t].id = job[t].id /\ job'[t].after = job[t].after /\ job'[t].scheduled = FALSE
    BY <2>2 DEF JobRecords
  <2> QED BY <2>1, <2>3
<1>9. q.at = "rewriting" /\ t \notin q.missed => ~job'[t].scheduled
  <2>1. CASE mine
    <3>1. job'[t] = [job[t] EXCEPT !.scheduled = FALSE] /\ job[t] \in JobRecords
      BY <1>1, <1>7, <2>1 DEF JobShape
    <3> QED BY <3>1 DEF JobRecords
  <2>2. CASE ~mine
    <3>1. job'[t] = job[t]
      BY <1>7, <1>8, <2>2
    <3>2. q.at = "rewriting" /\ t \notin q.missed => ~job[t].scheduled
      BY <1>1, <1>3, <2>2
    <3> QED BY <3>1, <3>2
  <2> QED BY <2>1, <2>2
<1>10. mine => job[t].id # 0
  BY <1>1, <1>7 DEF JobsNumbered
<1>11. JobShape'
  BY <1>1, <1>2, <1>5, <1>6, <1>7 DEF JobShape
<1>12. JobsNumbered'
  <2>1. \A r \in Pausers : \A i \in pausers'[r].ids : i \in 1..lastId
    <3>1. mine => job[t].id \in 1..lastId
      BY <1>7, <1>10 DEF JobsNumbered, JobShape, JobRecords
    <3> QED BY <1>3, <1>6, <3>1 DEF JobsNumbered
  <2>2. \A u \in StoredTables :
          /\ job'[u].id <= lastId
          /\ IF job'[u].id = 0 THEN job'[u] = NoJob ELSE job'[u].after \in AfterValues /\ u \in enabled
    BY <1>8, <1>10 DEF JobsNumbered
  <2> QED BY <1>5, <1>8, <2>1, <2>2 DEF JobsNumbered
<1>13. PausersHoldOwn'
  <2>1. \A u \in StoredTables : job[u].id \in q.ids => u = t
    BY <1>3, <1>7, <1>10 DEF JobsNumbered
  <2> QED BY <1>3, <1>6, <1>7, <1>8, <2>1 DEF PausersHoldOwn
<1>14. JobsAreAwaited'
  <2> SUFFICES ASSUME NEW u \in enabled \ (unresumed \cup toSetUp)
               PROVE  /\ job'[u].id # 0 /\ job'[u].after = after
                      /\ job'[u].scheduled \/ \E r \in Pausers : job'[u].id \in pausers'[r].ids
    BY <1>5 DEF JobsAreAwaited
  <2>1. /\ u \in StoredTables /\ job[u].id # 0 /\ job[u].after = after
        /\ job[u].scheduled \/ \E r \in Pausers : job[u].id \in pausers[r].ids
    BY DEF JobsAreAwaited, JobShape
  <2>2. CASE u = t /\ mine
    BY <1>3, <1>6, <1>8, <2>1, <2>2
  <2>3. CASE u # t \/ ~mine
    <3>1. job'[u] = job[u]
      BY <1>8, <2>1, <2>3
    <3> QED BY <1>6, <1>7, <2>1, <3>1
  <2> QED BY <2>2, <2>3
<1>15. \A r \in Pausers, u \in StoredTables : HeldBy(r, u)' <=> HeldBy(r, u)
  BY <1>3, <1>5, <1>6 DEF HeldBy
<1>16. Alone'
  BY <1>5, <1>15 DEF Alone
<1>17. WorkIsUndisturbed'
  <2> SUFFICES ASSUME ~crowded', NEW r \in Pausers, NEW u \in StoredTables, HeldBy(r, u)',
                      u \notin pausers'[r].missed, pausers'[r].at \in {"paused", "rewriting"}
               PROVE  ~job'[u].scheduled
    BY DEF WorkIsUndisturbed
  <2>1. CASE r = p
    BY <1>3, <1>6, <1>7, <1>9, <2>1 DEF HeldBy
  <2>2. CASE r # p
    <3>1. ~crowded /\ HeldBy(r, u) /\ u \notin pausers[r].missed /\ pausers[r].at \in {"paused", "rewriting"}
      BY <1>5, <1>6, <1>15, <2>2
    <3> QED BY <1>8, <3>1 DEF WorkIsUndisturbed
  <2> QED BY <2>1, <2>2
<1>18. PlansAreThorough'
  BY <1>3, <1>5, <1>6 DEF PlansAreThorough
<1>19. RebuildIsThorough'
  BY <1>1, <1>5, <1>7 DEF RebuildIsThorough, PlansAreThorough
<1> QED BY <1>11, <1>12, <1>13, <1>14, <1>16, <1>17, <1>18, <1>19

\* By id: what others hold, or have replaced, is not touched.
LEMMA ResumeKeeps ==
  ASSUME JobInv, NEW p \in Pausers, Resume(p)
  PROVE  JobInv'
<1> USE JobConstants DEF JobInv
<1>1. /\ job' \in [StoredTables -> JobRecords]
      /\ \A t \in StoredTables :
           job'[t] = IF job[t].id \in pausers[p].ids THEN [job[t] EXCEPT !.scheduled = TRUE] ELSE job[t]
      /\ Becomes(p, AtRestPauser)
  BY ResumeStep
<1>2. /\ pausers[p].at = "resuming"
      /\ UNCHANGED <<after, validSettings, enabled, lastId, pending, inColumns, outdated, toSetUp, unresumed, crowded,
                     rebuilt>>
  BY DEF Resume, jobHistory
<1>3. /\ pausers'[p] = AtRestPauser /\ pausers' \in [Pausers -> PauserRecords]
      /\ \A r \in Pausers \ {p} : pausers'[r] = pausers[r]
  BY <1>1, BecomesParts
<1>4. \A t \in StoredTables :
        /\ job'[t].id = job[t].id /\ job'[t].after = job[t].after
        /\ job[t].scheduled => job'[t].scheduled
        /\ job[t].id \in pausers[p].ids => job'[t].scheduled
        /\ job[t].id \notin pausers[p].ids => job'[t] = job[t]
  <2> SUFFICES ASSUME NEW t \in StoredTables, job[t].id \in pausers[p].ids
               PROVE  job'[t].id = job[t].id /\ job'[t].after = job[t].after /\ job'[t].scheduled
    BY <1>1
  <2>1. job'[t] = [job[t] EXCEPT !.scheduled = TRUE] /\ job[t] \in JobRecords
    BY <1>1 DEF JobShape
  <2> QED BY <2>1 DEF JobRecords
<1>5. JobShape'
  BY <1>1, <1>2, <1>3 DEF JobShape
<1>6. 0 \notin pausers[p].ids
  BY DEF JobsNumbered
<1>7. JobsNumbered'
  <2>1. \A r \in Pausers : \A i \in pausers'[r].ids : i \in 1..lastId
    BY <1>3 DEF JobsNumbered
  <2>2. \A t \in StoredTables :
          /\ job'[t].id <= lastId
          /\ IF job'[t].id = 0 THEN job'[t] = NoJob ELSE job'[t].after \in AfterValues /\ t \in enabled
    BY <1>4, <1>6 DEF JobsNumbered
  <2> QED BY <1>2, <1>4, <2>1, <2>2 DEF JobsNumbered
<1>8. PausersHoldOwn'
  BY <1>3, <1>4 DEF PausersHoldOwn
<1>9. JobsAreAwaited'
  <2> SUFFICES ASSUME NEW t \in enabled \ (unresumed \cup toSetUp)
               PROVE  /\ job'[t].id # 0 /\ job'[t].after = after
                      /\ job'[t].scheduled \/ \E r \in Pausers : job'[t].id \in pausers'[r].ids
    BY <1>2 DEF JobsAreAwaited
  <2>1. /\ t \in StoredTables /\ job[t].id # 0 /\ job[t].after = after
        /\ job[t].scheduled \/ \E r \in Pausers : job[t].id \in pausers[r].ids
    BY DEF JobsAreAwaited, JobShape
  <2>2. CASE job[t].id \in pausers[p].ids
    BY <1>4, <2>1, <2>2
  <2>3. CASE job[t].id \notin pausers[p].ids
    BY <1>3, <1>4, <2>1, <2>3
  <2> QED BY <2>2, <2>3
<1>10. Alone'
  BY <1>2, <1>3 DEF Alone, HeldBy
<1>11. WorkIsUndisturbed'
  <2> SUFFICES ASSUME ~crowded', NEW r \in Pausers, NEW t \in StoredTables, HeldBy(r, t)',
                      t \notin pausers'[r].missed, pausers'[r].at \in {"paused", "rewriting"}
               PROVE  ~job'[t].scheduled
    BY DEF WorkIsUndisturbed
  <2>1. r # p
    BY <1>3
  <2>2. ~crowded /\ HeldBy(r, t) /\ t \notin pausers[r].missed /\ pausers[r].at \in {"paused", "rewriting"}
    BY <1>2, <1>3, <2>1 DEF HeldBy
  <2>3. t \notin pausers[p].tables
    BY <1>2, <2>1, <2>2 DEF Alone, HeldBy
  <2>4. job'[t] = job[t]
    BY <1>4, <2>3 DEF PausersHoldOwn
  <2> QED BY <2>2, <2>4 DEF WorkIsUndisturbed
<1>12. PlansAreThorough' /\ RebuildIsThorough'
  BY <1>2, <1>3 DEF PlansAreThorough, RebuildIsThorough
<1> QED BY <1>5, <1>7, <1>8, <1>9, <1>10, <1>11, <1>12

----------------------------------------------------------------------------

LEMMA JobsKeep ==
  ASSUME JobInv, [JobNext]_jobVars
  PROVE  JobInv'
<1>1. ASSUME NEW t \in StoredTables, SetUpAgain(t) PROVE JobInv'
  <2>1. /\ UNCHANGED <<after, validSettings, enabled, job, lastId, pending, inColumns, outdated, pausers, crowded, rebuilt>>
        /\ unresumed \subseteq unresumed' /\ unresumed' \subseteq unresumed \cup {t}
        /\ toSetUp' \subseteq toSetUp \cup {t} /\ toSetUp \subseteq toSetUp' \cup unresumed'
    BY <1>1 DEF SetUpAgain, jobDb, jobHistory
  <2>2. /\ inColumns' \subseteq StoredTables \X Chunks /\ inColumns \subseteq inColumns'
        /\ toSetUp' \cup unresumed' \subseteq StoredTables
    BY <2>1 DEF JobInv, JobShape
  <2> QED BY <2>1, <2>2, QuietJobs
<1>2. ASSUME NEW t \in StoredTables, NEW c \in Chunks, JobRuns(t, c) PROVE JobInv'
  <2>1. /\ UNCHANGED <<after, validSettings, enabled, job, lastId, pending, outdated, toSetUp, unresumed, pausers, crowded,
                       rebuilt>>
        /\ inColumns' = inColumns \cup {<<t, c>>}
    BY <1>2 DEF JobRuns, jobHistory
  <2>2. /\ inColumns' \subseteq StoredTables \X Chunks /\ inColumns \subseteq inColumns'
        /\ toSetUp' \cup unresumed' \subseteq StoredTables
    BY <2>1 DEF JobInv, JobShape
  <2> QED BY <2>1, <2>2, QuietJobs
<1>3. CASE UNCHANGED jobVars
  <2>1. UNCHANGED <<after, validSettings, enabled, job, lastId, pending, inColumns, outdated, toSetUp, unresumed, pausers,
                    crowded, rebuilt>>
    BY <1>3 DEF jobVars, jobDb, jobHistory
  <2>2. inColumns' \subseteq StoredTables \X Chunks /\ toSetUp' \cup unresumed' \subseteq StoredTables
    BY <2>1 DEF JobInv, JobShape
  <2> QED BY <2>1, <2>2, QuietJobs
<1>4. ASSUME NEW p \in Pausers, PausedWork(p) PROVE JobInv'
  BY <1>4, EditKeeps, PauseForRebuildKeeps, RewriteKeeps, RewriteFailsKeeps, ResumeKeeps, ResumeFailsKeeps
     DEF PausedWork
<1> QED BY <1>1, <1>2, <1>3, <1>4, ConfigureKeeps, PurgeKeeps, StartRebuildKeeps, PauseKeeps, RestartKeepsJobs
        DEF JobNext

LEMMA JobInvParts == JobInv => JobTypeOK /\ JobsAreTrue
<1> SUFFICES ASSUME JobInv PROVE JobTypeOK /\ JobsAreTrue
  OBVIOUS
<1> USE DEF JobInv
<1>1. JobTypeOK
  <2>1. \A t \in StoredTables :
          /\ job[t].id \in 0..lastId
          /\ job[t] # NoJob => job[t].after \in AfterValues /\ t \in enabled
    BY DEF JobShape, JobsNumbered, JobRecords
  <2>2. \A p \in Pausers : pausers[p].tables \subseteq StoredTables
    BY DEF JobShape, PauserRecords
  <2> QED BY <2>1, <2>2 DEF JobTypeOK, JobShape
<1>2. PolicyIsRestored
  BY DEF PolicyIsRestored, JobsAreAwaited, PausersHoldOwn
<1> QED BY <1>1, <1>2 DEF JobsAreTrue

\* A compression job that configure_compression() gave a table has an id of its
\* own, the interval of some configuration and a columnstore under it, and
\* pausers hold tables of the bridge.
THEOREM JobsAreTyped == JobSpec => []JobTypeOK
  BY JobInitially, JobsKeep, JobInvParts, PTL DEF JobSpec

\* However pausers, set-ups, purges and restarts overlap, and wherever a pauser
\* dies: once all are at rest every table without a reported failure has its job
\* scheduled with the configured interval; no job runs on a table whose edit or
\* rebuild is alone with it, unless its pause failed; a rebuild without failures
\* leaves no chunk outdated, unless a set-up changed the settings meanwhile.
THEOREM JobsStayTrue == JobSpec => []JobsAreTrue
  BY JobInitially, JobsKeep, JobInvParts, PTL DEF JobSpec

----------------------------------------------------------------------------
(* The wide table. As long as no two metrics clean to one column, a column *)
(* has its metric in the catalog, and the catalog its type.                *)

OwnColumn == \A m, n \in Metrics : ColumnOf[m] = ColumnOf[n] => m = n

TrueCatalog(db) ==
    /\ \A m \in DOMAIN db.catalog :
          /\ db.catalog[m].col = ColumnOf[m]
          /\ ColumnOf[m] \in DOMAIN db.columns /\ db.catalog[m].type = db.columns[ColumnOf[m]]
    /\ \A c \in DOMAIN db.columns : \E m \in DOMAIN db.catalog : c = ColumnOf[m]

Catalogs ==
    {db \in [columns : Partial(Cols, ColumnTypes), catalog : Partial(Metrics, Entries)] : TrueCatalog(db)}

\* What _ensure_columns_for_metrics() does with a metric.
EnsureOne(db, m, casts) == IF m \in DOMAIN db.catalog THEN Known(db, m, casts) ELSE New(db, m)

LEMMA PartialFunctions ==
  ASSUME NEW S, NEW T
  PROVE  \A f \in Partial(S, T) : DOMAIN f \subseteq S /\ f \in [DOMAIN f -> T]
  BY DEF Partial

LEMMA PartialMember ==
  ASSUME NEW S, NEW T, NEW D \in SUBSET S, NEW f \in [D -> T]
  PROVE  f \in Partial(S, T)
  BY DEF Partial

LEMMA EmptyPartial ==
  ASSUME NEW S, NEW T
  PROVE  <<>> \in Partial(S, T) /\ DOMAIN <<>> = {}
<1>1. <<>> \in [{} -> T] /\ DOMAIN <<>> = {}
  OBVIOUS
<1>2. {} \in SUBSET S
  OBVIOUS
<1> QED
  BY <1>1, <1>2, PartialMember

LEMMA KnownStaysTrue ==
  ASSUME OwnColumn, declared \in Declarations, NEW db \in Catalogs,
         NEW m \in DOMAIN declared, m \in DOMAIN db.catalog, NEW casts
  PROVE  /\ Known(db, m, casts) \in Catalogs
         /\ DOMAIN Known(db, m, casts).catalog = DOMAIN db.catalog
<1> DEFINE col == ColumnOf[m]
           type == IF col \in DOMAIN db.columns /\ db.columns[col] # declared[m] /\ col \notin casts
                      THEN db.columns[col] ELSE declared[m]
           new == [columns |-> [db.columns EXCEPT ![col] = type], catalog |-> [db.catalog EXCEPT ![m].type = type]]
<1>1. /\ declared \in Partial(Metrics, ColumnTypes) /\ db.columns \in Partial(Cols, ColumnTypes)
      /\ db.catalog \in Partial(Metrics, Entries) /\ TrueCatalog(db)
  BY DEF Catalogs, Declarations
<1>2. /\ DOMAIN declared \subseteq Metrics /\ declared \in [DOMAIN declared -> ColumnTypes]
      /\ DOMAIN db.columns \subseteq Cols /\ db.columns \in [DOMAIN db.columns -> ColumnTypes]
      /\ DOMAIN db.catalog \subseteq Metrics /\ db.catalog \in [DOMAIN db.catalog -> Entries]
  BY <1>1, PartialFunctions
<1>3. db.catalog[m].col = col /\ col \in DOMAIN db.columns
  BY <1>1 DEF TrueCatalog
<1>4. Known(db, m, casts) = new
  BY <1>3 DEF Known
<1>5. type \in ColumnTypes
  BY <1>2, <1>3
<1> HIDE DEF type
<1>6. new.columns \in [DOMAIN db.columns -> ColumnTypes] /\ new.catalog \in [DOMAIN db.catalog -> Entries]
  <2>1. \A e \in Entries : [e EXCEPT !.type = type] \in Entries
    BY <1>5 DEF Entries
  <2> QED
    BY <1>2, <1>3, <1>5, <2>1
<1>7. new.columns \in Partial(Cols, ColumnTypes) /\ new.catalog \in Partial(Metrics, Entries)
  <2>1. DOMAIN db.columns \in SUBSET Cols /\ DOMAIN db.catalog \in SUBSET Metrics
    BY <1>2
  <2> HIDE DEF new
  <2> QED
    BY <1>6, <2>1, PartialMember
<1>8. TrueCatalog(new)
  <2>1. ASSUME NEW n \in DOMAIN new.catalog
        PROVE  /\ new.catalog[n].col = ColumnOf[n]
               /\ ColumnOf[n] \in DOMAIN new.columns /\ new.catalog[n].type = new.columns[ColumnOf[n]]
    <3>1. /\ n \in DOMAIN db.catalog /\ n \in Metrics /\ m \in Metrics
          /\ db.catalog[n].col = ColumnOf[n] /\ ColumnOf[n] \in DOMAIN db.columns
          /\ db.catalog[n].type = db.columns[ColumnOf[n]]
      BY <1>1, <1>2 DEF TrueCatalog
    <3>2. CASE n = m
      BY <3>1, <3>2, <1>2, <1>3 DEF Entries
    <3>3. CASE n # m
      <4>1. ColumnOf[n] # col
        BY <3>1, <3>3 DEF OwnColumn
      <4> QED
        BY <3>1, <3>3, <4>1, <1>2
    <3> QED
      BY <3>2, <3>3
  <2>2. \A c \in DOMAIN new.columns : \E n \in DOMAIN new.catalog : c = ColumnOf[n]
    BY <1>1 DEF TrueCatalog
  <2> HIDE DEF new
  <2> QED
    BY <2>1, <2>2 DEF TrueCatalog
<1>9. DOMAIN new.catalog = DOMAIN db.catalog /\ new = [columns |-> new.columns, catalog |-> new.catalog]
  OBVIOUS
<1> HIDE DEF new
<1> QED
  BY <1>4, <1>7, <1>8, <1>9 DEF Catalogs

LEMMA NewStaysTrue ==
  ASSUME OwnColumn, declared \in Declarations, NEW db \in Catalogs,
         NEW m \in DOMAIN declared, m \notin DOMAIN db.catalog
  PROVE  New(db, m) \in Catalogs /\ DOMAIN New(db, m).catalog = DOMAIN db.catalog \cup {m}
<1> DEFINE col == ColumnOf[m]
           columnsNow == [c \in DOMAIN db.columns \cup {col} |-> IF c = col THEN declared[m] ELSE db.columns[c]]
           catalogNow == [n \in DOMAIN db.catalog \cup {m} |->
                            IF n = m THEN [col |-> col, type |-> declared[m]] ELSE db.catalog[n]]
           new == [columns |-> columnsNow, catalog |-> catalogNow]
<1>1. /\ declared \in Partial(Metrics, ColumnTypes) /\ db.columns \in Partial(Cols, ColumnTypes)
      /\ db.catalog \in Partial(Metrics, Entries) /\ TrueCatalog(db)
  BY DEF Catalogs, Declarations
<1>2. /\ DOMAIN declared \subseteq Metrics /\ declared \in [DOMAIN declared -> ColumnTypes]
      /\ DOMAIN db.columns \subseteq Cols /\ db.columns \in [DOMAIN db.columns -> ColumnTypes]
      /\ DOMAIN db.catalog \subseteq Metrics /\ db.catalog \in [DOMAIN db.catalog -> Entries]
  BY <1>1, PartialFunctions
<1>3. m \in Metrics /\ col \in Cols /\ declared[m] \in ColumnTypes
  BY <1>2 DEF Cols
<1>4. col \notin DOMAIN db.columns
  BY <1>1, <1>2, <1>3 DEF TrueCatalog, OwnColumn
<1>5. New(db, m) = new
  BY <1>4 DEF New
<1>6. /\ columnsNow \in [DOMAIN db.columns \cup {col} -> ColumnTypes]
      /\ catalogNow \in [DOMAIN db.catalog \cup {m} -> Entries]
  BY <1>2, <1>3 DEF Entries
<1>7. columnsNow \in Partial(Cols, ColumnTypes) /\ catalogNow \in Partial(Metrics, Entries)
  <2>1. DOMAIN db.columns \cup {col} \in SUBSET Cols /\ DOMAIN db.catalog \cup {m} \in SUBSET Metrics
    BY <1>2, <1>3
  <2> HIDE DEF columnsNow, catalogNow
  <2> QED
    BY <1>6, <2>1, PartialMember
<1>8. ASSUME NEW n \in DOMAIN catalogNow
      PROVE  /\ catalogNow[n].col = ColumnOf[n]
             /\ ColumnOf[n] \in DOMAIN columnsNow /\ catalogNow[n].type = columnsNow[ColumnOf[n]]
  <2>1. CASE n = m
    BY <2>1
  <2>2. CASE n # m
    <3>1. /\ n \in DOMAIN db.catalog /\ db.catalog[n].col = ColumnOf[n]
          /\ ColumnOf[n] \in DOMAIN db.columns /\ db.catalog[n].type = db.columns[ColumnOf[n]]
      BY <1>1, <2>2 DEF TrueCatalog
    <3>2. ColumnOf[n] # col
      BY <1>4, <3>1
    <3> QED
      BY <2>2, <3>1, <3>2
  <2> QED
    BY <2>1, <2>2
<1>9. \A c \in DOMAIN columnsNow : \E n \in DOMAIN catalogNow : c = ColumnOf[n]
  BY <1>1 DEF TrueCatalog
<1>10. TrueCatalog(new)
  <2> HIDE DEF columnsNow, catalogNow
  <2> QED
    BY <1>8, <1>9 DEF TrueCatalog
<1>11. DOMAIN catalogNow = DOMAIN db.catalog \cup {m}
  OBVIOUS
<1> HIDE DEF columnsNow, catalogNow
<1> QED
  BY <1>5, <1>7, <1>10, <1>11 DEF Catalogs

LEMMA EnsuredIsFold ==
  ASSUME NEW casts
  PROVE  LET seq == SetToSeq(DOMAIN declared)
             base == [columns |-> columns, catalog |-> catalog]
         IN  Ensured(casts) =
               (CHOOSE f : f = [s \in SUBSET (DOMAIN seq) |->
                   IF s = {} THEN base ELSE EnsureOne(f[s \ {Max(s)}], seq[Max(s)], casts)])[DOMAIN seq]
  BY Zenon DEF Ensured, FoldLeft, MapThenFoldSet, EnsureOne

LEMMA EnsuredIsTrue ==
  ASSUME OwnColumn, declared \in Declarations, [columns |-> columns, catalog |-> catalog] \in Catalogs, NEW casts
  PROVE  /\ Ensured(casts) \in Catalogs
         /\ DOMAIN Ensured(casts).catalog = DOMAIN catalog \cup DOMAIN declared
<1> DEFINE S == DOMAIN declared
           seq == SetToSeq(S)
           k == Cardinality(S)
           base == [columns |-> columns, catalog |-> catalog]
           ensure == [p \in Catalogs \X S |-> EnsureOne(p[1], p[2], casts)]
           P(f) == f = [s \in SUBSET (DOMAIN seq) |->
                         IF s = {} THEN base ELSE EnsureOne(f[s \ {Max(s)}], seq[Max(s)], casts)]
           F == CHOOSE f : P(f)
<1>1. S \subseteq Metrics /\ IsFiniteSet(S)
  BY WideSchemaAssumption, PartialFunctions, FS_Subset DEF Declarations
<1>2. /\ seq \in [1..k -> S] /\ k \in Nat
      /\ \A x \in S : \E i \in 1..k : seq[i] = x
  BY <1>1, SetToSeqCovers
<1>3. \A db \in Catalogs : \A m \in S :
         /\ EnsureOne(db, m, casts) \in Catalogs
         /\ DOMAIN EnsureOne(db, m, casts).catalog = DOMAIN db.catalog \cup {m}
  <2> TAKE db \in Catalogs
  <2> TAKE m \in S
  <2>1. CASE m \in DOMAIN db.catalog
    BY <2>1, KnownStaysTrue DEF EnsureOne
  <2>2. CASE m \notin DOMAIN db.catalog
    BY <2>2, NewStaysTrue DEF EnsureOne
  <2> QED
    BY <2>1, <2>2
<1> HIDE DEF seq, k, S
<1>4. ensure \in [Catalogs \X S -> Catalogs] /\ base \in Catalogs
  BY <1>3
<1> HIDE DEF ensure
<1>5. PICK f : FoldsTo(Catalogs, ensure, base, seq, k, f)
  BY <1>2, <1>4, FoldExists
<1>6. DOMAIN seq = 1..k
  BY <1>2
<1>7. P(f)
  <2>1. ASSUME NEW s \in SUBSET (1..k)
        PROVE  f[s] = IF s = {} THEN base ELSE EnsureOne(f[s \ {Max(s)}], seq[Max(s)], casts)
    <3>1. CASE s = {}
      BY <1>5, <3>1 DEF FoldsTo, FoldStep
    <3>2. CASE s # {}
      <4>1. Max(s) \in s /\ s \ {Max(s)} \in SUBSET (1..k)
        BY <1>2, <3>2, GreatestNumber
      <4>2. seq[Max(s)] \in S /\ f[s \ {Max(s)}] \in Catalogs
        BY <1>2, <1>5, <4>1 DEF FoldsTo
      <4>3. ensure[<<f[s \ {Max(s)}], seq[Max(s)]>>] = EnsureOne(f[s \ {Max(s)}], seq[Max(s)], casts)
        BY <4>2 DEF ensure
      <4> QED
        BY <1>5, <3>2, <4>3 DEF FoldsTo, FoldStep
    <3> QED
      BY <3>1, <3>2
  <2>2. f \in [SUBSET (1..k) -> Catalogs]
    BY <1>5 DEF FoldsTo
  <2> QED
    BY <1>6, <2>1, <2>2
<1>8. P(F)
  <2> HIDE DEF P
  <2> QED
    BY <1>7
<1>9. Ensured(casts) = F[1..k]
  <2>1. Ensured(casts) = F[DOMAIN seq]
    BY EnsuredIsFold, Zenon DEF seq, S
  <2> QED
    BY <1>6, <2>1, Zenon
<1> HIDE DEF F
<1>10. F[1..0] = base /\ \A n \in 1..k : F[1..n] = EnsureOne(F[1..(n - 1)], seq[n], casts)
  <2>1. 1..0 = {} /\ (1..0) \in SUBSET (1..k)
    OBVIOUS
  <2>2. F[1..0] = base
    BY <1>6, <1>8, <2>1
  <2>3. ASSUME NEW n \in 1..k PROVE F[1..n] = EnsureOne(F[1..(n - 1)], seq[n], casts)
    <3>1. n \in Nat \ {0} /\ 1..n # {} /\ (1..n) \in SUBSET (1..k)
      BY <1>2
    <3>2. Max(1..n) = n /\ (1..n) \ {n} = 1..(n - 1)
      BY <3>1, GreatestOfRun
    <3>3. F[1..n] = EnsureOne(F[(1..n) \ {Max(1..n)}], seq[Max(1..n)], casts)
      BY <1>6, <1>8, <3>1
    <3> QED
      BY <3>2, <3>3
  <2> QED
    BY <2>2, <2>3
<1> DEFINE Met(n) == {seq[i] : i \in 1..n}
           Ensures(n) == F[1..n] \in Catalogs /\ DOMAIN F[1..n].catalog = DOMAIN catalog \cup Met(n)
           T == {n \in Nat : n <= k => Ensures(n)}
<1>11. 0 \in T
  BY <1>4, <1>10
<1>12. ASSUME NEW n \in Nat, n \in T PROVE n + 1 \in T
  <2> SUFFICES ASSUME n + 1 <= k PROVE Ensures(n + 1)
    OBVIOUS
  <2>1. n + 1 \in 1..k /\ n <= k /\ n + 1 - 1 = n
    BY <1>2
  <2>2. Ensures(n)
    BY <1>12, <2>1
  <2>3. F[1..(n + 1)] = EnsureOne(F[1..n], seq[n + 1], casts) /\ seq[n + 1] \in S
    BY <1>2, <1>10, <2>1
  <2>4. Met(n + 1) = Met(n) \cup {seq[n + 1]}
    OBVIOUS
  <2> QED
    BY <1>3, <2>2, <2>3, <2>4
<1>13. k \in T
  <2> HIDE DEF T
  <2> QED
    BY <1>2, <1>11, <1>12, Induction
<1>14. Ensures(k)
  BY <1>2, <1>13
<1>15. Met(k) = S
  BY <1>2
<1> QED
  BY <1>9, <1>14, <1>15 DEF S

----------------------------------------------------------------------------
FlushRecords == [at : {"none", "queued", "ready"}, wide : BOOLEAN, keys : SUBSET (Cols \cup Metrics)]
Restores ==
    [at : {"none", "routed", "columns", "cached", "catalog"}, cols : SUBSET Cols,
     catalog : Partial(Metrics, Entries), sound : BOOLEAN]

WideShape ==
    /\ declared \in Declarations /\ [columns |-> columns, catalog |-> catalog] \in Catalogs
    /\ mapping \in Partial(Metrics, Entries) /\ \A m \in DOMAIN mapping : mapping[m].col = ColumnOf[m]
    /\ {registry, wideTable, reachable, reflected, device} \subseteq BOOLEAN
    /\ {deleted, uprooted, misfit, unsynced, blurred} \subseteq BOOLEAN
    /\ step \in {"none", "upsert", "table", "columns"} /\ (step = "columns" \/ columns # <<>> => wideTable)
    /\ outcome \in {"none", "wide", "narrow", "failed"} /\ route \in {"unset", "wide", "narrow"}
    /\ cache \subseteq Cols /\ gate = (IF deleting = NoDeletion THEN 0 ELSE 1)
    /\ inFlush \in FlushRecords
    /\ deleting \in [at : {"none", "planned", "dropped", "synced"}, cols : SUBSET Cols]
    /\ deleting.at = "none" => deleting = NoDeletion

\* The protocol gets its route when its registration is over, and readings, deletions and
\* restores of the wide table come after.
RouteInv ==
    /\ step # "none" \/ outcome = "failed" => route = "unset" /\ mapping = <<>> /\ restore.at = "none"
    /\ inFlush.wide \/ deleting # NoDeletion \/ restore.at # "none" => route = "wide"
    /\ deleting.at \in {"dropped", "synced"} => deleting.cols \cap DOMAIN columns = {}

\* What a restore has read is the table and the catalog, or what they were before a deletion.
RestoreInv ==
    /\ restore \in Restores /\ (restore.at = "none" => restore = NoRestore)
    /\ \A m \in DOMAIN restore.catalog : restore.catalog[m].col = ColumnOf[m]
    /\ restore.at = "columns" =>
          DOMAIN columns \subseteq restore.cols /\ (restore.sound \/ ~blurred => restore.cols = DOMAIN columns)
    /\ restore.at = "catalog" =>
          /\ DOMAIN catalog \subseteq DOMAIN restore.catalog
          /\ restore.sound \/ ~blurred => restore.catalog = catalog
    /\ restore.at \in {"cached", "catalog"} /\ restore.sound => cache = DOMAIN columns

\* The worker's picture, also while columns go.
PictureInv ==
    route = "wide" /\ ~uprooted =>
        /\ DOMAIN columns \subseteq cache /\ (unsynced \/ deleted \/ reflected)
        /\ ~blurred /\ deleting.at # "dropped" => cache = DOMAIN columns
        /\ ~blurred =>
              \A m \in DOMAIN mapping :
                 \/ deleting.at \in {"dropped", "synced"} /\ ColumnOf[m] \in deleting.cols
                 \/ m \in DOMAIN catalog /\ mapping[m] = catalog[m]

\* What the transport reports has its columns until an admin takes one.
ReportedInv ==
    /\ route = "wide" /\ ~uprooted /\ ~deleted => DOMAIN declared \subseteq DOMAIN mapping \cap DOMAIN catalog
    /\ inFlush.wide /\ ~uprooted /\ ~deleted => inFlush.keys \subseteq {ColumnOf[m] : m \in DOMAIN declared}
    /\ misfit => deleted \/ uprooted \/ unsynced

WideInv == WideShape /\ RouteInv /\ RestoreInv /\ PictureInv /\ ReportedInv

LEMMA WideFacts ==
  ASSUME WideShape
  PROVE  /\ DOMAIN columns \subseteq Cols /\ columns \in [DOMAIN columns -> ColumnTypes]
         /\ catalog \in Partial(Metrics, Entries)
         /\ DOMAIN catalog \subseteq Metrics /\ catalog \in [DOMAIN catalog -> Entries]
         /\ DOMAIN mapping \subseteq Metrics /\ mapping \in [DOMAIN mapping -> Entries]
         /\ DOMAIN declared \subseteq Metrics
         /\ \A m \in DOMAIN catalog :
               /\ catalog[m].col = ColumnOf[m]
               /\ ColumnOf[m] \in DOMAIN columns /\ catalog[m].type = columns[ColumnOf[m]]
         /\ \A c \in DOMAIN columns : \E m \in DOMAIN catalog : c = ColumnOf[m]
<1>1. /\ columns \in Partial(Cols, ColumnTypes) /\ catalog \in Partial(Metrics, Entries)
      /\ TrueCatalog([columns |-> columns, catalog |-> catalog])
  BY DEF WideShape, Catalogs
<1>2. mapping \in Partial(Metrics, Entries) /\ declared \in Partial(Metrics, ColumnTypes)
  BY DEF WideShape, Declarations
<1> QED
  BY <1>1, <1>2, PartialFunctions DEF TrueCatalog

LEMMA KeysAreNames ==
  ASSUME WideShape
  PROVE  KeysOf \subseteq Cols \cup Metrics
<1>1. ASSUME NEW m \in DOMAIN declared PROVE KeyOf(m) \in Cols \cup Metrics
  BY WideFacts DEF KeyOf, Entries
<1> QED
  BY <1>1 DEF KeysOf

LEMMA ReportedKeys ==
  ASSUME WideInv, route = "wide", ~uprooted, ~deleted
  PROVE  /\ \A m \in DOMAIN declared : KeyOf(m) = ColumnOf[m]
         /\ KeysOf = {ColumnOf[m] : m \in DOMAIN declared} /\ KeysOf \subseteq DOMAIN columns
         /\ KeysOf \subseteq cache
<1>1. ASSUME NEW m \in DOMAIN declared PROVE KeyOf(m) = ColumnOf[m] /\ ColumnOf[m] \in DOMAIN columns
  BY WideFacts DEF WideInv, WideShape, ReportedInv, KeyOf
<1>2. DOMAIN columns \subseteq cache
  BY DEF WideInv, PictureInv
<1> QED
  BY <1>1, <1>2 DEF KeysOf

WideTables == [columns |-> columns, catalog |-> catalog] \in Catalogs

\* A deletion takes the columns and their catalog rows, and leaves the others.
LEMMA DroppedColumns ==
  ASSUME OwnColumn, WideInv, DropWideColumns
  PROVE  /\ WideTables'
         /\ \A m \in DOMAIN catalog :
               ColumnOf[m] \notin deleting.cols => m \in DOMAIN catalog' /\ catalog'[m] = catalog[m]
<1>1. PICK left \in CatalogAfter(deleting.cols) : catalog' = [m \in left |-> catalog[m]]
  BY DEF DropWideColumns
<1>2. columns' = [c \in DOMAIN columns \ deleting.cols |-> columns[c]]
  BY DEF DropWideColumns
<1>3. left \subseteq DOMAIN catalog /\ \A m \in DOMAIN catalog : ColumnOf[m] \notin deleting.cols => m \in left
  BY WideFacts DEF CatalogAfter, WideInv
<1>4. ASSUME NEW m \in left PROVE ColumnOf[m] \notin deleting.cols
  <2> SUFFICES ASSUME ColumnOf[m] \in deleting.cols PROVE FALSE
    OBVIOUS
  <2> DEFINE gone == {n \in DOMAIN catalog \ left : catalog[n].col = ColumnOf[m]}
  <2>1. Cardinality(gone) = 1
    BY DEF CatalogAfter
  <2>2. gone = {}
    BY <1>3, WideFacts DEF OwnColumn, WideInv
  <2> QED
    BY <2>1, <2>2, FS_EmptySet
<1>5. columns' \in [DOMAIN columns \ deleting.cols -> ColumnTypes] /\ catalog' \in [left -> Entries]
  BY <1>1, <1>2, <1>3, WideFacts DEF WideInv
<1>6. columns' \in Partial(Cols, ColumnTypes) /\ catalog' \in Partial(Metrics, Entries)
  <2>1. DOMAIN columns \ deleting.cols \in SUBSET Cols /\ left \in SUBSET Metrics
    BY <1>3, WideFacts DEF WideInv
  <2> QED
    BY <1>5, <2>1, PartialMember
<1>7. TrueCatalog([columns |-> columns', catalog |-> catalog'])
  <2>1. \A m \in DOMAIN catalog' :
           /\ catalog'[m].col = ColumnOf[m]
           /\ ColumnOf[m] \in DOMAIN columns' /\ catalog'[m].type = columns'[ColumnOf[m]]
    BY <1>1, <1>2, <1>3, <1>4, WideFacts DEF WideInv
  <2>2. \A c \in DOMAIN columns' : \E m \in DOMAIN catalog' : c = ColumnOf[m]
    BY <1>1, <1>2, <1>3, WideFacts DEF WideInv
  <2> QED
    BY <2>1, <2>2 DEF TrueCatalog
<1> QED
  BY <1>1, <1>3, <1>6, <1>7 DEF WideTables, Catalogs

LEMMA Readings ==
  /\ NoReading \in FlushRecords /\ NoReading = [at |-> "none", wide |-> FALSE, keys |-> {}]
  /\ \A wide \in BOOLEAN : [at |-> "queued", wide |-> wide, keys |-> {}] \in FlushRecords
  /\ \A f \in FlushRecords : [f EXCEPT !.at = "ready"] \in FlushRecords
  /\ \A f \in FlushRecords, ks \in SUBSET (Cols \cup Metrics) :
        [f EXCEPT !.at = "ready", !.keys = ks] \in FlushRecords
  BY DEF NoReading, FlushRecords
LEMMA NothingRestored == NoRestore \in Restores /\ DOMAIN NoRestore.catalog = {}
  BY EmptyPartial DEF NoRestore, Restores

LEMMA WideStep ==
  ASSUME OwnColumn, WideInv, [WideNext]_wideVars
  PROVE  WideInv'
<1> USE DEF dbVars, memVars, wideHistory, wideBounds, wideVars
<1>1. CASE RegistrationRaises
  <2>1. WideShape'
    BY <1>1 DEF RegistrationRaises, WideInv, WideShape, RouteInv, Stops, Handled, Dropped, NoReading, NoDeletion, NoRestore, Forgotten
  <2>2. RouteInv'
    BY <1>1 DEF RegistrationRaises, WideInv, WideShape, RouteInv, Stops, Handled, Dropped, NoReading, NoDeletion, NoRestore, Forgotten
  <2>3. RestoreInv'
    BY <1>1 DEF RegistrationRaises, WideInv, WideShape, RouteInv, RestoreInv, Stops, Handled, Dropped, NoReading, NoDeletion, NoRestore, Forgotten
  <2>4. PictureInv'
    BY <1>1 DEF RegistrationRaises, WideInv, WideShape, RouteInv, RestoreInv, PictureInv, Stops, Handled, Dropped, NoReading, NoDeletion, NoRestore, Forgotten
  <2>5. ReportedInv'
    BY <1>1 DEF RegistrationRaises, WideInv, WideShape, RouteInv, RestoreInv, PictureInv, ReportedInv, Stops, Handled, Dropped, NoReading, NoDeletion, NoRestore, Forgotten
  <2> QED
    BY <2>1, <2>2, <2>3, <2>4, <2>5 DEF WideInv
<1>2. CASE UpsertRegistry
  <2>1. WideShape'
    BY <1>2 DEF UpsertRegistry, WideInv, WideShape, RouteInv, Stops, Handled, Dropped, NoReading, NoDeletion, NoRestore, Forgotten
  <2>2. RouteInv'
    BY <1>2 DEF UpsertRegistry, WideInv, WideShape, RouteInv, Stops, Handled, Dropped, NoReading, NoDeletion, NoRestore, Forgotten
  <2>3. RestoreInv'
    BY <1>2 DEF UpsertRegistry, WideInv, WideShape, RouteInv, RestoreInv, Stops, Handled, Dropped, NoReading, NoDeletion, NoRestore, Forgotten
  <2>4. PictureInv'
    BY <1>2 DEF UpsertRegistry, WideInv, WideShape, RouteInv, RestoreInv, PictureInv, Stops, Handled, Dropped, NoReading, NoDeletion, NoRestore, Forgotten
  <2>5. ReportedInv'
    BY <1>2 DEF UpsertRegistry, WideInv, WideShape, RouteInv, RestoreInv, PictureInv, ReportedInv, Stops, Handled, Dropped, NoReading, NoDeletion, NoRestore, Forgotten
  <2> QED
    BY <2>1, <2>2, <2>3, <2>4, <2>5 DEF WideInv
<1>3. CASE EnsureWideTable
  <2>1. WideShape'
    BY <1>3 DEF EnsureWideTable, WideInv, WideShape, RouteInv, Stops, Handled, Dropped, NoReading, NoDeletion, NoRestore, Forgotten
  <2>2. RouteInv'
    BY <1>3 DEF EnsureWideTable, WideInv, WideShape, RouteInv, Stops, Handled, Dropped, NoReading, NoDeletion, NoRestore, Forgotten
  <2>3. RestoreInv'
    BY <1>3 DEF EnsureWideTable, WideInv, WideShape, RouteInv, RestoreInv, Stops, Handled, Dropped, NoReading, NoDeletion, NoRestore, Forgotten
  <2>4. PictureInv'
    BY <1>3 DEF EnsureWideTable, WideInv, WideShape, RouteInv, RestoreInv, PictureInv, Stops, Handled, Dropped, NoReading, NoDeletion, NoRestore, Forgotten
  <2>5. ReportedInv'
    BY <1>3 DEF EnsureWideTable, WideInv, WideShape, RouteInv, RestoreInv, PictureInv, ReportedInv, Stops, Handled, Dropped, NoReading, NoDeletion, NoRestore, Forgotten
  <2> QED
    BY <2>1, <2>2, <2>3, <2>4, <2>5 DEF WideInv
<1>4. CASE RetryFailedRegistration
  <2>1. WideShape'
    BY <1>4 DEF RetryFailedRegistration, WideInv, WideShape, RouteInv, Stops, Handled, Dropped, NoReading, NoDeletion, NoRestore, Forgotten
  <2>2. RouteInv'
    BY <1>4 DEF RetryFailedRegistration, WideInv, WideShape, RouteInv, Stops, Handled, Dropped, NoReading, NoDeletion, NoRestore, Forgotten
  <2>3. RestoreInv'
    BY <1>4 DEF RetryFailedRegistration, WideInv, WideShape, RouteInv, RestoreInv, Stops, Handled, Dropped, NoReading, NoDeletion, NoRestore, Forgotten
  <2>4. PictureInv'
    BY <1>4 DEF RetryFailedRegistration, WideInv, WideShape, RouteInv, RestoreInv, PictureInv, Stops, Handled, Dropped, NoReading, NoDeletion, NoRestore, Forgotten
  <2>5. ReportedInv'
    BY <1>4 DEF RetryFailedRegistration, WideInv, WideShape, RouteInv, RestoreInv, PictureInv, ReportedInv, Stops, Handled, Dropped, NoReading, NoDeletion, NoRestore, Forgotten
  <2> QED
    BY <2>1, <2>2, <2>3, <2>4, <2>5 DEF WideInv
<1>5. CASE RestoreRoute
  <2>1. WideShape'
    BY <1>5 DEF RestoreRoute, WideInv, WideShape, RouteInv, Stops, Handled, Dropped, NoReading, NoDeletion, NoRestore, Forgotten
  <2>2. RouteInv'
    BY <1>5 DEF RestoreRoute, WideInv, WideShape, RouteInv, Stops, Handled, Dropped, NoReading, NoDeletion, NoRestore, Forgotten
  <2>3. RestoreInv'
    <3>1. restore' = restore \/ restore' = [NoRestore EXCEPT !.at = "routed", !.sound = TRUE]
      BY <1>5 DEF RestoreRoute
    <3>2. restore = NoRestore /\ UNCHANGED <<columns, catalog, cache, blurred>>
      BY <1>5 DEF RestoreRoute
    <3>3. /\ restore' \in Restores /\ restore'.at \in {"none", "routed"} /\ DOMAIN restore'.catalog = {}
          /\ restore'.at = "none" => restore' = NoRestore
      BY <3>1, <3>2, NothingRestored DEF NoRestore, Restores
    <3> QED
      BY <3>3 DEF RestoreInv
  <2>4. PictureInv'
    BY <1>5 DEF RestoreRoute, WideInv, WideShape, RouteInv, RestoreInv, PictureInv, Stops, Handled, Dropped, NoReading, NoDeletion, NoRestore, Forgotten
  <2>5. ReportedInv'
    BY <1>5 DEF RestoreRoute, WideInv, WideShape, RouteInv, RestoreInv, PictureInv, ReportedInv, Stops, Handled, Dropped, NoReading, NoDeletion, NoRestore, Forgotten
  <2> QED
    BY <2>1, <2>2, <2>3, <2>4, <2>5 DEF WideInv
<1>6. CASE ReadColumns
  <2>1. WideShape'
    BY <1>6 DEF ReadColumns, WideInv, WideShape, RouteInv, Stops, Handled, Dropped, NoReading, NoDeletion, NoRestore, Forgotten
  <2>2. RouteInv'
    BY <1>6 DEF ReadColumns, WideInv, WideShape, RouteInv, Stops, Handled, Dropped, NoReading, NoDeletion, NoRestore, Forgotten
  <2>3. RestoreInv'
    <3>1. DOMAIN columns \subseteq Cols
      BY WideFacts DEF WideInv
    <3> QED
      BY <3>1, <1>6 DEF ReadColumns, WideInv, RestoreInv, Restores
  <2>4. PictureInv'
    BY <1>6 DEF ReadColumns, WideInv, WideShape, RouteInv, RestoreInv, PictureInv, Stops, Handled, Dropped, NoReading, NoDeletion, NoRestore, Forgotten
  <2>5. ReportedInv'
    BY <1>6 DEF ReadColumns, WideInv, WideShape, RouteInv, RestoreInv, PictureInv, ReportedInv, Stops, Handled, Dropped, NoReading, NoDeletion, NoRestore, Forgotten
  <2> QED
    BY <2>1, <2>2, <2>3, <2>4, <2>5 DEF WideInv
<1>7. CASE RestoreCache
  <2>1. WideShape'
    BY <1>7 DEF RestoreCache, WideInv, WideShape, RestoreInv, Restores
  <2>2. RouteInv'
    BY <1>7 DEF RestoreCache, WideInv, WideShape, RouteInv, Stops, Handled, Dropped, NoReading, NoDeletion, NoRestore, Forgotten
  <2>3. RestoreInv'
    BY <1>7 DEF RestoreCache, WideInv, RestoreInv, Restores
  <2>4. PictureInv'
    BY <1>7 DEF RestoreCache, WideInv, WideShape, RouteInv, RestoreInv, PictureInv, Stops, Handled, Dropped, NoReading, NoDeletion, NoRestore, Forgotten
  <2>5. ReportedInv'
    BY <1>7 DEF RestoreCache, WideInv, WideShape, RouteInv, RestoreInv, PictureInv, ReportedInv, Stops, Handled, Dropped, NoReading, NoDeletion, NoRestore, Forgotten
  <2> QED
    BY <2>1, <2>2, <2>3, <2>4, <2>5 DEF WideInv
<1>8. CASE ReadCatalog
  <2>1. WideShape'
    BY <1>8 DEF ReadCatalog, WideInv, WideShape, RouteInv, Stops, Handled, Dropped, NoReading, NoDeletion, NoRestore, Forgotten
  <2>2. RouteInv'
    BY <1>8 DEF ReadCatalog, WideInv, WideShape, RouteInv, Stops, Handled, Dropped, NoReading, NoDeletion, NoRestore, Forgotten
  <2>3. RestoreInv'
    <3>1. catalog \in Partial(Metrics, Entries) /\ \A m \in DOMAIN catalog : catalog[m].col = ColumnOf[m]
      BY WideFacts DEF WideInv
    <3> QED
      BY <3>1, <1>8 DEF ReadCatalog, WideInv, WideShape, RestoreInv, Restores
  <2>4. PictureInv'
    BY <1>8 DEF ReadCatalog, WideInv, WideShape, RouteInv, RestoreInv, PictureInv, Stops, Handled, Dropped, NoReading, NoDeletion, NoRestore, Forgotten
  <2>5. ReportedInv'
    BY <1>8 DEF ReadCatalog, WideInv, WideShape, RouteInv, RestoreInv, PictureInv, ReportedInv, Stops, Handled, Dropped, NoReading, NoDeletion, NoRestore, Forgotten
  <2> QED
    BY <2>1, <2>2, <2>3, <2>4, <2>5 DEF WideInv
<1>9. CASE RestoreMapping
  <2>1. WideShape'
    <3>1. blurred' \in BOOLEAN
      BY <1>9 DEF RestoreMapping, WideInv, WideShape, RestoreInv, Restores
    <3> QED
      BY <3>1, <1>9 DEF RestoreMapping, WideInv, WideShape, RestoreInv, Restores
  <2>2. RouteInv'
    BY <1>9 DEF RestoreMapping, WideInv, WideShape, RouteInv, Stops, Handled, Dropped, NoReading, NoDeletion, NoRestore, Forgotten
  <2>3. RestoreInv'
    BY NothingRestored, <1>9 DEF RestoreMapping, RestoreInv, NoRestore
  <2>4. PictureInv'
    BY <1>9 DEF RestoreMapping, WideInv, WideShape, RouteInv, RestoreInv, PictureInv, Stops, Handled, Dropped, NoReading, NoDeletion, NoRestore, Forgotten
  <2>5. ReportedInv'
    BY <1>9 DEF RestoreMapping, WideInv, WideShape, RouteInv, RestoreInv, PictureInv, ReportedInv, Stops, Handled, Dropped, NoReading, NoDeletion, NoRestore, Forgotten
  <2> QED
    BY <2>1, <2>2, <2>3, <2>4, <2>5 DEF WideInv
<1>10. CASE RestoreFails
  <2>1. WideShape'
    BY <1>10 DEF RestoreFails, WideInv, WideShape, RouteInv, Stops, Handled, Dropped, NoReading, NoDeletion, NoRestore, Forgotten
  <2>2. RouteInv'
    BY <1>10 DEF RestoreFails, WideInv, WideShape, RouteInv, Stops, Handled, Dropped, NoReading, NoDeletion, NoRestore, Forgotten
  <2>3. RestoreInv'
    <3>1. \/ restore' = NoRestore
          \/ restore.at = "routed" /\ restore' = [restore EXCEPT !.at = "cached", !.sound = FALSE]
      BY <1>10 DEF RestoreFails
    <3>2. UNCHANGED <<columns, catalog, cache, blurred>>
      BY <1>10 DEF RestoreFails
    <3> QED
      BY <3>1, <3>2, NothingRestored DEF WideInv, RestoreInv, NoRestore, Restores
  <2>4. PictureInv'
    BY <1>10 DEF RestoreFails, WideInv, WideShape, RouteInv, RestoreInv, PictureInv, Stops, Handled, Dropped, NoReading, NoDeletion, NoRestore, Forgotten
  <2>5. ReportedInv'
    BY <1>10 DEF RestoreFails, WideInv, WideShape, RouteInv, RestoreInv, PictureInv, ReportedInv, Stops, Handled, Dropped, NoReading, NoDeletion, NoRestore, Forgotten
  <2> QED
    BY <2>1, <2>2, <2>3, <2>4, <2>5 DEF WideInv
<1>11. CASE ResolveDevice
  <2>1. WideShape'
    BY <1>11 DEF ResolveDevice, WideInv, WideShape, RouteInv, Stops, Handled, Dropped, NoReading, NoDeletion, NoRestore, Forgotten
  <2>2. RouteInv'
    BY <1>11 DEF ResolveDevice, WideInv, WideShape, RouteInv, Stops, Handled, Dropped, NoReading, NoDeletion, NoRestore, Forgotten
  <2>3. RestoreInv'
    BY <1>11 DEF ResolveDevice, WideInv, WideShape, RouteInv, RestoreInv, Stops, Handled, Dropped, NoReading, NoDeletion, NoRestore, Forgotten
  <2>4. PictureInv'
    BY <1>11 DEF ResolveDevice, WideInv, WideShape, RouteInv, RestoreInv, PictureInv, Stops, Handled, Dropped, NoReading, NoDeletion, NoRestore, Forgotten
  <2>5. ReportedInv'
    BY <1>11 DEF ResolveDevice, WideInv, WideShape, RouteInv, RestoreInv, PictureInv, ReportedInv, Stops, Handled, Dropped, NoReading, NoDeletion, NoRestore, Forgotten
  <2> QED
    BY <2>1, <2>2, <2>3, <2>4, <2>5 DEF WideInv
<1>12. CASE TakeReading
  <2>1. WideShape'
    BY Readings, <1>12 DEF TakeReading, WideInv, WideShape, RouteInv, Stops, Handled, Dropped, NoDeletion, NoRestore, Forgotten
  <2>2. RouteInv'
    BY <1>12 DEF TakeReading, WideInv, WideShape, RouteInv, Stops, Handled, Dropped, NoReading, NoDeletion, NoRestore, Forgotten
  <2>3. RestoreInv'
    BY <1>12 DEF TakeReading, WideInv, WideShape, RouteInv, RestoreInv, Stops, Handled, Dropped, NoReading, NoDeletion, NoRestore, Forgotten
  <2>4. PictureInv'
    BY <1>12 DEF TakeReading, WideInv, WideShape, RouteInv, RestoreInv, PictureInv, Stops, Handled, Dropped, NoReading, NoDeletion, NoRestore, Forgotten
  <2>5. ReportedInv'
    BY <1>12 DEF TakeReading, WideInv, WideShape, RouteInv, RestoreInv, PictureInv, ReportedInv, Stops, Handled, Dropped, NoReading, NoDeletion, NoRestore, Forgotten
  <2> QED
    BY <2>1, <2>2, <2>3, <2>4, <2>5 DEF WideInv
<1>13. CASE PrepareReading
  <2>1. WideShape'
    <3>1. KeysOf \subseteq Cols \cup Metrics /\ DOMAIN columns \subseteq Cols
      BY KeysAreNames, WideFacts DEF WideInv
    <3>2. inFlush' \in FlushRecords
      <4>1. \/ inFlush' = [inFlush EXCEPT !.at = "ready"]
            \/ inFlush' = [inFlush EXCEPT !.at = "ready", !.keys = KeysOf]
            \/ inFlush' = NoReading
        BY <1>13 DEF PrepareReading, Dropped
      <4>2. inFlush \in FlushRecords /\ NoReading \in FlushRecords
        BY Readings DEF WideInv, WideShape
      <4> QED
        BY <3>1, <4>1, <4>2 DEF FlushRecords
    <3>3. reflected' \in BOOLEAN
      BY <1>13 DEF PrepareReading, WideInv, WideShape
    <3> QED
      BY <3>1, <3>2, <3>3, <1>13, ZenonT(60) DEF PrepareReading, WideInv, WideShape, Dropped
  <2>2. RouteInv'
    <3>1. inFlush'.wide => inFlush.wide
      BY <1>13 DEF PrepareReading, WideInv, WideShape, FlushRecords, Dropped, NoReading
    <3> QED
      BY <3>1, <1>13 DEF PrepareReading, WideInv, RouteInv
  <2>3. RestoreInv'
    BY <1>13 DEF PrepareReading, WideInv, WideShape, RouteInv, RestoreInv, Stops, Handled, Dropped, NoReading, NoDeletion, NoRestore, Forgotten
  <2>4. PictureInv'
    BY <1>13 DEF PrepareReading, WideInv, WideShape, RouteInv, RestoreInv, PictureInv, Stops, Handled, Dropped, NoReading, NoDeletion, NoRestore, Forgotten
  <2>5. ReportedInv'
    <3>1. CASE uprooted \/ deleted
      BY <3>1, <1>13 DEF PrepareReading, WideInv, WideShape, ReportedInv
    <3>2. CASE ~uprooted /\ ~deleted /\ inFlush.wide
      <4>1. route = "wide" /\ KeysOf = {ColumnOf[m] : m \in DOMAIN declared} /\ KeysOf \subseteq cache
        BY <3>2, ReportedKeys DEF WideInv, RouteInv
      <4>2. cache' = cache /\ inFlush' = [inFlush EXCEPT !.at = "ready", !.keys = KeysOf] /\ misfit' = misfit
        BY <3>2, <4>1, <1>13 DEF PrepareReading
      <4> QED
        BY <3>2, <4>1, <4>2, <1>13 DEF PrepareReading, WideInv, WideShape, FlushRecords, ReportedInv
    <3>3. CASE ~uprooted /\ ~deleted /\ ~inFlush.wide
      BY <3>3, <1>13 DEF PrepareReading, WideInv, WideShape, FlushRecords, ReportedInv
    <3> QED
      BY <3>1, <3>2, <3>3
  <2> QED
    BY <2>1, <2>2, <2>3, <2>4, <2>5 DEF WideInv
<1>14. CASE WriteReading
  <2>1. WideShape'
    BY Readings, <1>14 DEF WriteReading, WideInv, WideShape, RouteInv, Stops, Handled, Dropped, NoDeletion, NoRestore, Forgotten
  <2>2. RouteInv'
    BY <1>14 DEF WriteReading, WideInv, WideShape, RouteInv, Stops, Handled, Dropped, NoReading, NoDeletion, NoRestore, Forgotten
  <2>3. RestoreInv'
    BY <1>14 DEF WriteReading, WideInv, WideShape, RouteInv, RestoreInv, Stops, Handled, Dropped, NoReading, NoDeletion, NoRestore, Forgotten
  <2>4. PictureInv'
    BY <1>14 DEF WriteReading, WideInv, WideShape, RouteInv, RestoreInv, PictureInv, Stops, Handled, Dropped, NoReading, NoDeletion, NoRestore, Forgotten
  <2>5. ReportedInv'
    <3>1. CASE uprooted \/ deleted \/ unsynced
      BY <3>1, <1>14 DEF WriteReading, WideInv, WideShape, ReportedInv, Dropped, Handled, NoReading
    <3>2. CASE ~uprooted /\ ~deleted /\ ~unsynced
      <4>1. inFlush.wide => reflected /\ inFlush.keys \subseteq DOMAIN columns
        BY <3>2, ReportedKeys DEF WideInv, RouteInv, PictureInv, ReportedInv
      <4>2. inFlush' = NoReading /\ misfit' = misfit
        BY <4>1, <1>14 DEF WriteReading, Dropped, Handled
      <4> QED
        BY <3>2, <4>2, <1>14 DEF WriteReading, WideInv, ReportedInv, NoReading
    <3> QED
      BY <3>1, <3>2
  <2> QED
    BY <2>1, <2>2, <2>3, <2>4, <2>5 DEF WideInv
<1>15. CASE KeepReading
  <2>1. WideShape'
    BY Readings, <1>15 DEF KeepReading, WideInv, WideShape, RouteInv, Stops, Handled, Dropped, NoDeletion, NoRestore, Forgotten
  <2>2. RouteInv'
    <3>1. inFlush' = NoReading
      BY <1>15 DEF KeepReading, Dropped, Handled
    <3>2. UNCHANGED <<step, outcome, route, mapping, restore, deleting, columns>>
      BY <1>15 DEF KeepReading
    <3> QED
      BY <3>1, <3>2 DEF WideInv, RouteInv, NoReading
  <2>3. RestoreInv'
    BY <1>15 DEF KeepReading, WideInv, WideShape, RouteInv, RestoreInv, Stops, Handled, Dropped, NoReading, NoDeletion, NoRestore, Forgotten
  <2>4. PictureInv'
    <3>1. ASSUME route = "wide", ~uprooted, ~deleted PROVE UNCHANGED reflected
      <4>1. ~Unmatched
        BY <3>1, ReportedKeys DEF Unmatched
      <4> QED
        BY <4>1, <1>15 DEF KeepReading
    <3>2. uprooted \in BOOLEAN /\ deleted \in BOOLEAN /\ UNCHANGED <<route, uprooted, deleted, unsynced, blurred,
             columns, catalog, cache, mapping, deleting>>
      BY <1>15 DEF KeepReading, WideInv, WideShape
    <3> QED
      BY <3>1, <3>2 DEF WideInv, PictureInv
  <2>5. ReportedInv'
    <3>1. CASE uprooted \/ deleted
      BY <3>1, <1>15 DEF KeepReading, WideInv, WideShape, ReportedInv, Dropped, Handled, NoReading
    <3>2. CASE ~uprooted /\ ~deleted
      <4>1. ~Unmatched
        BY <3>2, ReportedKeys DEF Unmatched, WideInv, RouteInv
      <4>2. inFlush' = NoReading /\ misfit' = misfit
        BY <4>1, <1>15 DEF KeepReading, Handled
      <4> QED
        BY <3>2, <4>2, <1>15 DEF KeepReading, WideInv, ReportedInv, NoReading
    <3> QED
      BY <3>1, <3>2
  <2> QED
    BY <2>1, <2>2, <2>3, <2>4, <2>5 DEF WideInv
<1>16. CASE SyncColumns
  <2>1. WideShape'
    <3>1. DOMAIN columns \subseteq Cols
      BY WideFacts DEF WideInv
    <3> QED
      BY <3>1, <1>16 DEF SyncColumns, WideInv, WideShape, NoDeletion
  <2>2. RouteInv'
    BY <1>16 DEF SyncColumns, WideInv, WideShape, RouteInv, Stops, Handled, Dropped, NoReading, NoDeletion, NoRestore, Forgotten
  <2>3. RestoreInv'
    BY <1>16 DEF SyncColumns, WideInv, WideShape, RouteInv, RestoreInv, Stops, Handled, Dropped, NoReading, NoDeletion, NoRestore, Forgotten
  <2>4. PictureInv'
    BY <1>16 DEF SyncColumns, WideInv, WideShape, RouteInv, RestoreInv, PictureInv, Stops, Handled, Dropped, NoReading, NoDeletion, NoRestore, Forgotten
  <2>5. ReportedInv'
    BY <1>16 DEF SyncColumns, WideInv, WideShape, RouteInv, RestoreInv, PictureInv, ReportedInv, Stops, Handled, Dropped, NoReading, NoDeletion, NoRestore, Forgotten
  <2> QED
    BY <2>1, <2>2, <2>3, <2>4, <2>5 DEF WideInv
<1>17. CASE SyncFails
  <2>1. WideShape'
    <3>1. deleting \in [at : {"none", "planned", "dropped", "synced"}, cols : SUBSET Cols] /\ deleting.at = "dropped"
      BY <1>17 DEF SyncFails, WideInv, WideShape
    <3>2. CASE reflected' = FALSE /\ unsynced' = TRUE /\ deleting' = NoDeletion /\ gate' = gate - 1
      <4>1. gate = 1 /\ deleting'.at = "none"
        BY <3>1, <3>2 DEF WideInv, WideShape, NoDeletion
      <4>2. deleting' \in [at : {"none", "planned", "dropped", "synced"}, cols : SUBSET Cols]
        BY <3>2 DEF NoDeletion
      <4>3. blurred' = TRUE /\ gate' = 0
        BY <3>2, <4>1, <1>17 DEF SyncFails
      <4> QED
        BY <3>2, <4>1, <4>2, <4>3, <1>17 DEF SyncFails, WideInv, WideShape
    <3>3. CASE reflected' = TRUE /\ deleting' = [deleting EXCEPT !.at = "synced"] /\ UNCHANGED <<unsynced, gate>>
      BY <3>1, <3>3, <1>17 DEF SyncFails, WideInv, WideShape, NoDeletion
    <3> QED
      BY <3>2, <3>3, <1>17 DEF SyncFails
  <2>2. RouteInv'
    BY <1>17 DEF SyncFails, WideInv, WideShape, RouteInv, Stops, Handled, Dropped, NoReading, NoDeletion, NoRestore, Forgotten
  <2>3. RestoreInv'
    BY <1>17 DEF SyncFails, WideInv, WideShape, RouteInv, RestoreInv, Stops, Handled, Dropped, NoReading, NoDeletion, NoRestore, Forgotten
  <2>4. PictureInv'
    BY <1>17 DEF SyncFails, WideInv, WideShape, RouteInv, RestoreInv, PictureInv, Stops, Handled, Dropped, NoReading, NoDeletion, NoRestore, Forgotten
  <2>5. ReportedInv'
    BY <1>17 DEF SyncFails, WideInv, WideShape, RouteInv, RestoreInv, PictureInv, ReportedInv, Stops, Handled, Dropped, NoReading, NoDeletion, NoRestore, Forgotten
  <2> QED
    BY <2>1, <2>2, <2>3, <2>4, <2>5 DEF WideInv
<1>18. CASE DeletingFails
  <2>1. WideShape'
    BY <1>18 DEF DeletingFails, WideInv, WideShape, RouteInv, Stops, Handled, Dropped, NoReading, NoDeletion, NoRestore, Forgotten
  <2>2. RouteInv'
    BY <1>18 DEF DeletingFails, WideInv, WideShape, RouteInv, Stops, Handled, Dropped, NoReading, NoDeletion, NoRestore, Forgotten
  <2>3. RestoreInv'
    BY <1>18 DEF DeletingFails, WideInv, WideShape, RouteInv, RestoreInv, Stops, Handled, Dropped, NoReading, NoDeletion, NoRestore, Forgotten
  <2>4. PictureInv'
    BY <1>18 DEF DeletingFails, WideInv, WideShape, RouteInv, RestoreInv, PictureInv, Stops, Handled, Dropped, NoReading, NoDeletion, NoRestore, Forgotten
  <2>5. ReportedInv'
    BY <1>18 DEF DeletingFails, WideInv, WideShape, RouteInv, RestoreInv, PictureInv, ReportedInv, Stops, Handled, Dropped, NoReading, NoDeletion, NoRestore, Forgotten
  <2> QED
    BY <2>1, <2>2, <2>3, <2>4, <2>5 DEF WideInv
<1>19. CASE LoseDatabase
  <2>1. WideShape'
    BY <1>19 DEF LoseDatabase, WideInv, WideShape, RouteInv, Stops, Handled, Dropped, NoReading, NoDeletion, NoRestore, Forgotten
  <2>2. RouteInv'
    BY <1>19 DEF LoseDatabase, WideInv, WideShape, RouteInv, Stops, Handled, Dropped, NoReading, NoDeletion, NoRestore, Forgotten
  <2>3. RestoreInv'
    BY <1>19 DEF LoseDatabase, WideInv, WideShape, RouteInv, RestoreInv, Stops, Handled, Dropped, NoReading, NoDeletion, NoRestore, Forgotten
  <2>4. PictureInv'
    BY <1>19 DEF LoseDatabase, WideInv, WideShape, RouteInv, RestoreInv, PictureInv, Stops, Handled, Dropped, NoReading, NoDeletion, NoRestore, Forgotten
  <2>5. ReportedInv'
    BY <1>19 DEF LoseDatabase, WideInv, WideShape, RouteInv, RestoreInv, PictureInv, ReportedInv, Stops, Handled, Dropped, NoReading, NoDeletion, NoRestore, Forgotten
  <2> QED
    BY <2>1, <2>2, <2>3, <2>4, <2>5 DEF WideInv
<1>20. CASE DatabaseReturns
  <2>1. WideShape'
    BY <1>20 DEF DatabaseReturns, WideInv, WideShape, RouteInv, Stops, Handled, Dropped, NoReading, NoDeletion, NoRestore, Forgotten
  <2>2. RouteInv'
    BY <1>20 DEF DatabaseReturns, WideInv, WideShape, RouteInv, Stops, Handled, Dropped, NoReading, NoDeletion, NoRestore, Forgotten
  <2>3. RestoreInv'
    BY <1>20 DEF DatabaseReturns, WideInv, WideShape, RouteInv, RestoreInv, Stops, Handled, Dropped, NoReading, NoDeletion, NoRestore, Forgotten
  <2>4. PictureInv'
    BY <1>20 DEF DatabaseReturns, WideInv, WideShape, RouteInv, RestoreInv, PictureInv, Stops, Handled, Dropped, NoReading, NoDeletion, NoRestore, Forgotten
  <2>5. ReportedInv'
    BY <1>20 DEF DatabaseReturns, WideInv, WideShape, RouteInv, RestoreInv, PictureInv, ReportedInv, Stops, Handled, Dropped, NoReading, NoDeletion, NoRestore, Forgotten
  <2> QED
    BY <2>1, <2>2, <2>3, <2>4, <2>5 DEF WideInv
<1>21. CASE RestartWide
  <2>1. WideShape'
    <3>1. mapping' \in Partial(Metrics, Entries) /\ DOMAIN mapping' = {}
      BY <1>21, EmptyPartial DEF RestartWide, Forgotten
    <3> QED
      BY <3>1, <1>21, Readings DEF RestartWide, Forgotten, WideInv, WideShape, NoDeletion
  <2>2. RouteInv'
    BY <1>21 DEF RestartWide, WideInv, WideShape, RouteInv, Stops, Handled, Dropped, NoReading, NoDeletion, NoRestore, Forgotten
  <2>3. RestoreInv'
    <3>1. restore' = NoRestore
      BY <1>21 DEF RestartWide, Forgotten
    <3> QED
      BY <3>1, NothingRestored DEF RestoreInv, NoRestore
  <2>4. PictureInv'
    BY <1>21 DEF RestartWide, WideInv, WideShape, RouteInv, RestoreInv, PictureInv, Stops, Handled, Dropped, NoReading, NoDeletion, NoRestore, Forgotten
  <2>5. ReportedInv'
    BY <1>21 DEF RestartWide, WideInv, WideShape, RouteInv, RestoreInv, PictureInv, ReportedInv, Stops, Handled, Dropped, NoReading, NoDeletion, NoRestore, Forgotten
  <2> QED
    BY <2>1, <2>2, <2>3, <2>4, <2>5 DEF WideInv
<1>22. CASE ColumnsFail
  <2>1. WideShape'
    <3>1. /\ Ensured({}) \in Catalogs
          /\ DOMAIN Ensured({}).catalog = DOMAIN catalog \cup DOMAIN declared
      BY EnsuredIsTrue DEF WideInv, WideShape
    <3> DEFINE db == Ensured({})
    <3>2. /\ DOMAIN declared \subseteq Metrics /\ db.catalog \in [DOMAIN db.catalog -> Entries]
          /\ \A m \in DOMAIN declared : m \in DOMAIN db.catalog /\ db.catalog[m].col = ColumnOf[m]
      BY <3>1, PartialFunctions, WideFacts DEF Catalogs, TrueCatalog, WideInv
    <3> HIDE DEF db
    <3>3. PICK done \in SUBSET DOMAIN declared :
             mapping' = [m \in DOMAIN mapping \cup done |-> IF m \in done THEN db.catalog[m] ELSE mapping[m]]
      BY <1>22 DEF ColumnsFail, db
    <3>4. mapping' \in [DOMAIN mapping \cup done -> Entries] /\ DOMAIN mapping \cup done \in SUBSET Metrics
      BY <3>2, <3>3, WideFacts DEF WideInv
    <3>5. mapping' \in Partial(Metrics, Entries)
      BY <3>4, PartialMember, Zenon
    <3>6. \A m \in DOMAIN mapping' : mapping'[m].col = ColumnOf[m]
      BY <3>2, <3>3 DEF WideInv, WideShape
    <3> QED
      BY <3>5, <3>6, <1>22 DEF ColumnsFail, WideInv, WideShape, Stops
  <2>2. RouteInv'
    BY <1>22 DEF ColumnsFail, WideInv, WideShape, RouteInv, Stops, Handled, Dropped, NoReading, NoDeletion, NoRestore, Forgotten
  <2>3. RestoreInv'
    BY <1>22 DEF ColumnsFail, WideInv, WideShape, RouteInv, RestoreInv, Stops, Handled, Dropped, NoReading, NoDeletion, NoRestore, Forgotten
  <2>4. PictureInv'
    BY <1>22 DEF ColumnsFail, WideInv, WideShape, RouteInv, RestoreInv, PictureInv, Stops, Handled, Dropped, NoReading, NoDeletion, NoRestore, Forgotten
  <2>5. ReportedInv'
    BY <1>22 DEF ColumnsFail, WideInv, WideShape, RouteInv, RestoreInv, PictureInv, ReportedInv, Stops, Handled, Dropped, NoReading, NoDeletion, NoRestore, Forgotten
  <2> QED
    BY <2>1, <2>2, <2>3, <2>4, <2>5 DEF WideInv
<1>23. CASE ForgetColumns
  <2>1. WideShape'
    <3> DEFINE D == {n \in DOMAIN mapping : mapping[n].col \notin deleting.cols}
    <3>1. mapping' = [m \in D |-> mapping[m]]
      BY <1>23 DEF ForgetColumns
    <3>2. mapping' \in [D -> Entries] /\ D \in SUBSET Metrics
      BY <3>1, WideFacts DEF WideInv
    <3>3. mapping' \in Partial(Metrics, Entries)
      BY <3>2, PartialMember
    <3>4. \A m \in DOMAIN mapping' : mapping'[m].col = ColumnOf[m]
      BY <3>1 DEF WideInv, WideShape
    <3> HIDE DEF D
    <3> QED
      BY <3>3, <3>4, <1>23 DEF ForgetColumns, WideInv, WideShape, NoDeletion
  <2>2. RouteInv'
    BY <1>23 DEF ForgetColumns, WideInv, WideShape, RouteInv, Stops, Handled, Dropped, NoReading, NoDeletion, NoRestore, Forgotten
  <2>3. RestoreInv'
    BY <1>23 DEF ForgetColumns, WideInv, WideShape, RouteInv, RestoreInv, Stops, Handled, Dropped, NoReading, NoDeletion, NoRestore, Forgotten
  <2>4. PictureInv'
    BY <1>23 DEF ForgetColumns, WideInv, WideShape, RouteInv, RestoreInv, PictureInv, Stops, Handled, Dropped, NoReading, NoDeletion, NoRestore, Forgotten
  <2>5. ReportedInv'
    <3>1. ASSUME route = "wide", ~uprooted, ~deleted, NEW m \in DOMAIN declared
          PROVE  m \in DOMAIN mapping' /\ m \in DOMAIN catalog
      <4>1. m \in DOMAIN mapping /\ m \in DOMAIN catalog /\ mapping[m].col = ColumnOf[m]
        BY <3>1 DEF WideInv, WideShape, ReportedInv
      <4>2. ColumnOf[m] \notin deleting.cols
        BY <4>1, WideFacts, <1>23 DEF ForgetColumns, WideInv, RouteInv
      <4> QED
        BY <4>1, <4>2, <1>23 DEF ForgetColumns
    <3> QED
      BY <3>1, <1>23 DEF ForgetColumns, WideInv, ReportedInv
  <2> QED
    BY <2>1, <2>2, <2>3, <2>4, <2>5 DEF WideInv
<1>24. CASE DropWideColumns
  <2>1. WideShape'
    <3>1. WideTables'
      BY DroppedColumns, <1>24
    <3>2. DOMAIN columns' \subseteq Cols
      BY WideFacts, <1>24 DEF DropWideColumns, WideInv
    <3>3. columns' # <<>> => columns # <<>>
      BY <1>24 DEF DropWideColumns
    <3>4. deleting' = [at |-> "dropped", cols |-> deleting.cols] /\ deleting # NoDeletion
      BY <1>24 DEF DropWideColumns, WideInv, WideShape, NoDeletion
    <3> QED
      BY <3>1, <3>2, <3>3, <3>4, <1>24 DEF DropWideColumns, WideInv, WideShape, WideTables, NoDeletion
  <2>2. RouteInv'
    BY <1>24 DEF DropWideColumns, WideInv, WideShape, RouteInv, Stops, Handled, Dropped, NoReading, NoDeletion, NoRestore, Forgotten
  <2>3. RestoreInv'
    <3>1. DOMAIN columns' \subseteq DOMAIN columns /\ DOMAIN catalog' \subseteq DOMAIN catalog
      BY <1>24 DEF DropWideColumns, CatalogAfter
    <3>2. restore' = [restore EXCEPT !.sound = FALSE] /\ blurred' = (blurred \/ restore.at \in {"columns", "catalog"})
      BY <1>24 DEF DropWideColumns
    <3>3. restore' \in Restores /\ restore'.sound = FALSE /\ restore'.at = restore.at
          /\ restore'.cols = restore.cols /\ restore'.catalog = restore.catalog
      BY <3>2 DEF WideInv, RestoreInv, Restores
    <3>4. restore.at = "none" => restore' = NoRestore
      <4>1. NoRestore.sound = FALSE /\ NoRestore \in Restores
        BY NothingRestored DEF NoRestore
      <4>2. [NoRestore EXCEPT !.sound = FALSE] = NoRestore
        BY <4>1 DEF Restores
      <4> QED
        BY <3>2, <4>2 DEF WideInv, RestoreInv
    <3> QED
      BY <3>1, <3>2, <3>3, <3>4 DEF WideInv, WideShape, RestoreInv
  <2>4. PictureInv'
    <3>1. \A m \in DOMAIN catalog : ColumnOf[m] \notin deleting.cols => m \in DOMAIN catalog' /\ catalog'[m] = catalog[m]
      BY DroppedColumns, <1>24
    <3> QED
      BY <3>1, <1>24 DEF DropWideColumns, WideInv, WideShape, PictureInv
  <2>5. ReportedInv'
    <3>1. ASSUME route = "wide", ~uprooted, ~deleted', NEW m \in DOMAIN declared
          PROVE  m \in DOMAIN mapping /\ m \in DOMAIN catalog'
      <4>1. ~deleted /\ KeyOf(m) \notin deleting.cols
        <5>1. deleted' = (deleted \/ \E n \in DOMAIN declared : KeyOf(n) \in deleting.cols)
          BY <1>24 DEF DropWideColumns
        <5> QED
          BY <3>1, <5>1, Zenon
      <4>2. m \in DOMAIN mapping /\ m \in DOMAIN catalog /\ KeyOf(m) = ColumnOf[m]
        BY <3>1, <4>1, ReportedKeys DEF WideInv, ReportedInv
      <4> QED
        BY <4>1, <4>2, DroppedColumns, <1>24
    <3>2. deleted' = FALSE => deleted = FALSE
      BY <1>24 DEF DropWideColumns, WideInv, WideShape
    <3>3. deleted' \in BOOLEAN /\ deleted \in BOOLEAN
      BY <1>24 DEF DropWideColumns, WideInv, WideShape
    <3> QED
      BY <3>1, <3>2, <3>3, <1>24 DEF DropWideColumns, WideInv, ReportedInv
  <2> QED
    BY <2>1, <2>2, <2>3, <2>4, <2>5 DEF WideInv
<1>25. ASSUME NEW casts \in SUBSET Cols, EnsureColumns(casts) PROVE WideInv'
  <2> DEFINE db == Ensured(casts)
  <2>1. db \in Catalogs /\ DOMAIN db.catalog = DOMAIN catalog \cup DOMAIN declared
    BY EnsuredIsTrue DEF WideInv, WideShape
  <2> HIDE DEF db
  <2>a. /\ db.columns \in Partial(Cols, ColumnTypes) /\ db.catalog \in Partial(Metrics, Entries)
        /\ TrueCatalog(db)
    BY <2>1 DEF Catalogs
  <2>2. /\ DOMAIN db.columns \subseteq Cols /\ DOMAIN declared \subseteq Metrics
        /\ db.catalog \in [DOMAIN db.catalog -> Entries]
        /\ \A m \in DOMAIN declared : m \in DOMAIN db.catalog /\ db.catalog[m].col = ColumnOf[m]
    BY <2>1, <2>a, PartialFunctions, WideFacts DEF TrueCatalog, WideInv
  <2>3. [columns |-> db.columns, catalog |-> db.catalog] \in Catalogs
    BY <2>1 DEF Catalogs
  <2>4. /\ step = "columns" /\ columns' = db.columns /\ catalog' = db.catalog
        /\ mapping' = [m \in DOMAIN mapping \cup DOMAIN declared |->
                          IF m \in DOMAIN declared THEN db.catalog[m] ELSE mapping[m]]
        /\ cache' = DOMAIN db.columns /\ reflected' = TRUE
        /\ step' = "none" /\ outcome' = "wide" /\ route' = "wide"
        /\ UNCHANGED <<declared, registry, wideTable, reachable, device, inFlush, deleting, restore, gate,
                       wideHistory, wideBounds>>
    BY <1>25 DEF EnsureColumns, Stops, db
  <2>5. mapping = <<>> /\ ~inFlush.wide /\ deleting = NoDeletion /\ restore.at = "none" /\ wideTable = TRUE
    BY <2>4 DEF WideInv, WideShape, RouteInv
  <2>6. mapping' = [m \in DOMAIN declared |-> db.catalog[m]]
    BY <2>4, <2>5
  <2>7. mapping' \in [DOMAIN declared -> Entries]
    BY <2>2, <2>6
  <2>8. mapping' \in Partial(Metrics, Entries)
    BY <2>2, <2>7, PartialMember
  <2>9. WideShape'
    BY <2>2, <2>3, <2>4, <2>6, <2>8 DEF WideInv, WideShape
  <2>10. RouteInv'
    BY <2>4, <2>5 DEF WideInv, RouteInv, NoDeletion
  <2>11. PictureInv'
    BY <2>2, <2>4, <2>5, <2>6 DEF PictureInv, NoDeletion
  <2>12. ReportedInv'
    BY <2>2, <2>4, <2>5, <2>6 DEF WideInv, ReportedInv
  <2>13. RestoreInv'
    BY <2>4, <2>5 DEF WideInv, RestoreInv
  <2> QED
    BY <2>9, <2>10, <2>11, <2>12, <2>13 DEF WideInv
<1>26. ASSUME NEW casts \in SUBSET Cols, ColumnsUnread(casts) PROVE WideInv'
  <2> DEFINE db == Ensured(casts)
  <2>1. db \in Catalogs /\ DOMAIN db.catalog = DOMAIN catalog \cup DOMAIN declared
    BY EnsuredIsTrue DEF WideInv, WideShape
  <2> HIDE DEF db
  <2>a. /\ db.columns \in Partial(Cols, ColumnTypes) /\ db.catalog \in Partial(Metrics, Entries)
        /\ TrueCatalog(db)
    BY <2>1 DEF Catalogs
  <2>2. /\ DOMAIN db.columns \subseteq Cols /\ DOMAIN declared \subseteq Metrics
        /\ db.catalog \in [DOMAIN db.catalog -> Entries]
        /\ \A m \in DOMAIN declared : m \in DOMAIN db.catalog /\ db.catalog[m].col = ColumnOf[m]
    BY <2>1, <2>a, PartialFunctions, WideFacts DEF TrueCatalog, WideInv
  <2>3. [columns |-> db.columns, catalog |-> db.catalog] \in Catalogs
    BY <2>1 DEF Catalogs
  <2>4. /\ step = "columns" /\ columns' = db.columns /\ catalog' = db.catalog
        /\ mapping' = [m \in DOMAIN mapping \cup DOMAIN declared |->
                          IF m \in DOMAIN declared THEN db.catalog[m] ELSE mapping[m]]
        /\ cache' \in {cache, DOMAIN db.columns} /\ reflected' = FALSE /\ reachable' = FALSE
        /\ step' = "none" /\ outcome' = "narrow" /\ route' = "narrow"
        /\ UNCHANGED <<declared, registry, wideTable, device, inFlush, deleting, restore, gate,
                       wideHistory>>
    BY <1>26 DEF ColumnsUnread, Stops, db
  <2>5. mapping = <<>> /\ ~inFlush.wide /\ deleting = NoDeletion /\ restore.at = "none" /\ wideTable = TRUE
    BY <2>4 DEF WideInv, WideShape, RouteInv
  <2>6. mapping' = [m \in DOMAIN declared |-> db.catalog[m]]
    BY <2>4, <2>5
  <2>7. mapping' \in [DOMAIN declared -> Entries]
    BY <2>2, <2>6
  <2>8. mapping' \in Partial(Metrics, Entries)
    BY <2>2, <2>7, PartialMember
  <2>9. WideShape'
    BY <2>2, <2>3, <2>4, <2>6, <2>8 DEF WideInv, WideShape
  <2>10. RouteInv'
    BY <2>4, <2>5 DEF WideInv, RouteInv, NoDeletion
  <2>11. PictureInv'
    BY <2>2, <2>4, <2>5, <2>6 DEF PictureInv, NoDeletion
  <2>12. ReportedInv'
    BY <2>2, <2>4, <2>5, <2>6 DEF WideInv, ReportedInv
  <2>13. RestoreInv'
    BY <2>4, <2>5 DEF WideInv, RestoreInv
  <2> QED
    BY <2>9, <2>10, <2>11, <2>12, <2>13 DEF WideInv
<1>27. ASSUME NEW cols \in SUBSET Cols, StartDeleting(cols) PROVE WideInv'
  <2>1. WideShape'
    BY <1>27 DEF StartDeleting, WideInv, WideShape, NoDeletion
  <2>2. RouteInv' /\ RestoreInv' /\ PictureInv' /\ ReportedInv'
    BY <1>27 DEF StartDeleting, WideInv, RouteInv, RestoreInv, PictureInv, ReportedInv, NoDeletion
  <2> QED
    BY <2>1, <2>2 DEF WideInv
<1>28. CASE UNCHANGED wideVars
  BY <1>28 DEF WideInv, WideShape, RouteInv, RestoreInv, PictureInv, ReportedInv
<1> QED
  BY <1>1, <1>2, <1>3, <1>4, <1>5, <1>6, <1>7, <1>8, <1>9, <1>10, <1>11, <1>12, <1>13, <1>14, <1>15, <1>16, <1>17, <1>18, <1>19, <1>20, <1>21, <1>22, <1>23, <1>24, <1>25, <1>26, <1>27, <1>28 DEF WideNext

LEMMA WideStart == WideInit => WideInv
<1> SUFFICES ASSUME WideInit PROVE WideInv
  OBVIOUS
<1>1. /\ columns \in Partial(Cols, ColumnTypes) /\ catalog \in Partial(Metrics, Entries)
      /\ mapping \in Partial(Metrics, Entries)
      /\ DOMAIN columns = {} /\ DOMAIN catalog = {} /\ DOMAIN mapping = {}
  BY EmptyPartial DEF WideInit
<1>2. [columns |-> columns, catalog |-> catalog] \in Catalogs
  BY <1>1 DEF Catalogs, TrueCatalog
<1> QED
  BY <1>1, <1>2, Readings, NothingRestored
     DEF WideInit, WideInv, WideShape, RouteInv, RestoreInv, PictureInv, ReportedInv, NoReading, NoDeletion,
         NoRestore

LEMMA WideInvShows == WideInv => WideTypeOK /\ WideTableIsTrue
<1> SUFFICES ASSUME WideInv PROVE WideTypeOK /\ WideTableIsTrue
  OBVIOUS
<1>1. columns \in Partial(Cols, ColumnTypes) /\ catalog \in Partial(Metrics, Entries)
  BY DEF WideInv, WideShape, Catalogs
<1>2. WideTypeOK
  BY <1>1 DEF WideInv, WideShape, RestoreInv, Restores, WideTypeOK
<1>3. CatalogIsTrue
  BY WideFacts DEF WideInv, CatalogIsTrue
<1>4. PictureIsTrue
  BY DEF WideInv, WideShape, PictureInv, PictureIsTrue, NoDeletion
<1>5. MisfitsAreOwed
  BY DEF WideInv, ReportedInv, MisfitsAreOwed
<1> QED
  BY <1>2, <1>3, <1>4, <1>5 DEF WideTableIsTrue

\* "Never claims a type the physical column doesn't actually have" (_ensure_columns_for_metrics()):
\* whatever is declared, cast, deleted or restarted, metric_catalog is true of the table, the
\* flush worker's picture of it is true while no column goes, unless a deletion met a restore
\* under way or could not read the table back, and a reading is dropped for its columns only
\* after delete_fields() or a reconnect took them or the ORM table.
THEOREM WideTableStaysTrue == OwnColumn => (WideSpec => [](WideTypeOK /\ WideTableIsTrue))
<1> SUFFICES ASSUME OwnColumn PROVE WideSpec => [](WideTypeOK /\ WideTableIsTrue)
  OBVIOUS
<1>1. WideInv /\ [WideNext]_wideVars => WideInv'
  BY WideStep
<1> QED
  BY <1>1, WideStart, WideInvShows, PTL DEF WideSpec

----------------------------------------------------------------------------
(* The rollups. What is missing of a protocol that is complete, or behind  *)
(* a pass that creates views, some set-up has still to come to.            *)

RollupKinds == {"none", "setup", "rebuild", "retune", "reconnect", "edit"}
RollupTask == [kind : RollupKinds, at : {"idle", "scan", "drop", "create"}, todo : Seq(Stacks),
               force : BOOLEAN, left : Seq(Views), tier : 1..(Tiers + 1)]
TopDown(s, n) == [i \in 1..n |-> ViewOf(s, n + 1 - i)]
WellTask(k) ==
    /\ k.at = "idle" => k = NoTask
    /\ k.at \in {"drop", "create"} => k.todo # <<>>
    /\ k.at # "create" => k.tier = 1
    /\ k.at # "drop" => k.left = <<>>
    /\ k.kind = "edit" => ToSet(k.todo) \subseteq Wides
    /\ k.at = "drop" /\ Head(k.todo) # Shared => \E n \in 0..Tiers : k.left = TopDown(Head(k.todo), n)

TasksInv == tasks \in [RollupActors -> RollupTask] /\ \A a \in RollupActors : WellTask(tasks[a])
StoredInv ==
    /\ DOMAIN views \subseteq Views /\ stale \subseteq DOMAIN views
    /\ views = [v \in DOMAIN views |-> views[v]]
    /\ \A v \in DOMAIN views : views[v] \in [fits : BOOLEAN, full : BOOLEAN]
    /\ complete \subseteq Wides /\ robbed \subseteq Wides /\ broken \subseteq Stacks
    /\ uncertain \in BOOLEAN /\ failed \in BOOLEAN /\ rollupErrors \in Nat
KnownInv == known \in Seq(Views) /\ \A i, j \in DOMAIN known : known[i] = known[j] => i = j

\* Set-ups that do not overlap.
OneTask == \A a, b \in RollupActors : tasks[a] # NoTask /\ tasks[b] # NoTask => a = b

\* A set-up that has still to come to tier t of stack p, one that is past it, and one
\* that is about to drop a view of p.
Ahead(k, p, t) ==
    /\ k.todo # <<>>
    /\ \/ p \in ToSet(Tail(k.todo))
       \/ p = Head(k.todo) /\ (k.at \in {"scan", "drop"} \/ (k.at = "create" /\ k.tier <= t))
Passed(k, p, t) == k.at = "create" /\ p = Head(k.todo) /\ t < k.tier
Dropping(k, p, v) == k.at = "drop" /\ p = Head(k.todo) /\ v \in ToSet(k.left)
Absent(p) == {t \in 1..Tiers : ViewOf(p, t) \notin DOMAIN views}

\* What is missing is still to come.
BuiltInv ==
    \A p \in Wides \ robbed : \A t \in Absent(p) :
        (\E a \in RollupActors : Passed(tasks[a], p, t)) \/ p \in complete \ broken
        => \E b \in RollupActors : Ahead(tasks[b], p, t)
\* Below a gap that a pass left behind it, a view that lacks a column is about to go.
LackingInv ==
    \A p \in Wides \ robbed : \A t \in Absent(p), i \in 1..Tiers, a \in RollupActors :
        i < t /\ ViewOf(p, i) \in DOMAIN views /\ ~views[ViewOf(p, i)].full /\ Passed(tasks[a], p, t)
        => \E b \in RollupActors : Dropping(tasks[b], p, ViewOf(p, i))

\* A purge has all there is of its stack still before it.
PurgeInv ==
    \A a \in RollupActors : tasks[a].at = "drop" =>
        \A v \in DOMAIN views : Stack(a) \in {Shared, v.stack} => v \in ToSet(tasks[a].left)
\* What a pass has left behind it is there and listed.
PassInv ==
    \A a \in RollupActors, t \in 1..Tiers : tasks[a].at = "create" /\ t < tasks[a].tier =>
        ViewOf(Stack(a), t) \in DOMAIN views \cap ToSet(known)
ListInv ==
    \A v \in DOMAIN views :
        \/ v \in ToSet(known) \/ v.stack \in broken
        \/ \E a \in RollupActors : Ahead(tasks[a], v.stack, v.tier)

\* A view is listed after its source.
SourcesFirst ==
    \A j \in DOMAIN known : ~FromRaw(known[j]) => \E i \in 1..(j - 1) : known[i] = SourceOf(known[j])
\* Of a protocol no set-up is busy with, the listed views are there, or none is: but for a
\* purge of all.
Tearing(k) == k.todo # <<>> /\ Head(k.todo) = Shared /\ (k.at = "drop" \/ (k.at = "scan" /\ k.force))
WholeInv ==
    (\A a \in RollupActors : ~Tearing(tasks[a])) =>
    \A p \in Wides :
       \/ \E a \in RollupActors : tasks[a].at = "create" /\ Stack(a) = p
       \/ \A v \in ToSet(known) : v.stack = p => v \in DOMAIN views
       \/ \A v \in DOMAIN views : v.stack # p
\* What is missing of one of these is still to come, or all of it is.
GapInv ==
    (\A a \in RollupActors : ~Tearing(tasks[a])) =>
    \A p \in Wides : \A t \in Absent(p) :
       (\E b \in RollupActors : Ahead(tasks[b], p, t)) \/ \A v \in DOMAIN views : v.stack # p
\* Buckets of the narrow stack that changed are met at the start, before anything is listed
\* and before the protocols are set up.
ThenProtocols(k) == Wides \subseteq ToSet(Tail(k.todo))
FitInv ==
    (\E v \in DOMAIN views : v.stack = Shared /\ ~views[v].fits) =>
       /\ known = <<>>
       /\ \E a \in RollupActors : /\ tasks[a].todo # <<>> /\ Stack(a) = Shared
                                  /\ tasks[a].at \in {"scan", "drop"} /\ ThenProtocols(tasks[a])
TornInv ==
    \A a \in RollupActors : tasks[a].at = "drop" /\ Stack(a) = Shared /\ ~tasks[a].force =>
        known = <<>> /\ ThenProtocols(tasks[a])

RollupBase == TasksInv /\ StoredInv /\ KnownInv
RollupInv ==
    /\ RollupBase
    /\ ~uncertain => OneTask
    /\ ~(uncertain /\ rollupErrors > 0) => BuiltInv /\ LackingInv
    /\ ~uncertain => PurgeInv /\ PassInv /\ ListInv
    /\ ~uncertain /\ ~failed => SourcesFirst /\ WholeInv /\ GapInv /\ FitInv /\ TornInv

----------------------------------------------------------------------------
(* Stacks, views and tasks. *)

LEMMA ViewOfFields ==
  /\ \A s \in Stacks, t \in 1..Tiers : ViewOf(s, t) \in Views
  /\ \A s, t : ViewOf(s, t).stack = s /\ ViewOf(s, t).tier = t
  /\ \A v \in Views : v = ViewOf(v.stack, v.tier) /\ v.stack \in Stacks /\ v.tier \in 1..Tiers
  /\ \A v \in Views : ~FromRaw(v) => v.tier - 1 \in 1..Tiers /\ v.tier # 1 /\ v.tier # Tiers
  /\ \A s, t, p, i : ViewOf(s, t) = ViewOf(p, i) => s = p /\ t = i
  BY RollupsAssumption DEF ViewOf, Views, FromRaw

LEMMA TiersIsMoreThanOne == Tiers \in Nat \ {0, 1} /\ Shared \notin Wides /\ Shared \in Stacks /\ Wides \subseteq Stacks
  BY RollupsAssumption DEF Stacks

LEMMA InOrderOf ==
  ASSUME NEW S \in SUBSET Stacks
  PROVE  /\ InOrder(S) \in Seq(Stacks) /\ ToSet(InOrder(S)) = S
         /\ Shared \in S => InOrder(S) # <<>> /\ Head(InOrder(S)) = Shared
<1> DEFINE h == IF Shared \in S THEN <<Shared>> ELSE <<>>
           w == S \cap Wides
           r == SetToSeq(w)
<1>1. IsFiniteSet(w)
  BY RollupsAssumption, FS_Intersection
<1>2. r \in [1..Cardinality(w) -> w] /\ Cardinality(w) \in Nat /\ \A x \in w : \E i \in 1..Cardinality(w) : r[i] = x
  BY <1>1, SetToSeqCovers
<1>3. r \in Seq(Stacks) /\ Range(r) = w
  <2>1. w \subseteq Stacks
    OBVIOUS
  <2> HIDE DEF w, r
  <2>2. DOMAIN r = 1..Cardinality(w) /\ \A i \in 1..Cardinality(w) : r[i] \in w
    BY <1>2
  <2>3. r \in [1..Cardinality(w) -> Stacks]
    BY <1>2, <2>1
  <2>4. r \in Seq(Stacks)
    BY <1>2, <2>3
  <2> QED
    BY <1>2, <2>2, <2>4 DEF Range
<1>4. h \in Seq(Stacks) /\ Range(h) = S \cap {Shared}
  <2>1. CASE Shared \in S
    <3>1. h = <<Shared>> /\ DOMAIN <<Shared>> = {1} /\ <<Shared>>[1] = Shared
      BY <2>1
    <3> QED
      BY <2>1, <3>1 DEF Range, Stacks
  <2>2. CASE Shared \notin S
    <3>1. h = <<>> /\ DOMAIN <<>> = {}
      BY <2>2
    <3> QED
      BY <2>2, <3>1 DEF Range
  <2> QED
    BY <2>1, <2>2
<1>5. InOrder(S) = h \o r
  BY DEF InOrder
<1>6. S = (S \cap {Shared}) \cup w
  BY DEF Stacks
<1> HIDE DEF h, r, w
<1>7. InOrder(S) \in Seq(Stacks) /\ Range(InOrder(S)) = S
  <2>1. h \o r \in Seq(Stacks) /\ Range(h \o r) = Range(h) \cup Range(r)
    BY <1>3, <1>4, JoinedRange
  <2> QED
    BY <1>3, <1>4, <1>5, <1>6, <2>1
<1>8. ASSUME Shared \in S PROVE InOrder(S) # <<>> /\ Head(InOrder(S)) = Shared
  <2>1. h = <<Shared>>
    BY <1>8 DEF h
  <2>2. Len(h \o r) = 1 + Len(r) /\ (h \o r)[1] = Shared /\ Len(r) \in Nat
    BY <1>3, <1>4, <2>1
  <2>3. Len(<<>>) = 0
    OBVIOUS
  <2>4. Head(h \o r) = (h \o r)[1]
    BY <1>3, <1>4, <2>1
  <2> QED
    BY <1>5, <2>2, <2>3, <2>4
<1>9. ToSet(InOrder(S)) = Range(InOrder(S))
  BY DEF ToSet, Range
<1> QED
  BY <1>7, <1>8, <1>9

\* All the stacks, each once.
LEMMA InOrderOfAll ==
  /\ InOrder(Stacks) \in [1..(1 + Cardinality(Wides)) -> Stacks] /\ Cardinality(Wides) \in Nat
  /\ \A i, j \in 1..(1 + Cardinality(Wides)) : InOrder(Stacks)[i] = InOrder(Stacks)[j] => i = j
<1> DEFINE r == SetToSeq(Wides)
           n == Cardinality(Wides)
<1>1. r \in [1..n -> Wides] /\ n \in Nat /\ \A i, j \in 1..n : r[i] = r[j] => i = j
  BY RollupsAssumption, SetToSeqCovers
<1>2. InOrder(Stacks) = <<Shared>> \o r
  <2>1. Stacks \cap Wides = Wides /\ Shared \in Stacks
    BY DEF Stacks
  <2> QED
    BY <2>1 DEF InOrder
<1> DEFINE q == <<Shared>> \o r
<1> HIDE DEF r, n
<1>3. Len(r) = n /\ r \in Seq(Stacks) /\ <<Shared>> \in Seq(Stacks)
  <2>1. r \in [1..n -> Stacks]
    BY <1>1 DEF Stacks
  <2> QED
    BY <1>1, <2>1 DEF Stacks
<1>4. Len(q) = 1 + n /\ q \in Seq(Stacks) /\ q[1] = Shared /\ \A i \in 1..(1 + n) : i # 1 => q[i] = r[i - 1]
  BY <1>1, <1>3
<1> HIDE DEF q
<1>5. q \in [1..(1 + n) -> Stacks]
  BY <1>4
<1>6. ASSUME NEW i \in 1..(1 + n) PROVE i = 1 \/ (i - 1 \in 1..n /\ q[i] \in Wides /\ q[i] = r[i - 1])
  BY <1>1, <1>4
<1>7. \A i, j \in 1..(1 + n) : q[i] = q[j] => i = j
  <2> SUFFICES ASSUME NEW i \in 1..(1 + n), NEW j \in 1..(1 + n), q[i] = q[j] PROVE i = j
    OBVIOUS
  <2>1. i # 1 /\ j # 1 => i - 1 = j - 1
    BY <1>1, <1>6
  <2>2. i = 1 <=> j = 1
    BY <1>4, <1>6, RollupsAssumption
  <2>3. i \in Int /\ j \in Int
    BY <1>1
  <2> QED
    BY <2>1, <2>2, <2>3
<1> QED
  BY <1>1, <1>2, <1>5, <1>7 DEF q, n

LEMMA DropListOf ==
  ASSUME StoredInv, NEW s \in Stacks
  PROVE  /\ DropList(s) \in Seq(Views)
         /\ s = Shared => DOMAIN views \subseteq ToSet(DropList(s))
         /\ s # Shared => DropList(s) = TopDown(s, Tiers) /\ StackViews(s) \subseteq ToSet(DropList(s)) /\ DropList(s) # <<>>
<1>1. CASE s = Shared
  <2> DEFINE Tier(i) == {v \in DOMAIN views : v.tier = Tiers + 1 - i}
             seqs == [i \in 1..Tiers |-> SetToSeq(Tier(i))]
  <2>1. ASSUME NEW i \in 1..Tiers PROVE SetToSeq(Tier(i)) \in Seq(Views) /\ Range(SetToSeq(Tier(i))) = Tier(i)
    <3> DEFINE w == Tier(i)
               r == SetToSeq(w)
    <3>1. IsFiniteSet(w)
      <4> DEFINE g == [p \in Stacks |-> ViewOf(p, Tiers + 1 - i)]
                 A == {g[p] : p \in Stacks}
      <4>1. IsFiniteSet(Stacks)
        BY RollupsAssumption, FS_Singleton, FS_Union DEF Stacks
      <4>2. IsFiniteSet(A)
        <5>1. g \in Surjection(Stacks, A)
          BY DEF Surjection
        <5> QED
          BY <4>1, <5>1, FS_Surjection
      <4>3. w \subseteq A
        <5> SUFFICES ASSUME NEW v \in DOMAIN views, v.tier = Tiers + 1 - i PROVE v \in A
          OBVIOUS
        <5>1. v \in Views
          BY DEF StoredInv
        <5>2. v.stack \in Stacks /\ v = ViewOf(v.stack, v.tier)
          BY <5>1, ViewOfFields
        <5>3. g[v.stack] = v
          BY <5>2
        <5> QED
          BY <5>2, <5>3
      <4> HIDE DEF A
      <4> QED
        BY <4>2, <4>3, FS_Subset
    <3>2. r \in [1..Cardinality(w) -> w] /\ Cardinality(w) \in Nat /\ \A x \in w : \E j \in 1..Cardinality(w) : r[j] = x
      BY <3>1, SetToSeqCovers
    <3>3. w \subseteq Views
      BY DEF StoredInv
    <3> HIDE DEF w, r
    <3>4. DOMAIN r = 1..Cardinality(w) /\ \A j \in 1..Cardinality(w) : r[j] \in w
      BY <3>2
    <3>5. r \in [1..Cardinality(w) -> Views]
      BY <3>2, <3>3
    <3>6. r \in Seq(Views)
      BY <3>2, <3>5
    <3>7. Range(r) = w
      BY <3>2, <3>4 DEF Range
    <3> QED
      BY <3>6, <3>7 DEF r, w
  <2> HIDE DEF Tier
  <2>2. seqs \in [1..Tiers -> Seq(Views)] /\ Tiers \in Nat
    BY <2>1, TiersIsMoreThanOne
  <2>3. FlattenSeq(seqs) \in Seq(Views) /\ Range(FlattenSeq(seqs)) = UNION {Range(seqs[i]) : i \in 1..Tiers}
    <3> HIDE DEF seqs
    <3> QED
      BY <2>2, Flattened
  <2>4. DropList(s) = FlattenSeq(seqs)
    BY <1>1 DEF DropList, Tier
  <2>5. ASSUME NEW v \in DOMAIN views PROVE v \in Range(FlattenSeq(seqs))
    <3> DEFINE i == Tiers + 1 - v.tier
    <3>1. i \in 1..Tiers /\ Tiers + 1 - i = v.tier
      BY ViewOfFields, TiersIsMoreThanOne DEF StoredInv
    <3>2. v \in Tier(i)
      BY <3>1 DEF Tier
    <3> HIDE DEF i
    <3>3. v \in Range(seqs[i])
      BY <2>1, <3>1, <3>2
    <3> QED
      BY <2>3, <3>1, <3>3
  <2>6. ToSet(DropList(s)) = Range(DropList(s))
    BY DEF ToSet, Range
  <2> HIDE DEF seqs
  <2> QED
    BY <1>1, <2>3, <2>4, <2>5, <2>6
<1>2. CASE s # Shared
  <2> DEFINE d == TopDown(s, Tiers)
  <2>1. DropList(s) = d
    BY <1>2 DEF DropList, TopDown
  <2>2. DOMAIN d = 1..Tiers /\ \A i \in 1..Tiers : d[i] = ViewOf(s, Tiers + 1 - i)
    BY DEF TopDown
  <2>3. d \in [1..Tiers -> Views]
    <3>1. \A i \in 1..Tiers : ViewOf(s, Tiers + 1 - i) \in Views
      BY ViewOfFields, TiersIsMoreThanOne
    <3> QED
      BY <3>1 DEF TopDown
  <2>4. d \in Seq(Views) /\ d # <<>>
    <3>1. d \in Seq(Views) /\ Len(d) = Tiers
      BY <2>3, TiersIsMoreThanOne
    <3>2. Len(<<>>) = 0
      OBVIOUS
    <3> QED
      BY <3>1, <3>2, TiersIsMoreThanOne
  <2>5. ASSUME NEW t \in 1..Tiers PROVE ViewOf(s, t) \in ToSet(d)
    <3> DEFINE i == Tiers + 1 - t
    <3>1. i \in 1..Tiers /\ Tiers + 1 - i = t
      BY TiersIsMoreThanOne
    <3> HIDE DEF i, d
    <3> QED
      BY <2>2, <3>1 DEF ToSet
  <2> HIDE DEF d
  <2> QED
    BY <1>2, <2>1, <2>4, <2>5 DEF StackViews, d
<1> QED
  BY <1>1, <1>2

OthersStay(a) == \A b \in RollupActors : b # a => tasks'[b] = tasks[b]

LEMMA TaskChanges ==
  ASSUME TasksInv, NEW a \in RollupActors, NEW k \in RollupTask, WellTask(k), InTask(a, k)
  PROVE  TasksInv' /\ tasks'[a] = k /\ OthersStay(a)
<1>1. tasks \in [RollupActors -> RollupTask] /\ tasks' = [tasks EXCEPT ![a] = k]
  BY DEF TasksInv, InTask
<1>2. tasks' \in [RollupActors -> RollupTask] /\ tasks'[a] = k /\ \A b \in RollupActors : b # a => tasks'[b] = tasks[b]
  BY <1>1
<1>3. \A b \in RollupActors : WellTask(tasks'[b])
  BY <1>2 DEF TasksInv
<1> QED
  BY <1>2, <1>3 DEF TasksInv, OthersStay

LEMMA TaskFields ==
  ASSUME TasksInv, NEW a \in RollupActors
  PROVE  /\ tasks[a] \in RollupTask /\ WellTask(tasks[a])
         /\ tasks[a].kind \in RollupKinds /\ tasks[a].at \in {"idle", "scan", "drop", "create"}
         /\ tasks[a].todo \in Seq(Stacks) /\ tasks[a].force \in BOOLEAN /\ tasks[a].left \in Seq(Views)
         /\ tasks[a].tier \in 1..(Tiers + 1)
         /\ tasks[a].todo # <<>> => Stack(a) \in Stacks
         /\ tasks[a].at \in {"drop", "create"} => tasks[a].todo # <<>>
<1>1. tasks[a] \in RollupTask /\ WellTask(tasks[a])
  BY DEF TasksInv
<1>2. /\ tasks[a].kind \in RollupKinds /\ tasks[a].at \in {"idle", "scan", "drop", "create"}
      /\ tasks[a].todo \in Seq(Stacks) /\ tasks[a].force \in BOOLEAN /\ tasks[a].left \in Seq(Views)
      /\ tasks[a].tier \in 1..(Tiers + 1)
  BY <1>1 DEF RollupTask
<1>3. tasks[a].todo # <<>> => Stack(a) \in Stacks
  BY <1>2, ToSetOfTail DEF Stack
<1> QED
  BY <1>1, <1>2, <1>3 DEF WellTask

LEMMA NoTaskIs ==
  /\ NoTask \in RollupTask /\ WellTask(NoTask) /\ NoTask.at = "idle" /\ NoTask.todo = <<>>
  /\ \A p, t, v : ~Ahead(NoTask, p, t) /\ ~Passed(NoTask, p, t) /\ ~Dropping(NoTask, p, v)
<1>1. NoTask.at = "idle" /\ NoTask.todo = <<>> /\ NoTask.tier = 1 /\ NoTask.left = <<>> /\ NoTask.kind = "none"
      /\ NoTask.force = FALSE
  BY DEF NoTask
<1>2. <<>> \in Seq(Stacks) /\ <<>> \in Seq(Views) /\ 1 \in 1..(Tiers + 1)
  BY TiersIsMoreThanOne
<1>3. NoTask \in RollupTask
  BY <1>2 DEF NoTask, RollupTask, RollupKinds
<1> QED
  BY <1>1, <1>3 DEF WellTask, Ahead, Passed, Dropping

LEMMA SetupIs ==
  ASSUME NEW kind \in RollupKinds, NEW todo \in Seq(Stacks), NEW force \in BOOLEAN,
         kind = "edit" => ToSet(todo) \subseteq Wides
  PROVE  LET k == Setup(kind, todo, force)
         IN  /\ k \in RollupTask /\ WellTask(k) /\ k # NoTask
             /\ k.at = "scan" /\ k.todo = todo /\ k.force = force
             /\ \A t : \A p \in ToSet(todo) : Ahead(k, p, t)
             /\ \A p, t, v : ~Passed(k, p, t) /\ ~Dropping(k, p, v)
<1> DEFINE k == Setup(kind, todo, force)
<1>1. k.at = "scan" /\ k.todo = todo /\ k.force = force /\ k.tier = 1 /\ k.left = <<>> /\ k.kind = kind
  BY DEF Setup
<1>2. <<>> \in Seq(Views) /\ 1 \in 1..(Tiers + 1)
  BY TiersIsMoreThanOne
<1>3. k \in RollupTask
  BY <1>2 DEF Setup, RollupTask
<1>4. ASSUME NEW p \in ToSet(todo), NEW t PROVE Ahead(k, p, t)
  <2>1. todo # <<>>
    BY DEF ToSet
  <2>2. p = Head(todo) \/ p \in ToSet(Tail(todo))
    BY <2>1, ToSetOfTail
  <2> HIDE DEF k
  <2> QED
    BY <1>1, <2>1, <2>2 DEF Ahead
<1>5. NoTask.at = "idle"
  BY DEF NoTask
<1> HIDE DEF k
<1> QED
  BY <1>1, <1>3, <1>4, <1>5 DEF WellTask, Passed, Dropping, k

LEMMA NextStackIs ==
  ASSUME TasksInv, NEW a \in RollupActors, tasks[a].todo # <<>>
  PROVE  LET k == NextStack(a)
         IN  /\ k \in RollupTask /\ WellTask(k) /\ k.at \in {"idle", "scan"}
             /\ \A p, t : Ahead(k, p, t) <=> p \in ToSet(Tail(tasks[a].todo))
             /\ \A p, t, v : ~Passed(k, p, t) /\ ~Dropping(k, p, v)
<1> DEFINE k == NextStack(a)
           rest == Tail(tasks[a].todo)
           next == [tasks[a] EXCEPT !.at = "scan", !.todo = rest, !.tier = 1, !.left = <<>>]
<1>1. tasks[a] \in RollupTask /\ WellTask(tasks[a])
  BY DEF TasksInv
<1>2. rest \in Seq(Stacks) /\ ToSet(tasks[a].todo) = {Head(tasks[a].todo)} \cup ToSet(rest)
  BY TaskFields, ToSetOfTail
<1>3. <<>> \in Seq(Views) /\ 1 \in 1..(Tiers + 1)
  BY TiersIsMoreThanOne
<1> HIDE DEF rest
<1>4. next \in RollupTask /\ next.at = "scan" /\ next.todo = rest /\ next.tier = 1 /\ next.left = <<>>
      /\ next.kind = tasks[a].kind
  BY <1>1, <1>2, <1>3 DEF RollupTask
<1>5. ToSet(<<>>) = {}
  BY DEF ToSet
<1> HIDE DEF next
<1>6. CASE rest = <<>> /\ tasks[a].kind # "reconnect"
  <2>1. k = NoTask
    BY <1>6 DEF NextStack, rest
  <2>2. \A p : p \notin ToSet(rest)
    BY <1>5, <1>6
  <2> HIDE DEF k
  <2> QED
    BY <2>1, <2>2, NoTaskIs DEF k, rest
<1>7. CASE ~(rest = <<>> /\ tasks[a].kind # "reconnect")
  <2>1. k = next
    BY <1>7 DEF NextStack, rest, next
  <2>2. WellTask(next)
    BY <1>1, <1>2, <1>4 DEF WellTask
  <2>3. ASSUME NEW p, NEW t PROVE Ahead(next, p, t) <=> p \in ToSet(rest)
    <3>1. CASE rest = <<>>
      BY <1>4, <1>5, <3>1 DEF Ahead
    <3>2. CASE rest # <<>>
      <4>1. ToSet(rest) = {Head(rest)} \cup ToSet(Tail(rest))
        BY <1>2, <3>2, ToSetOfTail
      <4> QED
        BY <1>4, <3>2, <4>1 DEF Ahead
    <3> QED
      BY <3>1, <3>2
  <2>4. \A p, t, v : ~Passed(next, p, t) /\ ~Dropping(next, p, v)
    BY <1>4 DEF Passed, Dropping
  <2> HIDE DEF k
  <2> QED
    BY <1>4, <2>1, <2>2, <2>3, <2>4 DEF k, rest
<1> QED
  BY <1>6, <1>7

\* After an exception, or at the end of a stack.
LEMMA GoesToNextStack ==
  ASSUME TasksInv, NEW a \in RollupActors, tasks[a].todo # <<>>, InTask(a, NextStack(a))
  PROVE  /\ TasksInv' /\ OthersStay(a) /\ tasks'[a].at \in {"idle", "scan"}
         /\ \A p, t : Ahead(tasks'[a], p, t) <=> p \in ToSet(Tail(tasks[a].todo))
         /\ \A p, t, v : ~Passed(tasks'[a], p, t) /\ ~Dropping(tasks'[a], p, v)
<1> DEFINE k == NextStack(a)
<1>1. /\ k \in RollupTask /\ WellTask(k) /\ k.at \in {"idle", "scan"}
      /\ \A p, t : Ahead(k, p, t) <=> p \in ToSet(Tail(tasks[a].todo))
      /\ \A p, t, v : ~Passed(k, p, t) /\ ~Dropping(k, p, v)
  BY NextStackIs
<1> HIDE DEF k
<1>2. InTask(a, k)
  BY DEF k
<1>3. TasksInv' /\ tasks'[a] = k /\ OthersStay(a)
  BY <1>1, <1>2, TaskChanges
<1> QED
  BY <1>1, <1>3

\* What a step makes of the task of its actor.
Unfit(s) == \E v \in StackViews(s) \cap DOMAIN views : ~views[v].fits

LEMMA StackScanned ==
  ASSUME RollupBase, NEW a \in RollupActors, ScanViews(a)
  PROVE  /\ TasksInv' /\ OthersStay(a)
         /\ tasks[a].at = "scan" /\ tasks[a].todo # <<>>
         /\ tasks'[a].todo = tasks[a].todo /\ tasks'[a].force = tasks[a].force
         /\ \/ tasks'[a].at = "drop" /\ tasks'[a].left = DropList(Stack(a)) /\ (tasks[a].force \/ Unfit(Stack(a)))
            \/ /\ tasks'[a].at = "create" /\ tasks'[a].tier = 1
               /\ DropList(Stack(a)) = <<>> \/ ~(tasks[a].force \/ Unfit(Stack(a)))
<1> DEFINE s == Stack(a)
           d == DropList(s)
           k1_ == [tasks[a] EXCEPT !.at = "drop", !.left = d]
           k2_ == [tasks[a] EXCEPT !.at = "create"]
           purge == d # <<>> /\ (tasks[a].force \/ Unfit(s))
<1>1. /\ tasks[a] \in RollupTask /\ WellTask(tasks[a]) /\ tasks[a].at = "scan" /\ tasks[a].todo # <<>>
      /\ InTask(a, IF purge THEN k1_ ELSE k2_) /\ s \in Stacks
  BY TaskFields DEF RollupBase, ScanViews, Unfit
<1>2. d \in Seq(Views) /\ (s # Shared => d = TopDown(s, Tiers))
  BY <1>1, DropListOf DEF RollupBase
<1>3. tasks[a].tier = 1 /\ tasks[a].left = <<>>
  BY <1>1 DEF WellTask
<1> HIDE DEF d
<1>4. /\ k1_ \in RollupTask /\ k1_.at = "drop" /\ k1_.left = d /\ k1_.todo = tasks[a].todo /\ k1_.force = tasks[a].force
      /\ k1_.tier = 1 /\ k1_.kind = tasks[a].kind
  BY <1>1, <1>2, <1>3 DEF RollupTask
<1>5. /\ k2_ \in RollupTask /\ k2_.at = "create" /\ k2_.left = <<>> /\ k2_.todo = tasks[a].todo /\ k2_.force = tasks[a].force
      /\ k2_.tier = 1 /\ k2_.kind = tasks[a].kind
  BY <1>1, <1>3 DEF RollupTask
<1> HIDE DEF k1_, k2_
<1>6. WellTask(k1_)
  <2>1. s = Head(tasks[a].todo) /\ Tiers \in 0..Tiers
    BY TiersIsMoreThanOne DEF Stack
  <2> QED
    BY <1>1, <1>2, <1>4, <2>1 DEF WellTask
<1>7. WellTask(k2_)
  BY <1>1, <1>5 DEF WellTask
<1>8. CASE purge
  <2>1. InTask(a, k1_)
    BY <1>1, <1>8
  <2>2. TasksInv' /\ tasks'[a] = k1_ /\ OthersStay(a)
    BY <1>4, <1>6, <2>1, TaskChanges DEF RollupBase
  <2> QED
    BY <1>1, <1>4, <1>8, <2>2 DEF d
<1>9. CASE ~purge
  <2>1. InTask(a, k2_)
    BY <1>1, <1>9
  <2>2. TasksInv' /\ tasks'[a] = k2_ /\ OthersStay(a)
    BY <1>5, <1>7, <2>1, TaskChanges DEF RollupBase
  <2> QED
    BY <1>1, <1>5, <1>9, <2>2 DEF d
<1> QED
  BY <1>8, <1>9

\* The list of a purge has its head, and then its tail.
LEMMA LeftOf ==
  ASSUME TasksInv, NEW a \in RollupActors, tasks[a].at = "drop", tasks[a].left # <<>>
  PROVE  /\ Head(tasks[a].left) \in Views /\ Tail(tasks[a].left) \in Seq(Views)
         /\ ToSet(tasks[a].left) = {Head(tasks[a].left)} \cup ToSet(Tail(tasks[a].left))
         /\ Stack(a) # Shared => \E n \in 1..Tiers :
               /\ tasks[a].left = TopDown(Stack(a), n) /\ Head(tasks[a].left) = ViewOf(Stack(a), n)
               /\ Tail(tasks[a].left) = TopDown(Stack(a), n - 1)
               /\ ToSet(Tail(tasks[a].left)) = {ViewOf(Stack(a), t) : t \in 1..(n - 1)}
<1>1. tasks[a].left \in Seq(Views) /\ WellTask(tasks[a]) /\ tasks[a].todo # <<>> /\ Stack(a) \in Stacks
  BY TaskFields
<1>2. ASSUME Stack(a) # Shared
      PROVE  \E n \in 1..Tiers :
               /\ tasks[a].left = TopDown(Stack(a), n) /\ Head(tasks[a].left) = ViewOf(Stack(a), n)
               /\ Tail(tasks[a].left) = TopDown(Stack(a), n - 1)
               /\ ToSet(Tail(tasks[a].left)) = {ViewOf(Stack(a), t) : t \in 1..(n - 1)}
  <2>1. PICK n \in 0..Tiers : tasks[a].left = TopDown(Stack(a), n)
    BY <1>1, <1>2 DEF WellTask, Stack
  <2> DEFINE s == Stack(a)
             d == TopDown(s, n)
             e == TopDown(s, n - 1)
  <2>2. n # 0
    <3>1. TopDown(s, 0) = <<>>
      BY DEF TopDown
    <3> QED
      BY <2>1, <3>1
  <2>3. n \in 1..Tiers /\ n \in Nat \ {0} /\ \A i \in 1..n : ViewOf(s, n + 1 - i) \in Views
    BY <1>1, <2>2, ViewOfFields, TiersIsMoreThanOne
  <2>4. d \in Seq(Views) /\ Len(d) = n /\ DOMAIN d = 1..n /\ \A i \in 1..n : d[i] = ViewOf(s, n + 1 - i)
    BY <2>3 DEF TopDown
  <2>5. DOMAIN e = 1..(n - 1) /\ \A i \in 1..(n - 1) : e[i] = ViewOf(s, n - 1 + 1 - i)
    BY DEF TopDown
  <2>6. Head(d) = ViewOf(s, n)
    <3>1. Head(d) = d[1] /\ 1 \in 1..n /\ n + 1 - 1 = n
      BY <2>3, <2>4
    <3> QED
      BY <2>4, <3>1
  <2>7. Tail(d) = e
    <3> DEFINE td == Tail(d)
    <3>1. Len(td) = n - 1 /\ td \in Seq(Views) /\ \A i \in 1..(n - 1) : td[i] = d[i + 1]
      <4>1. d # <<>>
        BY <2>3, <2>4, EmptySeq
      <4> HIDE DEF d
      <4> QED
        BY <2>3, <2>4, <4>1
    <3>2. \A i \in 1..(n - 1) : d[i + 1] = ViewOf(s, n + 1 - (i + 1)) /\ n + 1 - (i + 1) = n - 1 + 1 - i
      BY <2>3, <2>4
    <3> HIDE DEF d, td
    <3>3. td = [i \in 1..(n - 1) |-> td[i]]
      BY <2>3, <3>1
    <3>4. td = [i \in 1..(n - 1) |-> ViewOf(s, n - 1 + 1 - i)]
      BY <3>1, <3>2, <3>3
    <3> QED
      BY <3>4, Zenon DEF TopDown, td, d, e
  <2>8. ToSet(e) = {ViewOf(s, t) : t \in 1..(n - 1)}
    <3> DEFINE A == {ViewOf(s, t) : t \in 1..(n - 1)}
    <3>1. ASSUME NEW i \in 1..(n - 1) PROVE n - 1 + 1 - i \in 1..(n - 1) /\ n - 1 + 1 - (n - 1 + 1 - i) = i
      BY <2>3
    <3>2. \A i \in 1..(n - 1) : e[i] \in A
      BY <2>5, <3>1
    <3>3. \A t \in 1..(n - 1) : e[n - 1 + 1 - t] = ViewOf(s, t)
      BY <2>5, <3>1
    <3> HIDE DEF e
    <3>4. \A x \in A : \E i \in 1..(n - 1) : e[i] = x
      BY <3>1, <3>3
    <3> HIDE DEF A
    <3>5. ToSet(e) = A
      BY <2>5, <3>2, <3>4 DEF ToSet
    <3> QED
      BY <3>5 DEF A
  <2> HIDE DEF d, e
  <2> QED
    BY <2>1, <2>3, <2>6, <2>7, <2>8 DEF d, e
<1>3. /\ Head(tasks[a].left) \in Views /\ Tail(tasks[a].left) \in Seq(Views)
      /\ ToSet(tasks[a].left) = {Head(tasks[a].left)} \cup ToSet(Tail(tasks[a].left))
  BY <1>1, ToSetOfTail
<1> QED
  BY <1>2, <1>3

\* The next view of a purge.
LEMMA PurgeGoesOn ==
  ASSUME RollupBase, NEW a \in RollupActors, tasks[a].at = "drop", tasks[a].left # <<>>,
         InTask(a, [tasks[a] EXCEPT !.left = Tail(@)])
  PROVE  /\ TasksInv' /\ OthersStay(a)
         /\ tasks'[a].at = "drop" /\ tasks'[a].left = Tail(tasks[a].left)
         /\ tasks'[a].todo = tasks[a].todo /\ tasks'[a].force = tasks[a].force
<1> DEFINE k == [tasks[a] EXCEPT !.left = Tail(@)]
           rest == Tail(tasks[a].left)
<1>1. tasks[a] \in RollupTask /\ WellTask(tasks[a]) /\ rest \in Seq(Views) /\ TasksInv
  BY TaskFields, LeftOf DEF RollupBase
<1> HIDE DEF rest
<1>2. k \in RollupTask /\ k.left = rest /\ k.at = "drop" /\ k.todo = tasks[a].todo /\ k.force = tasks[a].force
      /\ k.tier = tasks[a].tier /\ k.kind = tasks[a].kind
  BY <1>1 DEF RollupTask, rest
<1>3. Stack(a) # Shared => \E n \in 0..Tiers : rest = TopDown(Stack(a), n)
  <2> SUFFICES ASSUME Stack(a) # Shared PROVE \E n \in 0..Tiers : rest = TopDown(Stack(a), n)
    OBVIOUS
  <2>1. PICK n \in 1..Tiers : rest = TopDown(Stack(a), n - 1)
    BY <1>1, LeftOf DEF rest
  <2>2. n - 1 \in 0..Tiers
    BY TiersIsMoreThanOne
  <2> QED
    BY <2>1, <2>2
<1>4. InTask(a, k)
  OBVIOUS
<1> HIDE DEF k
<1>5. WellTask(k)
  BY <1>1, <1>2, <1>3 DEF WellTask, Stack
<1> QED
  BY <1>1, <1>2, <1>4, <1>5, TaskChanges DEF rest

LEMMA PurgeEnds ==
  ASSUME RollupBase, NEW a \in RollupActors, Purged(a)
  PROVE  /\ TasksInv' /\ OthersStay(a)
         /\ tasks[a].at = "drop" /\ tasks[a].left = <<>> /\ tasks[a].todo # <<>>
         /\ tasks'[a].at = "create" /\ tasks'[a].tier = 1
         /\ tasks'[a].todo = tasks[a].todo /\ tasks'[a].force = tasks[a].force
<1> DEFINE k == [tasks[a] EXCEPT !.at = "create"]
<1>1. /\ tasks[a] \in RollupTask /\ WellTask(tasks[a]) /\ tasks[a].at = "drop" /\ tasks[a].left = <<>> /\ InTask(a, k)
      /\ TasksInv /\ tasks[a].kind # "edit" /\ tasks[a].todo # <<>>
  BY TaskFields DEF RollupBase, Purged
<1>2. k \in RollupTask /\ k.left = <<>> /\ k.at = "create" /\ k.todo = tasks[a].todo /\ k.force = tasks[a].force
      /\ k.tier = tasks[a].tier /\ k.kind = tasks[a].kind
  BY <1>1 DEF RollupTask
<1> HIDE DEF k
<1>3. tasks[a].tier = 1
  BY <1>1 DEF WellTask
<1>4. WellTask(k)
  BY <1>1, <1>2, <1>3 DEF WellTask
<1> QED
  BY <1>1, <1>2, <1>3, <1>4, TaskChanges

LEMMA SetupFollows ==
  ASSUME RollupBase, NEW a \in RollupActors, ColumnsDeleted(a)
  PROVE  /\ TasksInv' /\ OthersStay(a)
         /\ tasks[a].at = "drop" /\ tasks[a].left = <<>> /\ tasks[a].todo # <<>> /\ Stack(a) \in Wides
         /\ tasks'[a].at = "scan"
         /\ tasks'[a].todo = tasks[a].todo /\ tasks'[a].force = tasks[a].force
<1> DEFINE k == [tasks[a] EXCEPT !.at = "scan", !.kind = "rebuild"]
<1>1. /\ tasks[a] \in RollupTask /\ WellTask(tasks[a]) /\ tasks[a].at = "drop" /\ tasks[a].left = <<>> /\ InTask(a, k)
      /\ TasksInv /\ tasks[a].kind = "edit" /\ tasks[a].todo # <<>>
  BY TaskFields DEF RollupBase, ColumnsDeleted
<1>2. k \in RollupTask /\ k.left = <<>> /\ k.at = "scan" /\ k.todo = tasks[a].todo /\ k.force = tasks[a].force
      /\ k.tier = tasks[a].tier /\ k.kind = "rebuild"
  BY <1>1 DEF RollupTask, RollupKinds
<1> HIDE DEF k
<1>3. tasks[a].tier = 1
  BY <1>1 DEF WellTask
<1>4. WellTask(k)
  BY <1>1, <1>2, <1>3 DEF WellTask
<1>5. Stack(a) \in Wides
  <2>1. ToSet(tasks[a].todo) \subseteq Wides
    BY <1>1 DEF WellTask
  <2>2. Head(tasks[a].todo) \in ToSet(tasks[a].todo)
    BY <1>1, TaskFields, ToSetOfTail
  <2> QED
    BY <2>1, <2>2 DEF Stack
<1> QED
  BY <1>1, <1>2, <1>3, <1>4, <1>5, TaskChanges

LEMMA PassGoesOn ==
  ASSUME RollupBase, NEW a \in RollupActors, tasks[a].at = "create", tasks[a].tier <= Tiers,
         InTask(a, [tasks[a] EXCEPT !.tier = @ + 1])
  PROVE  /\ TasksInv' /\ OthersStay(a)
         /\ tasks'[a].at = "create" /\ tasks'[a].tier = tasks[a].tier + 1
         /\ tasks'[a].todo = tasks[a].todo /\ tasks'[a].force = tasks[a].force
<1> DEFINE k == [tasks[a] EXCEPT !.tier = @ + 1]
<1>1. /\ tasks[a] \in RollupTask /\ WellTask(tasks[a]) /\ InTask(a, k) /\ TasksInv /\ tasks[a].todo # <<>>
      /\ tasks[a].tier \in 1..(Tiers + 1)
  BY TaskFields DEF RollupBase
<1>2. tasks[a].tier + 1 \in 1..(Tiers + 1)
  BY <1>1, TiersIsMoreThanOne
<1>3. k \in RollupTask /\ k.left = tasks[a].left /\ k.at = "create" /\ k.todo = tasks[a].todo /\ k.force = tasks[a].force
      /\ k.tier = tasks[a].tier + 1 /\ k.kind = tasks[a].kind
  BY <1>1, <1>2 DEF RollupTask
<1> HIDE DEF k
<1>4. WellTask(k)
  BY <1>1, <1>3 DEF WellTask
<1> QED
  BY <1>1, <1>3, <1>4, TaskChanges

LEMMA StartsOver ==
  ASSUME RollupBase, NEW a \in RollupActors, tasks[a].at \in {"drop", "create"},
         InTask(a, [tasks[a] EXCEPT !.at = "scan", !.tier = 1, !.left = <<>>])
  PROVE  /\ TasksInv' /\ OthersStay(a) /\ tasks'[a].at = "scan"
         /\ tasks'[a].todo = tasks[a].todo /\ tasks'[a].force = tasks[a].force
<1> DEFINE k == [tasks[a] EXCEPT !.at = "scan", !.tier = 1, !.left = <<>>]
<1>1. tasks[a] \in RollupTask /\ WellTask(tasks[a]) /\ InTask(a, k) /\ TasksInv /\ tasks[a].todo # <<>>
  BY TaskFields DEF RollupBase
<1>2. 1 \in 1..(Tiers + 1) /\ <<>> \in Seq(Views)
  BY TiersIsMoreThanOne
<1>3. k \in RollupTask /\ k.left = <<>> /\ k.at = "scan" /\ k.todo = tasks[a].todo /\ k.force = tasks[a].force
      /\ k.tier = 1 /\ k.kind = tasks[a].kind
  BY <1>1, <1>2 DEF RollupTask
<1> HIDE DEF k
<1>4. WellTask(k)
  BY <1>1, <1>3 DEF WellTask
<1> QED
  BY <1>1, <1>3, <1>4, TaskChanges

\* A set-up that begins.
LEMMA TaskBegins ==
  ASSUME RollupBase, NEW a \in RollupActors, NEW k \in RollupTask, WellTask(k), Begins(a, k)
  PROVE  TasksInv' /\ OthersStay(a) /\ tasks[a] = NoTask /\ tasks'[a] = k
         /\ (~uncertain' => ~uncertain /\ \A b \in RollupActors : tasks[b] = NoTask)
<1>1. InTask(a, k) /\ tasks[a] = NoTask /\ TasksInv
  BY DEF Begins, InTask, RollupBase
<1>2. TasksInv' /\ OthersStay(a) /\ tasks'[a] = k
  BY <1>1, TaskChanges
<1>3. uncertain' = (uncertain \/ ~AllIdle)
  BY DEF Begins
<1> QED
  BY <1>1, <1>2, <1>3 DEF AllIdle

\* What may begin: it is in no pass, and what it has before it is new.
Begun(k) == k \in RollupTask /\ WellTask(k) /\ k # NoTask /\ k.at \in {"scan", "drop"}
            /\ (k.at = "drop" => /\ k.todo # <<>> /\ Head(k.todo) \in Wides /\ k.left = DropList(Head(k.todo)))

LEMMA WhatBegins ==
  ASSUME RollupBase
  PROVE  /\ \A S \in SUBSET Stacks, force \in BOOLEAN : Begun(Setup("rebuild", InOrder(S), force))
         /\ \A s \in Stacks : Begun(Setup("retune", <<s>>, FALSE))
         /\ Begun(Setup("reconnect", InOrder(Wides \ complete), FALSE))
         /\ \A p \in Wides : Begun([Setup("edit", <<p>>, FALSE) EXCEPT !.at = "drop", !.left = DropList(p)])
<1>1. ASSUME NEW S \in SUBSET Stacks, NEW force \in BOOLEAN PROVE Begun(Setup("rebuild", InOrder(S), force))
  <2>1. InOrder(S) \in Seq(Stacks) /\ "rebuild" \in RollupKinds
    BY InOrderOf DEF RollupKinds
  <2> QED
    BY <2>1, SetupIs DEF Begun
<1>2. ASSUME NEW s \in Stacks PROVE Begun(Setup("retune", <<s>>, FALSE))
  <2>1. <<s>> \in Seq(Stacks) /\ "retune" \in RollupKinds /\ FALSE \in BOOLEAN
    BY DEF RollupKinds
  <2> QED
    BY <2>1, SetupIs DEF Begun
<1>3. Begun(Setup("reconnect", InOrder(Wides \ complete), FALSE))
  <2>1. InOrder(Wides \ complete) \in Seq(Stacks) /\ "reconnect" \in RollupKinds /\ FALSE \in BOOLEAN
    BY InOrderOf DEF RollupKinds, Stacks
  <2> QED
    BY <2>1, SetupIs DEF Begun
<1>4. ASSUME NEW p \in Wides PROVE Begun([Setup("edit", <<p>>, FALSE) EXCEPT !.at = "drop", !.left = DropList(p)])
  <2> DEFINE q == <<p>>
             e == Setup("edit", q, FALSE)
             d == DropList(p)
             k == [e EXCEPT !.at = "drop", !.left = d]
  <2>1. q \in Seq(Stacks) /\ "edit" \in RollupKinds /\ FALSE \in BOOLEAN /\ p \in Stacks /\ p # Shared
    BY TiersIsMoreThanOne DEF RollupKinds, Stacks
  <2>2. ToSet(q) \subseteq Wides /\ q # <<>> /\ Head(q) = p
    BY DEF ToSet
  <2> HIDE DEF q
  <2>3. e \in RollupTask /\ e.todo = q /\ e.kind = "edit" /\ e.tier = 1
    BY <2>1, <2>2, SetupIs DEF Setup
  <2>4. d \in Seq(Views) /\ d = TopDown(p, Tiers)
    BY <2>1, DropListOf DEF RollupBase
  <2> HIDE DEF e, d
  <2>5. k \in RollupTask /\ k.at = "drop" /\ k.left = d /\ k.todo = q /\ k.kind = "edit" /\ k.tier = 1
    BY <2>3, <2>4 DEF RollupTask
  <2> HIDE DEF k
  <2>6. Tiers \in 0..Tiers
    BY TiersIsMoreThanOne
  <2>7. WellTask(k)
    BY <2>2, <2>4, <2>5, <2>6 DEF WellTask
  <2>8. k # NoTask
    BY <2>5, NoTaskIs
  <2> QED
    BY <2>2, <2>5, <2>7, <2>8 DEF Begun, k, e, d, q
<1> QED
  BY <1>1, <1>2, <1>3, <1>4

----------------------------------------------------------------------------
(* The views, the list of views, and what lags. *)

RefreshOne(lagging, v) ==
    IF v \in DOMAIN views /\ (FromRaw(v) \/ SourceOf(v) \notin lagging) THEN lagging \ {v} ELSE lagging

LEMMA RefreshedIsFold ==
  ASSUME NEW seq
  PROVE  Refreshed(seq) =
           (CHOOSE f : f = [s \in SUBSET (DOMAIN seq) |->
               IF s = {} THEN stale ELSE RefreshOne(f[s \ {Max(s)}], seq[Max(s)])])[DOMAIN seq]
  BY Zenon DEF Refreshed, FoldLeft, MapThenFoldSet, RefreshOne

\* A refresh makes nothing stale.
LEMMA RefreshedIsLess ==
  ASSUME NEW seq \in Seq(Views)
  PROVE  Refreshed(seq) \subseteq stale
<1> DEFINE k == Len(seq)
           refresh == [p \in (SUBSET stale) \X Views |-> RefreshOne(p[1], p[2])]
           P(f) == f = [s \in SUBSET (DOMAIN seq) |->
                         IF s = {} THEN stale ELSE RefreshOne(f[s \ {Max(s)}], seq[Max(s)])]
           C == CHOOSE f : P(f)
<1>1. k \in Nat /\ DOMAIN seq = 1..k /\ seq \in [1..k -> Views]
  OBVIOUS
<1>2. \A lagging \in SUBSET stale : \A v \in Views : RefreshOne(lagging, v) \in SUBSET stale
  BY DEF RefreshOne
<1> HIDE DEF k
<1>3. refresh \in [(SUBSET stale) \X Views -> SUBSET stale] /\ stale \in SUBSET stale
  BY <1>2
<1> HIDE DEF refresh
<1>4. PICK f : FoldsTo(SUBSET stale, refresh, stale, seq, k, f)
  BY <1>1, <1>3, FoldExists
<1>5. P(f)
  <2>1. ASSUME NEW s \in SUBSET (1..k)
        PROVE  f[s] = IF s = {} THEN stale ELSE RefreshOne(f[s \ {Max(s)}], seq[Max(s)])
    <3>1. CASE s = {}
      BY <1>4, <3>1 DEF FoldsTo, FoldStep
    <3>2. CASE s # {}
      <4>1. Max(s) \in s /\ s \ {Max(s)} \in SUBSET (1..k)
        BY <1>1, <3>2, GreatestNumber
      <4>2. seq[Max(s)] \in Views /\ f[s \ {Max(s)}] \in SUBSET stale
        BY <1>1, <1>4, <4>1 DEF FoldsTo
      <4>3. refresh[<<f[s \ {Max(s)}], seq[Max(s)]>>] = RefreshOne(f[s \ {Max(s)}], seq[Max(s)])
        BY <4>2 DEF refresh
      <4> QED
        BY <1>4, <3>2, <4>3 DEF FoldsTo, FoldStep
    <3> QED
      BY <3>1, <3>2
  <2>2. f \in [SUBSET (1..k) -> SUBSET stale]
    BY <1>4 DEF FoldsTo
  <2> QED
    BY <1>1, <2>1, <2>2
<1>6. P(C)
  <2> HIDE DEF P
  <2> QED
    BY <1>5
<1>7. Refreshed(seq) = C[1..k]
  <2>1. Refreshed(seq) = C[DOMAIN seq]
    BY RefreshedIsFold, Zenon
  <2> QED
    BY <1>1, <2>1, Zenon
<1> HIDE DEF C
<1>8. C[1..0] = stale /\ \A n \in 1..k : C[1..n] = RefreshOne(C[1..(n - 1)], seq[n])
  <2>1. 1..0 = {} /\ (1..0) \in SUBSET (1..k)
    OBVIOUS
  <2>2. C[1..0] = stale
    BY <1>1, <1>6, <2>1
  <2>3. ASSUME NEW n \in 1..k PROVE C[1..n] = RefreshOne(C[1..(n - 1)], seq[n])
    <3>1. n \in Nat \ {0} /\ 1..n # {} /\ (1..n) \in SUBSET (1..k)
      BY <1>1
    <3>2. Max(1..n) = n /\ (1..n) \ {n} = 1..(n - 1)
      BY <3>1, GreatestOfRun
    <3> QED
      BY <1>1, <1>6, <3>1, <3>2
  <2> QED
    BY <2>2, <2>3
<1> HIDE DEF P
<1> DEFINE T == {n \in Nat : n <= k => C[1..n] \in SUBSET stale}
<1>9. 0 \in T
  BY <1>8
<1>10. ASSUME NEW n \in Nat, n \in T PROVE n + 1 \in T
  <2> SUFFICES ASSUME n + 1 <= k PROVE C[1..(n + 1)] \in SUBSET stale
    OBVIOUS
  <2> DEFINE m == n + 1
  <2>1. m \in 1..k /\ m - 1 = n /\ n <= k
    BY <1>1
  <2>2. C[1..n] \in SUBSET stale
    BY <1>10, <2>1
  <2> HIDE DEF m
  <2>3. C[1..m] = RefreshOne(C[1..n], seq[m]) /\ seq[m] \in Views
    BY <1>1, <1>8, <2>1
  <2>4. C[1..m] \in SUBSET stale
    BY <1>2, <2>2, <2>3
  <2> QED
    BY <2>4 DEF m
<1>11. k \in T
  <2> HIDE DEF T
  <2> QED
    BY <1>1, <1>9, <1>10, Induction
<1>12. k <= k
  BY <1>1
<1> QED
  BY <1>7, <1>11, <1>12

\* A view taken off the list.
LEMMA WithoutOne ==
  ASSUME KnownInv, NEW v
  PROVE  LET r == Without(known, v)
         IN  /\ r \in Seq(Views) /\ ToSet(r) = ToSet(known) \ {v}
             /\ \A i, j \in DOMAIN r : r[i] = r[j] => i = j
             /\ \A j \in DOMAIN r : \E m \in DOMAIN known :
                   /\ r[j] = known[m]
                   /\ \A i \in 1..(m - 1) : known[i] # v => \E n \in 1..(j - 1) : r[n] = known[i]
<1> DEFINE z == Len(known)
<1>1. known \in Seq(Views) /\ z \in Nat /\ DOMAIN known = 1..z /\ \A i, j \in 1..z : known[i] = known[j] => i = j
  BY DEF KnownInv
<1>2. CASE v \notin ToSet(known)
  <2>1. Without(known, v) = known
    BY <1>2 DEF Without
  <2>2. \A j \in 1..z : \E m \in 1..z :
                   /\ known[j] = known[m]
                   /\ \A i \in 1..(m - 1) : known[i] # v => \E n \in 1..(j - 1) : known[n] = known[i]
    OBVIOUS
  <2> QED
    BY <1>1, <1>2, <2>1, <2>2
<1>3. CASE v \in ToSet(known)
  <2> DEFINE k == CHOOSE i \in DOMAIN known : known[i] = v
             r == RemoveAt(known, k)
  <2>1. k \in DOMAIN known /\ known[k] = v
    BY <1>3 DEF ToSet
  <2>2. Without(known, v) = r
    BY <1>3, SMTT(30) DEF Without
  <2> HIDE DEF k
  <2>3. /\ r \in Seq(Views) /\ z \in Nat \ {0} /\ Len(r) = z - 1
        /\ \A i \in 1..(z - 1) : r[i] = known[IF i < k THEN i ELSE i + 1]
    BY <1>1, <2>1, RemovedAt, ZenonT(60)
  <2> HIDE DEF r, z
  <2>4. DOMAIN r = 1..(z - 1) /\ k \in 1..z
    BY <1>1, <2>1, <2>3
  <2>5. /\ \A i \in 1..(z - 1) : i < k => i \in 1..z /\ i # k /\ r[i] = known[i]
        /\ \A i \in 1..(z - 1) : ~(i < k) => i + 1 \in 1..z /\ i + 1 # k /\ r[i] = known[i + 1]
    BY <2>3, <2>4
  <2>6. /\ \A m \in 1..z : m < k => m \in 1..(z - 1) /\ r[m] = known[m]
        /\ \A m \in 1..z : m > k => m - 1 \in 1..(z - 1) /\ r[m - 1] = known[m]
    <3>1. ASSUME NEW m \in 1..z, m < k PROVE m \in 1..(z - 1) /\ r[m] = known[m]
      <4>1. m \in 1..(z - 1)
        BY <2>3, <2>4, <3>1
      <4> QED
        BY <2>5, <3>1, <4>1
    <3>2. ASSUME NEW m \in 1..z, m > k PROVE m - 1 \in 1..(z - 1) /\ r[m - 1] = known[m]
      <4> DEFINE i == m - 1
      <4>1. i \in 1..(z - 1) /\ ~(i < k) /\ i + 1 = m
        BY <2>3, <2>4, <3>2
      <4> HIDE DEF i
      <4>2. r[i] = known[m]
        BY <2>5, <4>1
      <4> QED
        BY <4>1, <4>2 DEF i
    <3> QED
      BY <3>1, <3>2
  <2>7. ASSUME NEW i \in 1..(z - 1), NEW j \in 1..(z - 1), r[i] = r[j] PROVE i = j
    <3>1. i \in Int /\ j \in Int /\ k \in Int
      BY <2>3, <2>4
    <3>2. CASE i < k /\ j < k
      BY <1>1, <2>5, <2>7, <3>2
    <3>3. CASE i < k /\ ~(j < k)
      <4>1. i = j + 1
        BY <1>1, <2>5, <2>7, <3>3
      <4> QED
        BY <3>1, <3>3, <4>1
    <3>4. CASE ~(i < k) /\ j < k
      <4>1. i + 1 = j
        BY <1>1, <2>5, <2>7, <3>4
      <4> QED
        BY <3>1, <3>4, <4>1
    <3>5. CASE ~(i < k) /\ ~(j < k)
      <4>1. i + 1 = j + 1
        BY <1>1, <2>5, <2>7, <3>5
      <4> QED
        BY <3>1, <4>1
    <3> QED
      BY <3>2, <3>3, <3>4, <3>5
  <2>8. ToSet(r) = ToSet(known) \ {v}
    <3>1. \A i \in 1..(z - 1) : r[i] \in ToSet(known) \ {v}
      <4> SUFFICES ASSUME NEW i \in 1..(z - 1) PROVE r[i] \in ToSet(known) \ {v}
        OBVIOUS
      <4>1. PICK m \in 1..z : m # k /\ r[i] = known[m]
        BY <2>5
      <4>2. known[m] # v
        BY <1>1, <2>1, <4>1
      <4> QED
        BY <1>1, <4>1, <4>2 DEF ToSet
    <3>2. \A x \in ToSet(known) \ {v} : x \in ToSet(r)
      <4> SUFFICES ASSUME NEW m \in 1..z, known[m] # v PROVE known[m] \in ToSet(r)
        BY <1>1 DEF ToSet
      <4>1. m # k /\ m \in Int /\ k \in Int
        BY <2>1, <2>3, <2>4
      <4>2. CASE m < k
        BY <2>4, <2>6, <4>2 DEF ToSet
      <4>3. CASE m > k
        BY <2>4, <2>6, <4>3 DEF ToSet
      <4> QED
        BY <4>1, <4>2, <4>3
    <3>3. \A x \in ToSet(r) : \E i \in 1..(z - 1) : x = r[i]
      BY <2>4 DEF ToSet
    <3> QED
      BY <3>1, <3>2, <3>3
  <2>9. ASSUME NEW j \in 1..(z - 1)
        PROVE \E m \in 1..z : /\ r[j] = known[m]
                   /\ \A i \in 1..(m - 1) : known[i] # v => \E n \in 1..(j - 1) : r[n] = known[i]
    <3>0. j \in Int /\ k \in Int /\ z \in Int
      BY <2>3, <2>4
    <3>1. CASE j < k
      <4>1. j \in 1..z /\ r[j] = known[j]
        BY <2>5, <3>1
      <4>2. \A i \in 1..(j - 1) : i \in 1..(j - 1) /\ r[i] = known[i]
        <5> SUFFICES ASSUME NEW i \in 1..(j - 1) PROVE r[i] = known[i]
          OBVIOUS
        <5>1. i \in 1..z /\ i < k
          BY <3>0, <3>1, <4>1
        <5> QED
          BY <2>6, <5>1
      <4> QED
        BY <4>1, <4>2
    <3>2. CASE ~(j < k)
      <4> DEFINE m == j + 1
      <4>1. m \in 1..z /\ r[j] = known[m]
        BY <2>5, <3>2
      <4>2. ASSUME NEW i \in 1..(m - 1), known[i] # v PROVE \E n \in 1..(j - 1) : r[n] = known[i]
        <5>1. i \in 1..z /\ i # k /\ i \in 1..j
          BY <2>1, <3>0, <4>1, <4>2
        <5>2. CASE i < k
          <6>1. i \in 1..(j - 1) /\ r[i] = known[i]
            BY <2>6, <3>0, <3>2, <5>1, <5>2
          <6> QED
            BY <6>1
        <5>3. CASE ~(i < k)
          <6>1. i > k
            BY <3>0, <5>1, <5>3
          <6>2. i - 1 \in 1..(j - 1) /\ r[i - 1] = known[i]
            BY <2>4, <2>6, <3>0, <5>1, <6>1
          <6> QED
            BY <6>2
        <5> QED
          BY <5>2, <5>3
      <4> QED
        BY <4>1, <4>2
    <3> QED
      BY <3>1, <3>2
  <2>10. DOMAIN known = 1..z
    BY <1>1
  <2>11. \A j \in DOMAIN r : \E m \in DOMAIN known :
                   /\ r[j] = known[m]
                   /\ \A i \in 1..(m - 1) : known[i] # v => \E n \in 1..(j - 1) : r[n] = known[i]
    BY <2>4, <2>9, <2>10
  <2>12. \A i, j \in DOMAIN r : r[i] = r[j] => i = j
    BY <2>4, <2>7
  <2> QED
    BY <2>2, <2>3, <2>8, <2>11, <2>12
<1> QED
  BY <1>2, <1>3

\* A view put on the list.
LEMMA ListedOne ==
  ASSUME KnownInv, NEW v \in Views
  PROVE  LET r == Listed(v)
         IN  /\ r \in Seq(Views) /\ ToSet(r) = ToSet(known) \cup {v}
             /\ \A i, j \in DOMAIN r : r[i] = r[j] => i = j
             /\ \A i \in DOMAIN known : i \in DOMAIN r /\ r[i] = known[i]
             /\ \A i \in DOMAIN r : i \in DOMAIN known \/ (r[i] = v /\ i = Len(known) + 1)
<1>1. known \in Seq(Views) /\ DOMAIN known = 1..Len(known) /\ Len(known) \in Nat
  BY DEF KnownInv
<1>2. CASE v \in ToSet(known)
  <2>1. Listed(v) = known /\ ToSet(known) \cup {v} = ToSet(known)
    BY <1>2 DEF Listed
  <2> QED
    BY <1>1, <2>1 DEF KnownInv
<1>3. CASE v \notin ToSet(known)
  <2> DEFINE r == Append(known, v)
             z == Len(known)
  <2>1. Listed(v) = r
    BY <1>3 DEF Listed
  <2>2. /\ r \in Seq(Views) /\ ToSet(r) = ToSet(known) \cup {v} /\ Len(r) = z + 1
        /\ \A i \in 1..z : r[i] = known[i]
        /\ r[z + 1] = v
    BY <1>1, ToSetOfAppend
  <2>3. DOMAIN r = 1..(z + 1)
    BY <1>1, <2>2
  <2>4. \A i \in 1..(z + 1) : i \in 1..z \/ i = z + 1
    BY <1>1
  <2>5. \A i \in 1..z : known[i] # v
    BY <1>1, <1>3 DEF ToSet
  <2> HIDE DEF r, z
  <2>6. ASSUME NEW i \in 1..(z + 1), NEW j \in 1..(z + 1), r[i] = r[j] PROVE i = j
    <3>1. CASE i \in 1..z /\ j \in 1..z
      BY <1>1, <2>2, <2>6, <3>1 DEF KnownInv, z
    <3>2. CASE i = z + 1 \/ j = z + 1
      BY <2>2, <2>4, <2>5, <2>6, <3>2
    <3> QED
      BY <2>4, <3>1, <3>2
  <2>7. \A i \in 1..z : i \in 1..(z + 1)
    BY <1>1 DEF z
  <2> QED
    BY <1>1, <2>1, <2>2, <2>3, <2>4, <2>6, <2>7 DEF z
<1> QED
  BY <1>2, <1>3

\* The list of all the views: each once, after its source.
LEMMA AllListed ==
  LET r == FlattenSeq([i \in 1..(1 + Cardinality(Wides)) |-> [t \in 1..Tiers |-> ViewOf(InOrder(Stacks)[i], t)]])
  IN  /\ r \in Seq(Views) /\ ToSet(r) = Views
      /\ \A i, j \in DOMAIN r : r[i] = r[j] => i = j
      /\ \A j \in DOMAIN r : ~FromRaw(r[j]) => \E i \in 1..(j - 1) : r[i] = SourceOf(r[j])
<1> DEFINE n == 1 + Cardinality(Wides)
           order == InOrder(Stacks)
           seqs == [i \in 1..n |-> [t \in 1..Tiers |-> ViewOf(order[i], t)]]
           r == FlattenSeq(seqs)
<1>1. /\ order \in [1..n -> Stacks] /\ n \in Nat \ {0}
      /\ \A i, j \in 1..n : order[i] = order[j] => i = j
  BY InOrderOfAll
<1>2. order \in Seq(Stacks) /\ ToSet(order) = Stacks
  BY InOrderOf
<1> HIDE DEF n, order
<1>3. ASSUME NEW i \in 1..n
      PROVE  /\ seqs[i] \in Seq(Views) /\ DOMAIN seqs[i] = 1..Tiers
             /\ \A t \in 1..Tiers : seqs[i][t] = ViewOf(order[i], t)
  <2>1. order[i] \in Stacks
    BY <1>1
  <2>2. seqs[i] = [t \in 1..Tiers |-> ViewOf(order[i], t)]
    OBVIOUS
  <2>3. \A t \in 1..Tiers : ViewOf(order[i], t) \in Views
    BY <2>1, ViewOfFields
  <2> HIDE DEF seqs
  <2> QED
    BY <2>2, <2>3, TiersIsMoreThanOne
<1>4. seqs \in [1..n -> Seq(Views)]
  BY <1>3
<1> HIDE DEF seqs
<1>5. r \in Seq(Views) /\ Range(r) = UNION {Range(seqs[i]) : i \in 1..n}
  <2>1. n \in Nat
    BY <1>1
  <2> QED
    BY <1>4, <2>1, Flattened, Zenon
<1>6. PICK blk, off : Traced(r, seqs, n, blk, off)
  BY <1>1, <1>4, FlattenedInOrder
<1> HIDE DEF r
<1>7. DOMAIN r = 1..Len(r) /\ Len(r) \in Nat /\ ToSet(r) = Range(r)
  BY <1>5 DEF ToSet, Range
<1>8. ASSUME NEW k \in 1..Len(r)
      PROVE  /\ blk[k] \in 1..n /\ off[k] \in 1..Tiers /\ r[k] = ViewOf(order[blk[k]], off[k])
             /\ order[blk[k]] \in Stacks
  <2>1. blk[k] \in 1..n /\ off[k] \in DOMAIN seqs[blk[k]] /\ r[k] = seqs[blk[k]][off[k]]
    BY <1>6 DEF Traced
  <2> QED
    BY <1>1, <1>3, <2>1
<1>9. ASSUME NEW k \in 1..Len(r), NEW l \in 1..Len(r)
      PROVE k < l => blk[k] < blk[l] \/ (blk[k] = blk[l] /\ off[k] < off[l])
  BY <1>6 DEF Traced
<1>10. ASSUME NEW k \in 1..Len(r), NEW l \in 1..Len(r), r[k] = r[l] PROVE blk[k] = blk[l] /\ off[k] = off[l]
  <2>1. order[blk[k]] = order[blk[l]] /\ off[k] = off[l]
    BY <1>8, <1>10, ViewOfFields
  <2> QED
    BY <1>1, <1>8, <2>1
<1>11. ASSUME NEW k \in 1..Len(r), NEW l \in 1..Len(r), r[k] = r[l] PROVE k = l
  <2>1. blk[k] = blk[l] /\ off[k] = off[l]
    BY <1>10, <1>11
  <2>2. blk[k] \in Int /\ off[k] \in Int /\ k \in Int /\ l \in Int
    BY <1>8, <1>1, TiersIsMoreThanOne
  <2>3. ~(k < l) /\ ~(l < k)
    BY <1>9, <2>1, <2>2
  <2> QED
    BY <2>2, <2>3
<1>12. ASSUME NEW s \in Stacks, NEW t \in 1..Tiers PROVE \E k \in 1..Len(r) : r[k] = ViewOf(s, t)
  <2>1. PICK i \in 1..n : order[i] = s
    BY <1>1, <1>2 DEF ToSet
  <2>2. ViewOf(s, t) \in Range(seqs[i])
    BY <1>3, <2>1 DEF Range
  <2>3. ViewOf(s, t) \in Range(r)
    BY <1>5, <2>2
  <2> QED
    BY <1>7, <2>3 DEF Range
<1>13. ToSet(r) = Views
  <2>1. ASSUME NEW v \in Views PROVE v \in ToSet(r)
    <3>1. v.stack \in Stacks /\ v.tier \in 1..Tiers /\ v = ViewOf(v.stack, v.tier)
      BY ViewOfFields
    <3>2. PICK k \in 1..Len(r) : r[k] = ViewOf(v.stack, v.tier)
      BY <1>12, <3>1
    <3> QED
      BY <1>7, <3>1, <3>2 DEF ToSet
  <2>2. \A k \in 1..Len(r) : r[k] \in Views
    BY <1>5
  <2>3. \A x \in ToSet(r) : x \in Views
    BY <1>7, <2>2 DEF ToSet
  <2> QED
    BY <2>1, <2>3
<1>14. ASSUME NEW j \in 1..Len(r), ~FromRaw(r[j]) PROVE \E i \in 1..(j - 1) : r[i] = SourceOf(r[j])
  <2>1. /\ blk[j] \in 1..n /\ off[j] \in 1..Tiers /\ r[j] = ViewOf(order[blk[j]], off[j]) /\ r[j] \in Views
        /\ order[blk[j]] \in Stacks
    BY <1>5, <1>8
  <2>2. r[j].stack = order[blk[j]] /\ r[j].tier = off[j] /\ off[j] - 1 \in 1..Tiers
    BY <1>14, <2>1, ViewOfFields
  <2>3. SourceOf(r[j]) = ViewOf(order[blk[j]], off[j] - 1)
    BY <2>2 DEF SourceOf
  <2>4. PICK i \in 1..Len(r) : r[i] = ViewOf(order[blk[j]], off[j] - 1)
    BY <1>12, <2>1, <2>2
  <2>5. /\ blk[i] \in 1..n /\ off[i] \in 1..Tiers /\ r[i] = ViewOf(order[blk[i]], off[i])
    BY <1>8
  <2>6. order[blk[i]] = order[blk[j]] /\ off[i] = off[j] - 1
    BY <2>4, <2>5, ViewOfFields
  <2>7. blk[i] = blk[j] /\ off[i] = off[j] - 1
    BY <1>1, <2>1, <2>5, <2>6
  <2>8. blk[i] \in Int /\ off[i] \in Int /\ i \in Int /\ j \in Int /\ off[j] \in Int
    BY <1>1, <2>1, <2>5, TiersIsMoreThanOne
  <2>9. ~(j < i) /\ i # j
    <3>1. j < i => blk[j] < blk[i] \/ (blk[j] = blk[i] /\ off[j] < off[i])
      BY <1>9
    <3> QED
      BY <2>7, <2>8, <3>1
  <2>10. i \in 1..(j - 1)
    BY <2>8, <2>9, <1>7
  <2> QED
    BY <2>3, <2>4, <2>10
<1>15. /\ r \in Seq(Views) /\ ToSet(r) = Views
       /\ \A i, j \in DOMAIN r : r[i] = r[j] => i = j
       /\ \A j \in DOMAIN r : ~FromRaw(r[j]) => \E i \in 1..(j - 1) : r[i] = SourceOf(r[j])
  BY <1>5, <1>7, <1>11, <1>13, <1>14
<1> QED
  BY <1>15 DEF r, seqs, n, order

\* An exception ends the stack.
LEMMA RaisedIs ==
  ASSUME RollupBase, NEW a \in RollupActors, tasks[a].todo # <<>>, Raises(a)
  PROVE  /\ TasksInv' /\ OthersStay(a) /\ tasks'[a].at \in {"idle", "scan"}
         /\ \A p, t : Ahead(tasks'[a], p, t) <=> p \in ToSet(Tail(tasks[a].todo))
         /\ \A p, t, v : ~Passed(tasks'[a], p, t) /\ ~Dropping(tasks'[a], p, v)
         /\ broken' = broken \cup {Stack(a)} /\ broken' \subseteq Stacks /\ failed' /\ complete' = complete
<1>1. TasksInv /\ InTask(a, NextStack(a)) /\ broken \subseteq Stacks /\ Stack(a) \in Stacks
  BY TaskFields DEF RollupBase, Raises, StoredInv
<1>2. broken' = broken \cup {Stack(a)} /\ failed' /\ complete' = complete
  BY DEF Raises
<1>3. /\ TasksInv' /\ OthersStay(a) /\ tasks'[a].at \in {"idle", "scan"}
      /\ \A p, t : Ahead(tasks'[a], p, t) <=> p \in ToSet(Tail(tasks[a].todo))
      /\ \A p, t, v : ~Passed(tasks'[a], p, t) /\ ~Dropping(tasks'[a], p, v)
  BY <1>1, GoesToNextStack
<1> QED
  BY <1>1, <1>2, <1>3

\* A purge drops the view at the head of its list.
LEMMA DroppedIs ==
  ASSUME RollupBase, NEW a \in RollupActors, DropView(a)
  PROVE  LET v == Head(tasks[a].left)
         IN  /\ tasks[a].at = "drop" /\ tasks[a].left # <<>> /\ tasks[a].todo # <<>> /\ v \in Views
             /\ TasksInv' /\ OthersStay(a) /\ uncertain' = uncertain /\ rollupErrors' = rollupErrors
             /\ robbed' = robbed \cup ({v.stack} \cap (Wides \ {Stack(a)}))
             /\ \/ v \in DOMAIN views /\ Gone(Fallen(v))
                   /\ known' = IF Stack(a) = Shared THEN known ELSE Without(known, v)
                \/ v \notin DOMAIN views /\ UNCHANGED <<views, stale, known>>
             /\ \/ v \notin DOMAIN views /\ Stack(a) = Shared /\ Raises(a)
                \/ /\ v \in DOMAIN views \/ Stack(a) # Shared
                   /\ tasks'[a].at = "drop" /\ tasks'[a].left = Tail(tasks[a].left)
                   /\ tasks'[a].todo = tasks[a].todo /\ tasks'[a].force = tasks[a].force
                   /\ UNCHANGED <<complete, broken, failed>>
<1> DEFINE v == Head(tasks[a].left)
<1>1. tasks[a].at = "drop" /\ tasks[a].left # <<>> /\ tasks[a].todo # <<>> /\ v \in Views
  BY TaskFields, LeftOf DEF RollupBase, DropView
<1>2. uncertain' = uncertain /\ rollupErrors' = rollupErrors
      /\ robbed' = robbed \cup ({v.stack} \cap (Wides \ {Stack(a)}))
  BY DEF DropView, rollupBounds
<1>3. \/ v \in DOMAIN views /\ Gone(Fallen(v))
            /\ known' = IF Stack(a) = Shared THEN known ELSE Without(known, v)
      \/ v \notin DOMAIN views /\ UNCHANGED <<views, stale, known>>
  BY DEF DropView
<1>4. CASE v \notin DOMAIN views /\ Stack(a) = Shared
  <2>1. Raises(a)
    BY <1>4 DEF DropView
  <2>2. TasksInv' /\ OthersStay(a)
    BY <1>1, <2>1, RaisedIs
  <2> HIDE DEF v
  <2> QED
    BY <1>1, <1>2, <1>3, <1>4, <2>1, <2>2 DEF v
<1>5. CASE v \in DOMAIN views \/ Stack(a) # Shared
  <2>1. InTask(a, [tasks[a] EXCEPT !.left = Tail(@)]) /\ UNCHANGED <<complete, broken, failed>>
    BY <1>5 DEF DropView
  <2>2. /\ TasksInv' /\ OthersStay(a)
        /\ tasks'[a].at = "drop" /\ tasks'[a].left = Tail(tasks[a].left)
        /\ tasks'[a].todo = tasks[a].todo /\ tasks'[a].force = tasks[a].force
    BY <1>1, <2>1, PurgeGoesOn
  <2> HIDE DEF v
  <2> QED
    BY <1>1, <1>2, <1>3, <1>5, <2>1, <2>2 DEF v
<1> QED
  BY <1>4, <1>5

\* A pass creates a view, or finds it there; or the source is not there, or lacks a column.
Created(a, v) ==
    /\ DOMAIN views' = DOMAIN views \cup {v}
    /\ \A w \in DOMAIN views : views'[w] = views[w]
    /\ v \notin DOMAIN views => views'[v] = [fits |-> TRUE, full |-> TRUE]
    /\ known' = Listed(v)
    /\ UNCHANGED <<complete, broken, failed>>

LEMMA CreatedIs ==
  ASSUME RollupBase, NEW a \in RollupActors, CreateView(a)
  PROVE  LET v == ViewOf(Stack(a), tasks[a].tier)
         IN  /\ tasks[a].at = "create" /\ tasks[a].todo # <<>> /\ tasks[a].tier \in 1..Tiers /\ v \in Views
             /\ TasksInv' /\ OthersStay(a) /\ uncertain' = uncertain /\ robbed' = robbed /\ rollupErrors' = rollupErrors
             /\ views' = [w \in DOMAIN views' |-> views'[w]]
             /\ \/ /\ Created(a, v) /\ (stale' = stale \/ stale' = stale \cup {v})
                   /\ tasks'[a].at = "create" /\ tasks'[a].tier = tasks[a].tier + 1
                   /\ tasks'[a].todo = tasks[a].todo /\ tasks'[a].force = tasks[a].force
                   /\ v \in DOMAIN views \/ Creatable(v)
                \/ v \notin DOMAIN views /\ ~Creatable(v) /\ Raises(a) /\ UNCHANGED <<views, stale, known>>
<1> DEFINE v == ViewOf(Stack(a), tasks[a].tier)
<1>1. tasks[a].at = "create" /\ tasks[a].todo # <<>> /\ tasks[a].tier \in 1..Tiers /\ v \in Views
  <2>1. tasks[a].at = "create" /\ tasks[a].tier <= Tiers
    BY DEF CreateView
  <2>2. tasks[a].todo # <<>> /\ Stack(a) \in Stacks /\ tasks[a].tier \in 1..(Tiers + 1)
    BY <2>1, TaskFields DEF RollupBase
  <2>3. tasks[a].tier \in 1..Tiers
    BY <2>1, <2>2, TiersIsMoreThanOne
  <2> QED
    BY <2>1, <2>2, <2>3, ViewOfFields
<1>2. uncertain' = uncertain /\ robbed' = robbed /\ rollupErrors' = rollupErrors
  BY DEF CreateView, rollupBounds
<1>3. views = [w \in DOMAIN views |-> views[w]]
  BY DEF RollupBase, StoredInv
<1>4. CASE v \in DOMAIN views \/ Creatable(v)
  <2>1. /\ views' = IF v \in DOMAIN views THEN views
                             ELSE [w \in DOMAIN views \cup {v} |->
                                      IF w = v THEN [fits |-> TRUE, full |-> TRUE] ELSE views[w]]
        /\ stale' = IF v \in DOMAIN views THEN stale ELSE stale \cup {v}
        /\ known' = Listed(v)
        /\ InTask(a, [tasks[a] EXCEPT !.tier = @ + 1]) /\ UNCHANGED <<complete, broken, failed>>
    BY <1>4 DEF CreateView
  <2>2. /\ TasksInv' /\ OthersStay(a)
        /\ tasks'[a].at = "create" /\ tasks'[a].tier = tasks[a].tier + 1
        /\ tasks'[a].todo = tasks[a].todo /\ tasks'[a].force = tasks[a].force
    <3>1. tasks[a].tier <= Tiers
      BY DEF CreateView
    <3> QED
      BY <1>1, <2>1, <3>1, PassGoesOn
  <2> HIDE DEF v
  <2>3. Created(a, v) /\ views' = [w \in DOMAIN views' |-> views'[w]] /\ (stale' = stale \/ stale' = stale \cup {v})
    <3>1. CASE v \in DOMAIN views
      <4>1. views' = views /\ DOMAIN views \cup {v} = DOMAIN views
        BY <2>1, <3>1
      <4> QED
        BY <1>3, <2>1, <3>1, <4>1 DEF Created
    <3>2. CASE v \notin DOMAIN views
      <4>1. views' = [w \in DOMAIN views \cup {v} |-> IF w = v THEN [fits |-> TRUE, full |-> TRUE] ELSE views[w]]
        BY <2>1, <3>2
      <4>2. /\ DOMAIN views' = DOMAIN views \cup {v}
            /\ \A w \in DOMAIN views : views'[w] = views[w]
            /\ views'[v] = [fits |-> TRUE, full |-> TRUE]
        BY <3>2, <4>1
      <4>3. views' = [w \in DOMAIN views' |-> views'[w]]
        BY <4>1
      <4> QED
        BY <2>1, <3>2, <4>2, <4>3 DEF Created
    <3> QED
      BY <3>1, <3>2
  <2> QED
    BY <1>1, <1>2, <1>4, <2>2, <2>3 DEF v
<1>5. CASE ~(v \in DOMAIN views \/ Creatable(v))
  <2>1. Raises(a) /\ UNCHANGED <<views, stale, known>>
    BY <1>5 DEF CreateView
  <2>2. TasksInv' /\ OthersStay(a)
    BY <1>1, <2>1, RaisedIs
  <2> HIDE DEF v
  <2> QED
    BY <1>1, <1>2, <1>3, <1>5, <2>1, <2>2 DEF v
<1> QED
  BY <1>4, <1>5

LEMMA FinishedIs ==
  ASSUME RollupBase, NEW a \in RollupActors, Finish(a)
  PROVE  /\ tasks[a].at = "create" /\ tasks[a].todo # <<>> /\ tasks[a].tier = Tiers + 1
         /\ TasksInv' /\ OthersStay(a) /\ tasks'[a].at \in {"idle", "scan"}
         /\ \A p, t : Ahead(tasks'[a], p, t) <=> p \in ToSet(Tail(tasks[a].todo))
         /\ \A p, t, v : ~Passed(tasks'[a], p, t) /\ ~Dropping(tasks'[a], p, v)
         /\ complete' = complete \cup ({Stack(a)} \cap Wides)
         /\ stale' \subseteq stale /\ broken' = broken \ {Stack(a)}
         /\ robbed' = IF Missing(Stack(a)) = {} THEN robbed \ {Stack(a)} ELSE robbed
         /\ UNCHANGED <<views, known, uncertain, failed, rollupErrors>>
<1>1. tasks[a].at = "create" /\ tasks[a].todo # <<>> /\ tasks[a].tier = Tiers + 1 /\ Stack(a) \in Stacks
  <2>1. tasks[a].at = "create" /\ tasks[a].tier > Tiers
    BY DEF Finish
  <2>2. tasks[a].todo # <<>> /\ Stack(a) \in Stacks /\ tasks[a].tier \in 1..(Tiers + 1)
    BY <2>1, TaskFields DEF RollupBase
  <2> QED
    BY <2>1, <2>2, TiersIsMoreThanOne
<1>2. /\ TasksInv' /\ OthersStay(a) /\ tasks'[a].at \in {"idle", "scan"}
      /\ \A p, t : Ahead(tasks'[a], p, t) <=> p \in ToSet(Tail(tasks[a].todo))
      /\ \A p, t, v : ~Passed(tasks'[a], p, t) /\ ~Dropping(tasks'[a], p, v)
  BY <1>1, GoesToNextStack DEF Finish, RollupBase
<1>3. stale' \subseteq stale
  <2> DEFINE own == [t \in 1..Tiers |-> ViewOf(Stack(a), t)]
  <2>1. stale' = Refreshed(IF Stack(a) = Shared THEN known ELSE own)
    BY DEF Finish
  <2>2. known \in Seq(Views)
    BY DEF RollupBase, KnownInv
  <2>3. own \in Seq(Views)
    BY <1>1, ViewOfFields, TiersIsMoreThanOne
  <2> HIDE DEF own
  <2>4. (IF Stack(a) = Shared THEN known ELSE own) \in Seq(Views)
    BY <2>2, <2>3
  <2> QED
    BY <2>1, <2>4, RefreshedIsLess
<1> QED
  BY <1>1, <1>2, <1>3 DEF Finish, rollupBounds

LEMMA StumbledIs ==
  ASSUME RollupBase, NEW a \in RollupActors, SetupStumbles(a)
  PROVE  /\ tasks[a].at \in {"drop", "create"} /\ tasks[a].todo # <<>>
         /\ TasksInv' /\ OthersStay(a) /\ rollupErrors' = rollupErrors + 1
         /\ UNCHANGED <<views, stale, known, robbed, uncertain>>
         /\ \/ Raises(a)
            \/ /\ Stack(a) = Shared /\ UNCHANGED <<complete, broken, failed>>
               /\ tasks'[a].at = "scan" /\ tasks'[a].todo = tasks[a].todo /\ tasks'[a].force = tasks[a].force
<1>1. tasks[a].at \in {"drop", "create"} /\ tasks[a].todo # <<>>
  BY TaskFields DEF RollupBase, SetupStumbles
<1>2. rollupErrors' = rollupErrors + 1 /\ UNCHANGED <<views, stale, known, robbed, uncertain>>
  BY DEF SetupStumbles
<1>3. CASE Raises(a)
  BY <1>1, <1>2, <1>3, RaisedIs
<1>4. CASE /\ Stack(a) = Shared /\ UNCHANGED <<complete, broken, failed>>
           /\ InTask(a, [tasks[a] EXCEPT !.at = "scan", !.tier = 1, !.left = <<>>])
  BY <1>1, <1>2, <1>4, StartsOver
<1> QED
  BY <1>3, <1>4 DEF SetupStumbles

LEMMA RestartedIs ==
  ASSUME RollupBase, NEW drifted \in BOOLEAN, NEW grown \in BOOLEAN, RestartRollups(drifted, grown)
  PROVE  /\ TasksInv' /\ tasks'["main"].at = "scan" /\ tasks'["main"].todo # <<>> /\ Stack("main")' = Shared
         /\ \A p \in Stacks : \A t : Ahead(tasks'["main"], p, t)
         /\ \A a \in RollupActors : a # "main" => tasks'[a] = NoTask
         /\ \A a \in RollupActors : \A p, t, v : ~Passed(tasks'[a], p, t) /\ ~Dropping(tasks'[a], p, v)
         /\ \A a \in RollupActors : tasks'[a].at \in {"idle", "scan"}
         /\ tasks'["main"].force = FALSE
         /\ DOMAIN views' = DOMAIN views /\ views' = [v \in DOMAIN views' |-> views'[v]]
         /\ \A v \in DOMAIN views : views'[v] \in [fits : BOOLEAN, full : BOOLEAN]
         /\ known' = <<>> /\ ~uncertain' /\ ~failed' /\ uncertain' \in BOOLEAN /\ failed' \in BOOLEAN
         /\ UNCHANGED <<stale, complete, robbed, broken, rollupErrors>>
<1>1. InOrder(Stacks) \in Seq(Stacks) /\ ToSet(InOrder(Stacks)) = Stacks /\ InOrder(Stacks) # <<>>
      /\ Head(InOrder(Stacks)) = Shared
  BY InOrderOf, TiersIsMoreThanOne
<1>2. LET k == Startup
      IN /\ k \in RollupTask /\ WellTask(k) /\ k # NoTask /\ k.at = "scan" /\ k.todo = InOrder(Stacks) /\ k.force = FALSE
         /\ \A t : \A p \in Stacks : Ahead(k, p, t)
         /\ \A p, t, v : ~Passed(k, p, t) /\ ~Dropping(k, p, v)
  <2>1. "setup" \in RollupKinds /\ FALSE \in BOOLEAN /\ "setup" # "edit"
    BY DEF RollupKinds
  <2> QED
    BY <1>1, <2>1, SetupIs DEF Startup
<1>3. \A a \in RollupActors : tasks'[a] = IF a = "main" THEN Startup ELSE NoTask
  BY DEF RestartRollups, AtStart
<1>4. tasks' = AtStart /\ "main" \in RollupActors
  BY RollupsAssumption DEF RestartRollups
<1>5. TasksInv'
  <2>1. tasks' \in [RollupActors -> RollupTask]
    BY <1>2, <1>4, NoTaskIs DEF AtStart
  <2>2. \A a \in RollupActors : WellTask(tasks'[a])
    BY <1>2, <1>3, NoTaskIs
  <2> QED
    BY <2>1, <2>2 DEF TasksInv
<1>6. tasks'["main"] = Startup
  BY <1>3, <1>4
<1>7. Stack("main")' = Shared
  BY <1>1, <1>2, <1>6 DEF Stack
<1>8. /\ DOMAIN views' = DOMAIN views /\ views' = [v \in DOMAIN views' |-> views'[v]]
      /\ \A v \in DOMAIN views : views'[v] \in [fits : BOOLEAN, full : BOOLEAN]
  <2>1. views' = [v \in DOMAIN views |->
                    [fits |-> views[v].fits /\ ~drifted,
                     full |-> views[v].full /\ ~(grown /\ v.stack \in Wides)]]
    BY DEF RestartRollups
  <2>2. \A v \in DOMAIN views : (views[v].fits /\ ~drifted) \in BOOLEAN /\ (views[v].full /\ ~(grown /\ v.stack \in Wides)) \in BOOLEAN
    BY Zenon
  <2> QED
    BY <2>1, <2>2
<1>9. known' = <<>> /\ ~uncertain' /\ ~failed' /\ uncertain' \in BOOLEAN /\ failed' \in BOOLEAN
      /\ UNCHANGED <<stale, complete, robbed, broken, rollupErrors>>
  BY DEF RestartRollups
<1>10. \A a \in RollupActors : a # "main" => tasks'[a] = NoTask
  BY <1>3
<1>11. \A a \in RollupActors : tasks'[a] = Startup \/ tasks'[a] = NoTask
  BY <1>3
<1> QED
  BY <1>1, <1>2, <1>5, <1>6, <1>7, <1>8, <1>9, <1>10, <1>11, NoTaskIs, ZenonT(60)

LEMMA RepopulatedIs ==
  ASSUME RollupBase, Repopulate
  PROVE  /\ TasksInv' /\ OthersStay("main") /\ "main" \in RollupActors /\ tasks["main"].todo = <<>>
         /\ tasks'["main"] = NoTask /\ tasks["main"] # NoTask
         /\ ToSet(known') = Views /\ KnownInv' /\ SourcesFirst'
         /\ UNCHANGED <<views, stale, complete, robbed, broken, uncertain, failed, rollupErrors>>
<1>1. "main" \in RollupActors /\ tasks["main"].kind = "reconnect" /\ tasks["main"].todo = <<>> /\ InTask("main", NoTask)
  BY RollupsAssumption DEF Repopulate
<1>2. NoTask.kind = "none"
  BY DEF NoTask
<1>3. TasksInv' /\ tasks'["main"] = NoTask /\ OthersStay("main")
  BY <1>1, NoTaskIs, TaskChanges DEF RollupBase
<1>4. known' = FlattenSeq([i \in 1..(1 + Cardinality(Wides)) |-> [t \in 1..Tiers |-> ViewOf(InOrder(Stacks)[i], t)]])
  BY DEF Repopulate
<1> DEFINE r == FlattenSeq([i \in 1..(1 + Cardinality(Wides)) |-> [t \in 1..Tiers |-> ViewOf(InOrder(Stacks)[i], t)]])
<1>5. /\ r \in Seq(Views) /\ ToSet(r) = Views
      /\ \A i, j \in DOMAIN r : r[i] = r[j] => i = j
      /\ \A j \in DOMAIN r : ~FromRaw(r[j]) => \E i \in 1..(j - 1) : r[i] = SourceOf(r[j])
  BY AllListed
<1>6. known' = r
  BY <1>4
<1> HIDE DEF r
<1>7. KnownInv' /\ SourcesFirst' /\ ToSet(known') = Views
  BY <1>5, <1>6 DEF KnownInv, SourcesFirst
<1> QED
  BY <1>1, <1>2, <1>3, <1>7 DEF Repopulate, rollupHistory, rollupBounds

----------------------------------------------------------------------------
(* Types. *)

LEMMA RollupInitially == RollupInit => RollupInv
<1> SUFFICES ASSUME RollupInit PROVE RollupInv
  OBVIOUS
<1>1. /\ views = <<>> /\ stale = {} /\ known = <<>> /\ complete = {} /\ tasks = AtStart
      /\ robbed = {} /\ broken = {} /\ uncertain = FALSE /\ failed = FALSE /\ rollupErrors = 0
  BY DEF RollupInit
<1>2. InOrder(Stacks) \in Seq(Stacks) /\ ToSet(InOrder(Stacks)) = Stacks /\ InOrder(Stacks) # <<>>
  BY InOrderOf, TiersIsMoreThanOne
<1>3. LET k == Startup
      IN /\ k \in RollupTask /\ WellTask(k) /\ k # NoTask /\ k.at = "scan" /\ k.todo = InOrder(Stacks)
         /\ \A t : \A p \in Stacks : Ahead(k, p, t)
         /\ \A p, t, v : ~Passed(k, p, t) /\ ~Dropping(k, p, v)
  <2>1. "setup" \in RollupKinds /\ FALSE \in BOOLEAN /\ "setup" # "edit"
    BY DEF RollupKinds
  <2> QED
    BY <1>2, <2>1, SetupIs DEF Startup
<1>4. \A a \in RollupActors : tasks[a] = IF a = "main" THEN Startup ELSE NoTask
  BY <1>1 DEF AtStart
<1>5. "main" \in RollupActors /\ tasks["main"] = Startup
  BY <1>4, RollupsAssumption
<1>6. TasksInv
  <2>1. tasks \in [RollupActors -> RollupTask]
    BY <1>1, <1>3, NoTaskIs DEF AtStart
  <2>2. \A a \in RollupActors : WellTask(tasks[a])
    BY <1>3, <1>4, NoTaskIs
  <2> QED
    BY <2>1, <2>2 DEF TasksInv
<1>7. DOMAIN views = {} /\ views = [v \in DOMAIN views |-> views[v]]
  BY <1>1
<1>8. StoredInv
  BY <1>1, <1>7 DEF StoredInv
<1>9. KnownInv /\ SourcesFirst /\ ToSet(known) = {} /\ DOMAIN known = {}
  BY <1>1 DEF KnownInv, SourcesFirst, ToSet
<1>10. \A a \in RollupActors : tasks[a].at \in {"idle", "scan"}
  BY <1>3, <1>4, NoTaskIs
<1>11. OneTask
  BY <1>4 DEF OneTask
<1>12. \A a \in RollupActors : \A p, t, v : ~Passed(tasks[a], p, t) /\ ~Dropping(tasks[a], p, v)
  BY <1>3, <1>4, NoTaskIs
<1>13. BuiltInv /\ LackingInv
  BY <1>1, <1>12 DEF BuiltInv, LackingInv
<1>14. PurgeInv /\ PassInv /\ ListInv
  BY <1>7, <1>10 DEF PurgeInv, PassInv, ListInv
<1>15. WholeInv /\ GapInv /\ FitInv /\ TornInv
  BY <1>7, <1>10 DEF WholeInv, GapInv, FitInv, TornInv
<1> QED
  BY <1>6, <1>8, <1>9, <1>11, <1>13, <1>14, <1>15 DEF RollupInv, RollupBase

NoSetupStep == RefreshPass \/ RefreshPassFails \/ NewReadings
SomeTaskBegins == \E a \in RollupActors : \E k : Begun(k) /\ Begins(a, k)

LEMMA RollupSteps ==
  ASSUME RollupBase, RollupNext
  PROVE  \/ \E a \in RollupActors : \/ ScanViews(a) \/ DropView(a) \/ Purged(a) \/ ColumnsDeleted(a)
                                    \/ CreateView(a) \/ Finish(a) \/ SetupStumbles(a)
         \/ Repopulate \/ SomeTaskBegins \/ NoSetupStep
         \/ \E drifted \in BOOLEAN, grown \in BOOLEAN : RestartRollups(drifted, grown)
<1>1. CASE "web" \in RollupActors /\ \E S \in SUBSET Stacks, force \in BOOLEAN : Rebuild(S, force)
  BY <1>1, WhatBegins DEF Rebuild, SomeTaskBegins
<1>2. CASE "web" \in RollupActors /\ \E p \in Wides : DeleteColumns(p)
  BY <1>2, WhatBegins DEF DeleteColumns, SomeTaskBegins
<1>3. CASE "retune" \in RollupActors /\ \E s \in Stacks : Retune(s)
  BY <1>3, WhatBegins DEF Retune, SomeTaskBegins
<1>4. CASE RollupReconnect
  BY <1>4, WhatBegins, RollupsAssumption DEF RollupReconnect, SomeTaskBegins
<1> QED
  BY <1>1, <1>2, <1>3, <1>4, Zenon DEF RollupNext, SetupStep, NoSetupStep

LEMMA NoSetupStepIs ==
  ASSUME RollupBase, NoSetupStep
  PROVE  /\ UNCHANGED <<views, known, complete, tasks, robbed, broken, uncertain, failed>>
         /\ stale' \subseteq DOMAIN views
         /\ rollupErrors' = rollupErrors \/ rollupErrors' = rollupErrors + 1
<1>1. stale \subseteq DOMAIN views /\ known \in Seq(Views)
  BY DEF RollupBase, StoredInv, KnownInv
<1>2. CASE RefreshPass
  <2>1. stale' \subseteq stale
    BY <1>1, <1>2, RefreshedIsLess DEF RefreshPass
  <2> QED
    BY <1>1, <1>2, <2>1 DEF RefreshPass, rollupHistory, rollupBounds
<1>3. CASE RefreshPassFails
  <2>1. PICK done \in 0..Len(known) : stale' = Refreshed(SubSeq(known, 1, done))
    BY <1>3 DEF RefreshPassFails
  <2>2. SubSeq(known, 1, done) \in Seq(Views)
    BY <1>1, SubSeqProperties
  <2>3. stale' \subseteq stale
    BY <2>1, <2>2, RefreshedIsLess
  <2> QED
    BY <1>1, <1>3, <2>3 DEF RefreshPassFails, rollupHistory, rollupBounds
<1>4. CASE NewReadings
  BY <1>4 DEF NewReadings, rollupHistory, rollupBounds
<1> QED
  BY <1>2, <1>3, <1>4 DEF NoSetupStep

LEMMA BaseStep ==
  ASSUME RollupBase, [RollupNext]_rollupVars
  PROVE  RollupBase'
<1>0. TasksInv /\ StoredInv /\ KnownInv
  BY DEF RollupBase
<1>s. /\ DOMAIN views \subseteq Views /\ stale \subseteq DOMAIN views
      /\ views = [v \in DOMAIN views |-> views[v]]
      /\ \A v \in DOMAIN views : views[v] \in [fits : BOOLEAN, full : BOOLEAN]
      /\ complete \subseteq Wides /\ robbed \subseteq Wides /\ broken \subseteq Stacks
      /\ uncertain \in BOOLEAN /\ failed \in BOOLEAN /\ rollupErrors \in Nat
  BY <1>0 DEF StoredInv
<1>1. CASE UNCHANGED rollupVars
  <2>1. UNCHANGED <<views, stale, known, complete, tasks, robbed, broken, uncertain, failed, rollupErrors>>
    BY <1>1 DEF rollupVars, rollupHistory, rollupBounds
  <2> QED
    BY <1>0, <2>1 DEF RollupBase, TasksInv, StoredInv, KnownInv
<1>2. ASSUME NEW a \in RollupActors, ScanViews(a) PROVE RollupBase'
  <2>1. UNCHANGED <<views, stale, known, complete, robbed, broken, uncertain, failed, rollupErrors>>
    BY <1>2 DEF ScanViews, rollupHistory, rollupBounds
  <2>2. TasksInv'
    BY <1>2, StackScanned
  <2> QED
    BY <1>0, <2>1, <2>2 DEF RollupBase, StoredInv, KnownInv
<1>3. ASSUME NEW a \in RollupActors, DropView(a) PROVE RollupBase'
  <2> DEFINE v == Head(tasks[a].left)
  <2>1. /\ TasksInv' /\ v \in Views /\ uncertain' = uncertain /\ rollupErrors' = rollupErrors
        /\ tasks[a].todo # <<>>
        /\ robbed' = robbed \cup ({v.stack} \cap (Wides \ {Stack(a)}))
        /\ \/ v \in DOMAIN views /\ Gone(Fallen(v))
                   /\ known' = IF Stack(a) = Shared THEN known ELSE Without(known, v)
           \/ v \notin DOMAIN views /\ UNCHANGED <<views, stale, known>>
        /\ Raises(a) \/ UNCHANGED <<complete, broken, failed>>
    BY <1>3, DroppedIs
  <2> HIDE DEF v
  <2>2. failed' \in BOOLEAN
    <3>1. CASE Raises(a)
      BY <3>1 DEF Raises
    <3>2. CASE UNCHANGED <<complete, broken, failed>>
      BY <1>s, <3>2
    <3> QED
      BY <2>1, <3>1, <3>2
  <2>3. complete' = complete /\ broken' \subseteq Stacks
    <3>1. CASE Raises(a)
      BY <2>1, <3>1, RaisedIs
    <3> QED
      BY <1>s, <2>1, <3>1
  <2>4. robbed' \subseteq Wides
    BY <1>s, <2>1
  <2>5. /\ DOMAIN views' \subseteq Views /\ stale' \subseteq DOMAIN views'
        /\ views' = [w \in DOMAIN views' |-> views'[w]]
        /\ \A w \in DOMAIN views' : views'[w] \in [fits : BOOLEAN, full : BOOLEAN]
    <3>1. CASE Gone(Fallen(v))
      <4> DEFINE E == DOMAIN views \ Fallen(v)
      <4>1. views' = [w \in E |-> views[w]] /\ stale' = stale \ Fallen(v)
        BY <3>1 DEF Gone
      <4>2. DOMAIN views' = E /\ \A w \in E : views'[w] = views[w]
        BY <4>1
      <4>3. views' = [w \in E |-> views'[w]]
        BY <4>1, <4>2
      <4>4. views' = [w \in DOMAIN views' |-> views'[w]]
        BY <4>2, <4>3
      <4> QED
        BY <1>s, <4>1, <4>2, <4>4
    <3> QED
      BY <1>s, <2>1, <3>1
  <2>6. KnownInv'
    <3>1. CASE known' = known
      BY <1>0, <3>1 DEF KnownInv
    <3>2. CASE known' = Without(known, v)
      BY <1>0, <3>2, WithoutOne DEF KnownInv
    <3> QED
      BY <2>1, <3>1, <3>2
  <2>7. uncertain' \in BOOLEAN /\ rollupErrors' \in Nat /\ complete' \subseteq Wides
    BY <1>s, <2>1, <2>3
  <2> QED
    BY <2>1, <2>2, <2>3, <2>4, <2>5, <2>6, <2>7 DEF RollupBase, StoredInv
<1>4. ASSUME NEW a \in RollupActors, Purged(a) PROVE RollupBase'
  <2>1. UNCHANGED <<views, stale, complete, robbed, broken, uncertain, failed, rollupErrors>>
        /\ (known' = known \/ known' = <<>>)
    BY <1>4 DEF Purged, rollupHistory, rollupBounds
  <2>2. TasksInv'
    BY <1>4, PurgeEnds
  <2>3. KnownInv'
    <3>1. CASE known' = known
      BY <1>0, <3>1 DEF KnownInv
    <3>2. CASE known' = <<>>
      BY <3>2 DEF KnownInv
    <3> QED
      BY <2>1, <3>1, <3>2
  <2> QED
    BY <1>0, <2>1, <2>2, <2>3 DEF RollupBase, StoredInv
<1>5. ASSUME NEW a \in RollupActors, ColumnsDeleted(a) PROVE RollupBase'
  <2>1. UNCHANGED <<views, stale, known, robbed, broken, uncertain, failed, rollupErrors>> /\ complete' \subseteq complete
    BY <1>5 DEF ColumnsDeleted, rollupHistory, rollupBounds
  <2>2. TasksInv'
    BY <1>5, SetupFollows
  <2>3. complete' \subseteq Wides
    BY <1>s, <2>1
  <2> QED
    BY <1>0, <2>1, <2>2, <2>3 DEF RollupBase, StoredInv, KnownInv
<1>6. ASSUME NEW a \in RollupActors, CreateView(a) PROVE RollupBase'
  <2> DEFINE v == ViewOf(Stack(a), tasks[a].tier)
  <2>1. /\ TasksInv' /\ v \in Views /\ uncertain' = uncertain /\ rollupErrors' = rollupErrors /\ robbed' = robbed
        /\ tasks[a].todo # <<>> /\ views' = [w \in DOMAIN views' |-> views'[w]]
        /\ \/ Created(a, v) /\ (stale' = stale \/ stale' = stale \cup {v})
           \/ Raises(a) /\ UNCHANGED <<views, stale, known>>
    BY <1>6, CreatedIs
  <2> HIDE DEF v
  <2>2. CASE Created(a, v) /\ (stale' = stale \/ stale' = stale \cup {v})
    <3>1. /\ DOMAIN views' = DOMAIN views \cup {v}
          /\ \A w \in DOMAIN views : views'[w] = views[w]
          /\ v \notin DOMAIN views => views'[v] = [fits |-> TRUE, full |-> TRUE]
          /\ known' = Listed(v)
          /\ UNCHANGED <<complete, broken, failed>>
      BY <2>2 DEF Created
    <3>2. \A w \in DOMAIN views' : views'[w] \in [fits : BOOLEAN, full : BOOLEAN]
      <4>1. [fits |-> TRUE, full |-> TRUE] \in [fits : BOOLEAN, full : BOOLEAN]
        OBVIOUS
      <4>2. v \notin DOMAIN views => views'[v] \in [fits : BOOLEAN, full : BOOLEAN]
        BY <3>1, <4>1
      <4>3. \A w \in DOMAIN views : views'[w] \in [fits : BOOLEAN, full : BOOLEAN]
        BY <1>s, <3>1
      <4> QED
        BY <3>1, <4>2, <4>3
    <3>3. DOMAIN views' \subseteq Views /\ stale' \subseteq DOMAIN views'
      BY <1>s, <2>1, <2>2, <3>1
    <3>4. KnownInv'
      BY <1>0, <2>1, <3>1, ListedOne DEF KnownInv
    <3> QED
      BY <1>s, <2>1, <3>1, <3>2, <3>3, <3>4 DEF RollupBase, StoredInv
  <2>3. CASE Raises(a) /\ UNCHANGED <<views, stale, known>>
    <3>1. failed' \in BOOLEAN
      BY <2>3 DEF Raises
    <3>2. complete' = complete /\ broken' \subseteq Stacks
      BY <2>1, <2>3, RaisedIs
    <3> QED
      BY <1>0, <1>s, <2>1, <2>3, <3>1, <3>2 DEF RollupBase, StoredInv, KnownInv
  <2> QED
    BY <2>1, <2>2, <2>3
<1>7. ASSUME NEW a \in RollupActors, Finish(a) PROVE RollupBase'
  <2>1. /\ TasksInv' /\ complete' = complete \cup ({Stack(a)} \cap Wides)
        /\ stale' \subseteq stale /\ broken' = broken \ {Stack(a)}
        /\ robbed' = IF Missing(Stack(a)) = {} THEN robbed \ {Stack(a)} ELSE robbed
        /\ UNCHANGED <<views, known, uncertain, failed, rollupErrors>>
    BY <1>7, FinishedIs
  <2>2. complete' \subseteq Wides /\ stale' \subseteq DOMAIN views /\ broken' \subseteq Stacks /\ robbed' \subseteq Wides
    BY <1>s, <2>1
  <2> QED
    BY <1>0, <2>1, <2>2 DEF RollupBase, StoredInv, KnownInv
<1>8. ASSUME NEW a \in RollupActors, SetupStumbles(a) PROVE RollupBase'
  <2>1. /\ tasks[a].todo # <<>> /\ TasksInv' /\ rollupErrors' = rollupErrors + 1
        /\ UNCHANGED <<views, stale, known, robbed, uncertain>>
        /\ Raises(a) \/ UNCHANGED <<complete, broken, failed>>
    BY <1>8, StumbledIs
  <2>2. failed' \in BOOLEAN
    <3>1. CASE Raises(a)
      BY <3>1 DEF Raises
    <3>2. CASE UNCHANGED <<complete, broken, failed>>
      BY <1>s, <3>2
    <3> QED
      BY <2>1, <3>1, <3>2
  <2>3. complete' = complete /\ broken' \subseteq Stacks
    <3>1. CASE Raises(a)
      BY <2>1, <3>1, RaisedIs
    <3> QED
      BY <1>s, <2>1, <3>1
  <2>4. rollupErrors' \in Nat
    BY <1>s, <2>1
  <2> QED
    BY <1>0, <2>1, <2>2, <2>3, <2>4 DEF RollupBase, StoredInv, KnownInv
<1>9. CASE Repopulate
  BY <1>0, <1>9, RepopulatedIs DEF RollupBase, StoredInv
<1>10. CASE SomeTaskBegins
  <2>0. PICK a \in RollupActors : \E k : Begun(k) /\ Begins(a, k)
    BY <1>10 DEF SomeTaskBegins
  <2>1. PICK k : Begun(k) /\ Begins(a, k)
    BY <2>0
  <2>2. TasksInv'
    BY <2>1, TaskBegins DEF Begun
  <2>3. UNCHANGED <<views, stale, known, complete, robbed, broken, failed, rollupErrors>>
    BY <2>1 DEF Begins
  <2>4. uncertain' \in BOOLEAN
    BY <2>1, Zenon DEF Begins
  <2> QED
    BY <1>0, <2>2, <2>3, <2>4 DEF RollupBase, StoredInv, KnownInv
<1>11. CASE NoSetupStep
  <2>1. /\ UNCHANGED <<views, known, complete, tasks, robbed, broken, uncertain, failed>>
        /\ stale' \subseteq DOMAIN views /\ rollupErrors' \in Nat
    BY <1>s, <1>11, NoSetupStepIs
  <2> QED
    BY <1>0, <2>1 DEF RollupBase, TasksInv, StoredInv, KnownInv
<1>12. ASSUME NEW drifted \in BOOLEAN, NEW grown \in BOOLEAN, RestartRollups(drifted, grown) PROVE RollupBase'
  <2>1. /\ TasksInv' /\ DOMAIN views' = DOMAIN views /\ views' = [v \in DOMAIN views' |-> views'[v]]
        /\ \A v \in DOMAIN views : views'[v] \in [fits : BOOLEAN, full : BOOLEAN]
        /\ known' = <<>> /\ uncertain' \in BOOLEAN /\ failed' \in BOOLEAN
        /\ UNCHANGED <<stale, complete, robbed, broken, rollupErrors>>
    BY <1>12, RestartedIs
  <2>2. KnownInv'
    BY <2>1 DEF KnownInv
  <2> QED
    BY <1>0, <2>1, <2>2 DEF RollupBase, StoredInv
<1> QED
  BY <1>1, <1>2, <1>3, <1>4, <1>5, <1>6, <1>7, <1>8, <1>9, <1>10, <1>11, <1>12, RollupSteps

----------------------------------------------------------------------------
(* What is still to come. *)

SomeAhead(p, t) == \E b \in RollupActors : Ahead(tasks[b], p, t)
SomePassed(p, t) == \E b \in RollupActors : Passed(tasks[b], p, t)

\* A step that keeps the whole stack before the task.
Onward(a) ==
    /\ a \in RollupActors /\ OthersStay(a)
    /\ tasks'[a].todo = tasks[a].todo /\ tasks[a].todo # <<>>
    /\ tasks'[a].at \in {"scan", "drop"} \/ (tasks'[a].at = "create" /\ tasks'[a].tier = 1)

LEMMA OnwardKeeps ==
  ASSUME NEW a, Onward(a), NEW p, NEW t \in 1..Tiers
  PROVE  /\ SomeAhead(p, t) => SomeAhead(p, t)'
         /\ SomePassed(p, t)' => SomePassed(p, t)
         /\ p = Stack(a) => SomeAhead(p, t)'
         /\ ~Passed(tasks'[a], p, t)
<1>0. t \in Int /\ 1 <= t
  BY TiersIsMoreThanOne
<1>1. ~Passed(tasks'[a], p, t)
  BY <1>0 DEF Onward, Passed
<1>2. Ahead(tasks[a], p, t) \/ p = Stack(a) => Ahead(tasks'[a], p, t)
  BY <1>0 DEF Onward, Ahead, Stack
<1>3. \A b \in RollupActors : b # a => tasks'[b] = tasks[b]
  BY DEF Onward, OthersStay
<1>4. SomeAhead(p, t) => SomeAhead(p, t)'
  BY <1>2, <1>3 DEF SomeAhead, Onward
<1>5. SomePassed(p, t)' => SomePassed(p, t)
  BY <1>1, <1>3 DEF SomePassed, Onward
<1>6. p = Stack(a) => SomeAhead(p, t)'
  BY <1>2 DEF SomeAhead, Onward
<1> QED
  BY <1>1, <1>4, <1>5, <1>6

\* A step to the next stack.
ToNext(a) ==
    /\ a \in RollupActors /\ OthersStay(a) /\ tasks[a].todo # <<>>
    /\ \A p, t : Ahead(tasks'[a], p, t) <=> p \in ToSet(Tail(tasks[a].todo))
    /\ \A p, t, v : ~Passed(tasks'[a], p, t) /\ ~Dropping(tasks'[a], p, v)

LEMMA ToNextKeeps ==
  ASSUME NEW a, ToNext(a), NEW p, NEW t \in 1..Tiers
  PROVE  /\ SomeAhead(p, t) /\ p # Stack(a) => SomeAhead(p, t)'
         /\ SomePassed(p, t)' => SomePassed(p, t) /\ \E b \in RollupActors : b # a /\ Passed(tasks[b], p, t)
         /\ \A b \in RollupActors : b # a /\ Ahead(tasks[b], p, t) => SomeAhead(p, t)'
         /\ p \in ToSet(Tail(tasks[a].todo)) => SomeAhead(p, t)'
<1>1. \A b \in RollupActors : b # a => tasks'[b] = tasks[b]
  BY DEF ToNext, OthersStay
<1>2. Ahead(tasks[a], p, t) /\ p # Stack(a) => Ahead(tasks'[a], p, t)
  BY DEF ToNext, Ahead, Stack
<1>3. a \in RollupActors /\ ~Passed(tasks'[a], p, t) /\ (p \in ToSet(Tail(tasks[a].todo)) => Ahead(tasks'[a], p, t))
  BY DEF ToNext
<1> QED
  BY <1>1, <1>2, <1>3 DEF SomeAhead, SomePassed

LEMMA BuiltSays ==
  BuiltInv <=> \A p \in Wides \ robbed : \A t \in 1..Tiers :
                 ViewOf(p, t) \notin DOMAIN views /\ (SomePassed(p, t) \/ p \in complete \ broken) => SomeAhead(p, t)
  BY DEF BuiltInv, Absent, SomePassed, SomeAhead

\* Nothing is lost on the way.
LEMMA BuiltOnward ==
  ASSUME BuiltInv, NEW a, Onward(a), robbed \subseteq robbed',
         complete' \ broken' \subseteq complete \ broken,
         \A p \in Wides \ robbed' : \A t \in 1..Tiers : p # Stack(a) =>
            (ViewOf(p, t) \notin DOMAIN views' => ViewOf(p, t) \notin DOMAIN views)
  PROVE  BuiltInv'
<1> SUFFICES ASSUME NEW p \in Wides \ robbed', NEW t \in 1..Tiers, ViewOf(p, t) \notin DOMAIN views',
                    SomePassed(p, t)' \/ p \in complete' \ broken'
             PROVE  SomeAhead(p, t)'
  BY DEF BuiltInv, Absent, SomePassed, SomeAhead
<1>1. CASE p = Stack(a)
  BY <1>1, OnwardKeeps
<1>2. CASE p # Stack(a)
  <2>1. p \in Wides \ robbed /\ ViewOf(p, t) \notin DOMAIN views
    BY <1>2
  <2>2. SomePassed(p, t) \/ p \in complete \ broken
    BY OnwardKeeps
  <2>3. SomeAhead(p, t)
    BY <2>1, <2>2, BuiltSays
  <2> QED
    BY <2>3, OnwardKeeps
<1> QED
  BY <1>1, <1>2

\* A stack that is left behind has to be seen to; the others lose nothing.
LEMMA BuiltToNext ==
  ASSUME BuiltInv, NEW a, ToNext(a), NEW s, s = Stack(a),
         robbed \subseteq robbed' \cup {s}, complete' \subseteq complete \cup {s},
         broken \subseteq broken' \cup {s}, DOMAIN views' = DOMAIN views,
         \A t \in 1..Tiers : s \in Wides \ robbed' /\ ViewOf(s, t) \notin DOMAIN views
            /\ ((\E b \in RollupActors : b # a /\ Passed(tasks[b], s, t)) \/ s \in complete' \ broken')
            => SomeAhead(s, t)'
  PROVE  BuiltInv'
<1> SUFFICES ASSUME NEW p \in Wides \ robbed', NEW t \in 1..Tiers, ViewOf(p, t) \notin DOMAIN views',
                    SomePassed(p, t)' \/ p \in complete' \ broken'
             PROVE  SomeAhead(p, t)'
  BY DEF BuiltInv, Absent, SomePassed, SomeAhead
<1>1. CASE p = s
  <2>1. SomePassed(p, t)' => \E b \in RollupActors : b # a /\ Passed(tasks[b], p, t)
    BY ToNextKeeps
  <2>2. ViewOf(p, t) \notin DOMAIN views
    OBVIOUS
  <2> QED
    BY <1>1, <2>1, <2>2
<1>2. CASE p # s
  <2>1. p \in Wides \ robbed /\ ViewOf(p, t) \notin DOMAIN views
    BY <1>2
  <2>2. SomePassed(p, t) \/ p \in complete \ broken
    BY <1>2, ToNextKeeps
  <2>3. SomeAhead(p, t)
    BY <2>1, <2>2, BuiltSays
  <2> QED
    BY <1>2, <2>3, ToNextKeeps
<1> QED
  BY <1>1, <1>2

LEMMA RaisedGoesToNext ==
  ASSUME RollupBase, NEW a \in RollupActors, tasks[a].todo # <<>>, Raises(a)
  PROVE  ToNext(a) /\ broken' = broken \cup {Stack(a)} /\ complete' = complete
  BY RaisedIs DEF ToNext

\* A view that cannot be created: someone else is about to set the stack up.
LEMMA OtherIsAhead ==
  ASSUME RollupBase, BuiltInv, LackingInv, NEW a \in RollupActors, NEW p \in Wides \ robbed,
         tasks[a].at = "create", Stack(a) = p, tasks[a].todo # <<>>, tasks[a].tier \in 1..Tiers,
         ~Creatable(ViewOf(p, tasks[a].tier)),
         NEW t \in 1..Tiers, ViewOf(p, t) \notin DOMAIN views,
         NEW z \in RollupActors, Passed(tasks[z], p, t)
  PROVE  \/ p \in ToSet(Tail(tasks[a].todo))
         \/ \E b \in RollupActors : b # a /\ Ahead(tasks[b], p, t)
<1> DEFINE n == tasks[a].tier
           i == n - 1
<1>0. p \in Stacks /\ ViewOf(p, n) \in Views /\ n \in Int /\ t \in Int /\ Tiers \in Int
  BY TiersIsMoreThanOne, ViewOfFields
<1>1. ~FromRaw(ViewOf(p, n)) /\ i \in 1..Tiers /\ SourceOf(ViewOf(p, n)) = ViewOf(p, i)
  BY <1>0, ViewOfFields DEF Creatable, SourceOf
<1>2. ViewOf(p, i) \notin DOMAIN views \/ ~views[ViewOf(p, i)].full
  BY <1>1 DEF Creatable
<1>3. ASSUME NEW j \in 1..Tiers, j < n, ViewOf(p, j) \notin DOMAIN views
      PROVE  \/ p \in ToSet(Tail(tasks[a].todo))
             \/ \E b \in RollupActors : b # a /\ Ahead(tasks[b], p, j)
  <2>1. Passed(tasks[a], p, j)
    BY <1>3 DEF Passed, Stack
  <2>2. PICK b \in RollupActors : Ahead(tasks[b], p, j)
    BY <1>3, <2>1, BuiltSays DEF SomePassed, SomeAhead
  <2>3. Ahead(tasks[a], p, j) => p \in ToSet(Tail(tasks[a].todo))
    BY <1>0, <1>3 DEF Ahead
  <2> QED
    BY <2>2, <2>3
<1>4. CASE t < n
  BY <1>3, <1>4
<1>5. CASE ~(t < n) /\ ViewOf(p, i) \notin DOMAIN views
  <2>1. \/ p \in ToSet(Tail(tasks[a].todo))
        \/ \E b \in RollupActors : b # a /\ Ahead(tasks[b], p, i)
    BY <1>0, <1>1, <1>3, <1>5
  <2>2. ASSUME NEW b \in RollupActors, Ahead(tasks[b], p, i) PROVE Ahead(tasks[b], p, t)
    <3>1. tasks[b].tier \in Int
      BY <1>0, TaskFields DEF RollupBase
    <3>2. tasks[b].tier <= i => tasks[b].tier <= t
      BY <1>0, <1>5, <3>1
    <3> HIDE DEF i
    <3> QED
      BY <2>2, <3>2 DEF Ahead
  <2> QED
    BY <2>1, <2>2
<1>6. CASE ~(t < n) /\ ViewOf(p, i) \in DOMAIN views
  <2>1. i < t /\ ~views[ViewOf(p, i)].full
    BY <1>0, <1>2, <1>6
  <2>2. PICK b \in RollupActors : Dropping(tasks[b], p, ViewOf(p, i))
    BY <1>1, <1>6, <2>1 DEF LackingInv, Absent
  <2>3. tasks[b].at = "drop" /\ p = Head(tasks[b].todo) /\ tasks[b].todo # <<>>
    BY <2>2, TaskFields DEF Dropping, RollupBase
  <2>4. b # a /\ Ahead(tasks[b], p, t)
    BY <2>3 DEF Ahead
  <2> QED
    BY <2>4
<1> QED
  BY <1>4, <1>5, <1>6

\* What the guards of the invariant say of the state before a step.
Restarts == \E drifted \in BOOLEAN, grown \in BOOLEAN : RestartRollups(drifted, grown)
Careful == ~(uncertain /\ rollupErrors > 0)
Continues == (uncertain => uncertain') /\ (failed => failed') /\ (Careful' => Careful)

LEMMA StepContinues ==
  ASSUME RollupBase, RollupNext
  PROVE  Restarts \/ Continues
<1>0. rollupErrors \in Nat
  BY DEF RollupBase, StoredInv
<1>1. ASSUME NEW a \in RollupActors, ScanViews(a) \/ Purged(a) \/ ColumnsDeleted(a)
      PROVE  uncertain' = uncertain /\ failed' = failed /\ rollupErrors' = rollupErrors
  BY <1>1 DEF ScanViews, Purged, ColumnsDeleted, rollupHistory, rollupBounds
<1>2. ASSUME NEW a \in RollupActors, DropView(a)
      PROVE  uncertain' = uncertain /\ (failed' = failed \/ failed') /\ rollupErrors' = rollupErrors
  <2>1. tasks[a].todo # <<>> /\ uncertain' = uncertain /\ rollupErrors' = rollupErrors /\ (Raises(a) \/ failed' = failed)
    BY <1>2, DroppedIs
  <2>2. Raises(a) => failed'
    BY <2>1, RaisedIs
  <2> QED
    BY <2>1, <2>2
<1>3. ASSUME NEW a \in RollupActors, CreateView(a)
      PROVE  uncertain' = uncertain /\ (failed' = failed \/ failed') /\ rollupErrors' = rollupErrors
  <2>1. tasks[a].todo # <<>> /\ uncertain' = uncertain /\ rollupErrors' = rollupErrors /\ (Raises(a) \/ failed' = failed)
    BY <1>3, CreatedIs DEF Created
  <2>2. Raises(a) => failed'
    BY <2>1, RaisedIs
  <2> QED
    BY <2>1, <2>2
<1>4. ASSUME NEW a \in RollupActors, Finish(a)
      PROVE  uncertain' = uncertain /\ failed' = failed /\ rollupErrors' = rollupErrors
  BY <1>4, FinishedIs
<1>5. ASSUME NEW a \in RollupActors, SetupStumbles(a)
      PROVE  uncertain' = uncertain /\ (failed' = failed \/ failed') /\ rollupErrors' = rollupErrors + 1
  <2>1. tasks[a].todo # <<>> /\ uncertain' = uncertain /\ rollupErrors' = rollupErrors + 1 /\ (Raises(a) \/ failed' = failed)
    BY <1>5, StumbledIs
  <2>2. Raises(a) => failed'
    BY <2>1, RaisedIs
  <2> QED
    BY <2>1, <2>2
<1>6. ASSUME Repopulate PROVE uncertain' = uncertain /\ failed' = failed /\ rollupErrors' = rollupErrors
  BY <1>6, RepopulatedIs
<1>7. ASSUME SomeTaskBegins PROVE (uncertain => uncertain') /\ failed' = failed /\ rollupErrors' = rollupErrors
  <2>1. PICK a \in RollupActors : \E k : Begun(k) /\ Begins(a, k)
    BY <1>7 DEF SomeTaskBegins
  <2>2. PICK k : Begun(k) /\ Begins(a, k)
    BY <2>1
  <2>3. failed' = failed /\ rollupErrors' = rollupErrors
    BY <2>2 DEF Begins
  <2>4. uncertain => uncertain'
    BY <2>2, Zenon DEF Begins
  <2> QED
    BY <2>3, <2>4
<1>8. ASSUME NoSetupStep
      PROVE  uncertain' = uncertain /\ failed' = failed /\ (rollupErrors' = rollupErrors \/ rollupErrors' = rollupErrors + 1)
  BY <1>8, NoSetupStepIs
<1>9. \/ Restarts
      \/ /\ uncertain => uncertain'
         /\ failed => failed'
         /\ rollupErrors' = rollupErrors \/ rollupErrors' = rollupErrors + 1
  <2>1. ASSUME NEW a \in RollupActors, \/ ScanViews(a) \/ DropView(a) \/ Purged(a) \/ ColumnsDeleted(a)
                                       \/ CreateView(a) \/ Finish(a) \/ SetupStumbles(a)
        PROVE  /\ uncertain => uncertain'
               /\ failed => failed'
               /\ rollupErrors' = rollupErrors \/ rollupErrors' = rollupErrors + 1
    <3>1. CASE ScanViews(a) \/ Purged(a) \/ ColumnsDeleted(a)
      BY <1>1, <3>1
    <3> QED
      BY <2>1, <3>1, <1>2, <1>3, <1>4, <1>5
  <2> QED
    BY <2>1, <1>6, <1>7, <1>8, RollupSteps DEF Restarts
<1>10. rollupErrors' = rollupErrors \/ rollupErrors' = rollupErrors + 1 => (rollupErrors > 0 => rollupErrors' > 0)
  BY <1>0
<1> QED
  BY <1>9, <1>10 DEF Continues, Careful

\* The steps of a set-up, one by one.
LEMMA ScanKeepsBuilt ==
  ASSUME RollupBase, BuiltInv, NEW a \in RollupActors, ScanViews(a) \/ Purged(a) \/ ColumnsDeleted(a)
  PROVE  BuiltInv'
<1>1. /\ OthersStay(a) /\ tasks'[a].todo = tasks[a].todo /\ tasks[a].todo # <<>>
      /\ tasks'[a].at \in {"scan", "drop"} \/ (tasks'[a].at = "create" /\ tasks'[a].tier = 1)
  <2>1. CASE ScanViews(a)
    BY <2>1, StackScanned
  <2>2. CASE Purged(a)
    BY <2>2, PurgeEnds
  <2>3. CASE ColumnsDeleted(a)
    BY <2>3, SetupFollows
  <2> QED
    BY <2>1, <2>2, <2>3
<1>2. Onward(a)
  BY <1>1 DEF Onward
<1>3. views' = views /\ robbed' = robbed /\ broken' = broken /\ complete' \subseteq complete
  BY DEF ScanViews, Purged, ColumnsDeleted, rollupHistory
<1> QED
  BY <1>2, <1>3, BuiltOnward

LEMMA DropKeepsBuilt ==
  ASSUME RollupBase, BuiltInv, NEW a \in RollupActors, DropView(a)
  PROVE  BuiltInv'
<1> DEFINE v == Head(tasks[a].left)
<1>1. /\ tasks[a].todo # <<>> /\ v \in Views /\ OthersStay(a)
      /\ robbed' = robbed \cup ({v.stack} \cap (Wides \ {Stack(a)}))
      /\ (v \in DOMAIN views /\ Gone(Fallen(v))) \/ (v \notin DOMAIN views /\ views' = views)
      /\ \/ v \notin DOMAIN views /\ Stack(a) = Shared /\ Raises(a)
         \/ /\ tasks'[a].at = "drop" /\ tasks'[a].todo = tasks[a].todo
            /\ complete' = complete /\ broken' = broken
  BY DroppedIs
<1> HIDE DEF v
<1>2. CASE v \notin DOMAIN views /\ Stack(a) = Shared /\ Raises(a)
  <2>1. ToNext(a) /\ broken' = broken \cup {Stack(a)} /\ complete' = complete
    BY <1>1, <1>2, RaisedGoesToNext
  <2>2. DOMAIN views' = DOMAIN views /\ robbed \subseteq robbed' /\ Shared \notin Wides
    BY <1>1, <1>2, TiersIsMoreThanOne
  <2> QED
    BY <1>2, <2>1, <2>2, BuiltToNext
<1>3. CASE /\ tasks'[a].at = "drop" /\ tasks'[a].todo = tasks[a].todo
           /\ complete' = complete /\ broken' = broken
  <2>1. Onward(a)
    BY <1>1, <1>3 DEF Onward
  <2>2. ASSUME NEW p \in Wides \ robbed', NEW t \in 1..Tiers, p # Stack(a), ViewOf(p, t) \in DOMAIN views
        PROVE  ViewOf(p, t) \in DOMAIN views'
    <3>1. p # v.stack
      BY <1>1, <2>2
    <3>2. ViewOf(p, t) \notin Fallen(v)
      BY <3>1, ViewOfFields DEF Fallen, OnTopOf
    <3> QED
      BY <1>1, <2>2, <3>2 DEF Gone
  <2> QED
    BY <1>1, <1>3, <2>1, <2>2, BuiltOnward
<1> QED
  BY <1>1, <1>2, <1>3

LEMMA CreationKeepsBuilt ==
  ASSUME RollupBase, BuiltInv, LackingInv, NEW a \in RollupActors, CreateView(a)
  PROVE  BuiltInv'
<1> DEFINE n == tasks[a].tier
           v == ViewOf(Stack(a), n)
<1>1. /\ tasks[a].at = "create" /\ tasks[a].todo # <<>> /\ n \in 1..Tiers /\ v \in Views /\ OthersStay(a) /\ robbed' = robbed
      /\ \/ /\ Created(a, v) /\ tasks'[a].at = "create" /\ tasks'[a].tier = n + 1 /\ tasks'[a].todo = tasks[a].todo
         \/ v \notin DOMAIN views /\ ~Creatable(v) /\ Raises(a) /\ UNCHANGED <<views, stale, known>>
  BY CreatedIs
<1>0. n \in Int /\ Tiers \in Int /\ \A t \in 1..Tiers : t \in Int /\ (t < n + 1 => t < n \/ t = n) /\ (n <= t => t = n \/ n + 1 <= t)
  BY <1>1, TiersIsMoreThanOne
<1> HIDE DEF v, n
<1>2. CASE Created(a, v) /\ tasks'[a].at = "create" /\ tasks'[a].tier = n + 1 /\ tasks'[a].todo = tasks[a].todo
  <2> SUFFICES ASSUME NEW p \in Wides \ robbed', NEW t \in 1..Tiers, ViewOf(p, t) \notin DOMAIN views',
                      SomePassed(p, t)' \/ p \in complete' \ broken'
               PROVE  SomeAhead(p, t)'
    BY DEF BuiltInv, Absent, SomePassed, SomeAhead
  <2>1. ViewOf(p, t) \notin DOMAIN views /\ ~(p = Stack(a) /\ t = n) /\ complete' = complete /\ broken' = broken
    BY <1>2 DEF Created, v
  <2>2. Passed(tasks'[a], p, t) => Passed(tasks[a], p, t)
    BY <1>0, <1>1, <1>2, <2>1 DEF Passed, Stack, n
  <2>3. Ahead(tasks[a], p, t) => Ahead(tasks'[a], p, t)
    BY <1>0, <1>1, <1>2, <2>1 DEF Ahead, Stack, n
  <2>4. SomePassed(p, t)' => SomePassed(p, t)
    BY <1>1, <2>2 DEF SomePassed, OthersStay
  <2>5. SomeAhead(p, t) => SomeAhead(p, t)'
    BY <1>1, <2>3 DEF SomeAhead, OthersStay
  <2> QED
    BY <1>1, <2>1, <2>4, <2>5, BuiltSays
<1>3. CASE v \notin DOMAIN views /\ ~Creatable(v) /\ Raises(a) /\ UNCHANGED <<views, stale, known>>
  <2>1. ToNext(a) /\ broken' = broken \cup {Stack(a)} /\ complete' = complete
    BY <1>1, <1>3, RaisedGoesToNext
  <2>2. ASSUME NEW s, s = Stack(a), NEW t \in 1..Tiers, s \in Wides \ robbed', ViewOf(s, t) \notin DOMAIN views,
               NEW z \in RollupActors, Passed(tasks[z], s, t)
        PROVE  SomeAhead(s, t)'
    <3>1. \/ s \in ToSet(Tail(tasks[a].todo))
          \/ \E b \in RollupActors : b # a /\ Ahead(tasks[b], s, t)
      <4>1. s \in Wides \ robbed /\ Stack(a) = s /\ tasks[a].tier \in 1..Tiers /\ ~Creatable(ViewOf(s, tasks[a].tier))
        BY <1>1, <1>3, <2>2 DEF v, n
      <4> QED
        BY <1>1, <2>2, <4>1, OtherIsAhead
    <3> QED
      BY <2>1, <3>1, ToNextKeeps
  <2>3. PICK r : r = Stack(a)
    OBVIOUS
  <2>4. \A t \in 1..Tiers : r \in Wides \ robbed' /\ ViewOf(r, t) \notin DOMAIN views
            /\ ((\E b \in RollupActors : b # a /\ Passed(tasks[b], r, t)) \/ r \in complete' \ broken')
            => SomeAhead(r, t)'
    BY <2>1, <2>2, <2>3
  <2>5. robbed \subseteq robbed' /\ complete' \subseteq complete /\ broken \subseteq broken' /\ DOMAIN views' = DOMAIN views
    BY <1>1, <1>3, <2>1
  <2> QED
    BY <2>1, <2>3, <2>4, <2>5, BuiltToNext
<1> QED
  BY <1>1, <1>2, <1>3

LEMMA FinishKeepsBuilt ==
  ASSUME RollupBase, BuiltInv, NEW a \in RollupActors, Finish(a)
  PROVE  BuiltInv'
<1>1. /\ tasks[a].at = "create" /\ tasks[a].todo # <<>> /\ tasks[a].tier = Tiers + 1
      /\ complete' = complete \cup ({Stack(a)} \cap Wides) /\ broken' = broken \ {Stack(a)}
      /\ robbed' = IF Missing(Stack(a)) = {} THEN robbed \ {Stack(a)} ELSE robbed
      /\ views' = views /\ ToNext(a)
  BY FinishedIs DEF ToNext
<1>2. PICK s : s = Stack(a)
  OBVIOUS
<1>3. ASSUME NEW t \in 1..Tiers, s \in Wides \ robbed', ViewOf(s, t) \notin DOMAIN views
      PROVE  SomeAhead(s, t)'
  <2>0. Tiers \in Nat /\ t \in Int /\ t < Tiers + 1 /\ ~(Tiers + 1 <= t)
    BY TiersIsMoreThanOne
  <2>1. Missing(s) # {}
    BY <1>3 DEF Missing, StackViews
  <2>2. s \in Wides \ robbed
    BY <1>1, <1>2, <1>3, <2>1
  <2>3. Passed(tasks[a], s, t)
    BY <1>1, <1>2, <2>0 DEF Passed, Stack
  <2>4. SomeAhead(s, t)
    BY <1>3, <2>2, <2>3, BuiltSays DEF SomePassed
  <2>5. PICK b \in RollupActors : Ahead(tasks[b], s, t)
    BY <2>4 DEF SomeAhead
  <2>6. b = a => s \in ToSet(Tail(tasks[a].todo))
    BY <1>1, <2>0, <2>5 DEF Ahead
  <2> QED
    BY <1>1, <2>5, <2>6, ToNextKeeps
<1>4. robbed \subseteq robbed' \cup {s} /\ complete' \subseteq complete \cup {s} /\ broken \subseteq broken' \cup {s}
  BY <1>1, <1>2
<1> QED
  BY <1>1, <1>2, <1>3, <1>4, BuiltToNext

LEMMA StumbleKeepsBuilt ==
  ASSUME RollupBase, BuiltInv, ~uncertain => OneTask, NEW a \in RollupActors, SetupStumbles(a), Careful'
  PROVE  BuiltInv'
<1>1. /\ tasks[a].at \in {"drop", "create"} /\ tasks[a].todo # <<>>
      /\ OthersStay(a) /\ rollupErrors' = rollupErrors + 1
      /\ UNCHANGED <<views, stale, known, robbed, uncertain>>
      /\ \/ Raises(a)
         \/ /\ UNCHANGED <<complete, broken, failed>>
            /\ tasks'[a].at = "scan" /\ tasks'[a].todo = tasks[a].todo
  BY StumbledIs
<1>2. CASE Raises(a)
  <2>1. ToNext(a) /\ broken' = broken \cup {Stack(a)} /\ complete' = complete
    BY <1>1, <1>2, RaisedGoesToNext
  <2>2. rollupErrors' > 0
    BY <1>1 DEF RollupBase, StoredInv
  <2>3. ~uncertain'
    BY <2>2, Zenon DEF Careful
  <2>4. OneTask
    BY <1>1, <2>3
  <2>5. \A b \in RollupActors : b # a => tasks[b] = NoTask
    BY <1>1, <2>4, NoTaskIs DEF OneTask
  <2>6. \A s, t : ~\E b \in RollupActors : b # a /\ Passed(tasks[b], s, t)
    BY <2>5, NoTaskIs
  <2> QED
    BY <1>1, <2>1, <2>6, BuiltToNext
<1>3. CASE /\ UNCHANGED <<complete, broken, failed>>
           /\ tasks'[a].at = "scan" /\ tasks'[a].todo = tasks[a].todo
  <2>1. Onward(a)
    BY <1>1, <1>3 DEF Onward
  <2> QED
    BY <1>1, <1>3, <2>1, BuiltOnward
<1> QED
  BY <1>1, <1>2, <1>3

\* Steps that come to no stack and leave none.
LEMMA AsideKeepsBuilt ==
  ASSUME RollupBase, BuiltInv, Repopulate \/ SomeTaskBegins \/ NoSetupStep
  PROVE  BuiltInv'
<1> SUFFICES ASSUME NEW p, NEW t
             PROVE  /\ UNCHANGED <<views, complete, broken, robbed>>
                    /\ SomeAhead(p, t) => SomeAhead(p, t)'
                    /\ SomePassed(p, t)' => SomePassed(p, t)
  BY DEF BuiltInv, Absent, SomeAhead, SomePassed
<1>1. CASE Repopulate
  <2>1. /\ OthersStay("main") /\ "main" \in RollupActors /\ tasks["main"].todo = <<>> /\ tasks'["main"] = NoTask
        /\ UNCHANGED <<views, complete, broken, robbed>>
    BY <1>1, RepopulatedIs
  <2>2. ~Ahead(tasks["main"], p, t) /\ ~Passed(tasks'["main"], p, t)
    BY <2>1, NoTaskIs DEF Ahead
  <2> QED
    BY <2>1, <2>2 DEF SomeAhead, SomePassed, OthersStay
<1>2. CASE SomeTaskBegins
  <2>1. PICK a \in RollupActors : \E k : Begun(k) /\ Begins(a, k)
    BY <1>2 DEF SomeTaskBegins
  <2>2. PICK k : Begun(k) /\ Begins(a, k)
    BY <2>1
  <2>3. /\ OthersStay(a) /\ tasks[a] = NoTask /\ tasks'[a] = k
    BY <2>2, TaskBegins DEF Begun
  <2>4. ~Ahead(tasks[a], p, t) /\ ~Passed(tasks'[a], p, t)
    BY <2>2, <2>3, NoTaskIs DEF Begun, Passed
  <2>5. UNCHANGED <<views, complete, broken, robbed>>
    BY <2>2 DEF Begins
  <2> QED
    BY <2>3, <2>4, <2>5 DEF SomeAhead, SomePassed, OthersStay
<1>3. CASE NoSetupStep
  <2>1. UNCHANGED <<views, complete, tasks, robbed, broken>>
    BY <1>3, NoSetupStepIs
  <2> QED
    BY <2>1 DEF SomeAhead, SomePassed
<1> QED
  BY <1>1, <1>2, <1>3

LEMMA RestartKeepsBuilt ==
  ASSUME RollupBase, Restarts
  PROVE  BuiltInv' /\ LackingInv'
<1>1. PICK drifted \in BOOLEAN, grown \in BOOLEAN : RestartRollups(drifted, grown)
  BY DEF Restarts
<1>2. /\ \A p \in Stacks : \A t : Ahead(tasks'["main"], p, t)
      /\ \A a \in RollupActors : \A p, t, v : ~Passed(tasks'[a], p, t) /\ ~Dropping(tasks'[a], p, v)
  BY <1>1, RestartedIs
<1>3. "main" \in RollupActors /\ Wides \subseteq Stacks
  BY RollupsAssumption, TiersIsMoreThanOne
<1>4. BuiltInv'
  BY <1>2, <1>3 DEF BuiltInv
<1>5. LackingInv'
  BY <1>2 DEF LackingInv
<1> QED
  BY <1>4, <1>5

LEMMA BuiltStep ==
  ASSUME RollupBase, Careful => BuiltInv /\ LackingInv, ~uncertain => OneTask, RollupNext, Careful'
  PROVE  BuiltInv'
<1>1. CASE Restarts
  BY <1>1, RestartKeepsBuilt
<1>2. CASE ~Restarts
  <2>1. BuiltInv /\ LackingInv
    BY <1>2, StepContinues DEF Continues
  <2>2. ASSUME NEW a \in RollupActors, \/ ScanViews(a) \/ DropView(a) \/ Purged(a) \/ ColumnsDeleted(a)
                                       \/ CreateView(a) \/ Finish(a) \/ SetupStumbles(a)
        PROVE  BuiltInv'
    <3>1. CASE ScanViews(a) \/ Purged(a) \/ ColumnsDeleted(a)
      BY <2>1, <3>1, ScanKeepsBuilt
    <3>2. CASE DropView(a)
      BY <2>1, <3>2, DropKeepsBuilt
    <3>3. CASE CreateView(a)
      BY <2>1, <3>3, CreationKeepsBuilt
    <3>4. CASE Finish(a)
      BY <2>1, <3>4, FinishKeepsBuilt
    <3>5. CASE SetupStumbles(a)
      BY <2>1, <3>5, StumbleKeepsBuilt
    <3> QED
      BY <2>2, <3>1, <3>2, <3>3, <3>4, <3>5
  <2> QED
    BY <1>2, <2>1, <2>2, AsideKeepsBuilt, RollupSteps DEF Restarts
<1> QED
  BY <1>1, <1>2

----------------------------------------------------------------------------
(* Views that lack a column. *)

SomeDropping(p, v) == \E b \in RollupActors : Dropping(tasks[b], p, v)

LEMMA LackingSays ==
  LackingInv <=> \A p \in Wides \ robbed : \A t, i \in 1..Tiers :
     ViewOf(p, t) \notin DOMAIN views /\ i < t /\ ViewOf(p, i) \in DOMAIN views /\ ~views[ViewOf(p, i)].full /\ SomePassed(p, t)
     => SomeDropping(p, ViewOf(p, i))
  BY DEF LackingInv, Absent, SomePassed, SomeDropping

LEMMA NothingIsDropped ==
  ASSUME NEW k, k.left = <<>> \/ k.at # "drop", NEW p, NEW v
  PROVE  ~Dropping(k, p, v)
<1>1. ToSet(<<>>) = {}
  BY DEF ToSet
<1> QED
  BY <1>1 DEF Dropping

LEMMA ScanKeepsLacking ==
  ASSUME RollupBase, LackingInv, NEW a \in RollupActors, ScanViews(a) \/ Purged(a) \/ ColumnsDeleted(a)
  PROVE  LackingInv'
<1>1. /\ OthersStay(a) /\ tasks'[a].todo = tasks[a].todo /\ tasks[a].todo # <<>>
      /\ tasks'[a].at \in {"scan", "drop"} \/ (tasks'[a].at = "create" /\ tasks'[a].tier = 1)
      /\ tasks[a].at # "drop" \/ tasks[a].left = <<>>
  <2>1. CASE ScanViews(a)
    BY <2>1, StackScanned
  <2>2. CASE Purged(a)
    BY <2>2, PurgeEnds
  <2>3. CASE ColumnsDeleted(a)
    BY <2>3, SetupFollows
  <2> QED
    BY <2>1, <2>2, <2>3
<1>2. Onward(a)
  BY <1>1 DEF Onward
<1>3. views' = views /\ robbed' = robbed
  BY DEF ScanViews, Purged, ColumnsDeleted, rollupHistory
<1>4. \A p, v : SomeDropping(p, v) => SomeDropping(p, v)'
  BY <1>1, NothingIsDropped DEF SomeDropping, OthersStay
<1>5. \A p : \A t \in 1..Tiers : SomePassed(p, t)' => SomePassed(p, t)
  BY <1>2, OnwardKeeps
<1> QED
  BY <1>3, <1>4, <1>5 DEF LackingInv, Absent, SomePassed, SomeDropping

LEMMA DropKeepsLacking ==
  ASSUME RollupBase, LackingInv, NEW a \in RollupActors, DropView(a)
  PROVE  LackingInv'
<1> DEFINE v == Head(tasks[a].left)
<1>1. /\ tasks[a].at = "drop" /\ tasks[a].left # <<>> /\ tasks[a].todo # <<>> /\ v \in Views /\ OthersStay(a)
      /\ robbed' = robbed \cup ({v.stack} \cap (Wides \ {Stack(a)}))
      /\ (v \in DOMAIN views /\ Gone(Fallen(v))) \/ (v \notin DOMAIN views /\ views' = views)
      /\ \/ v \notin DOMAIN views /\ Stack(a) = Shared /\ Raises(a)
         \/ /\ tasks'[a].at = "drop" /\ tasks'[a].todo = tasks[a].todo
            /\ tasks'[a].left = Tail(tasks[a].left)
  BY DroppedIs
<1>2. /\ ToSet(tasks[a].left) = {v} \cup ToSet(Tail(tasks[a].left))
      /\ Stack(a) # Shared => \E n \in 1..Tiers :
           v = ViewOf(Stack(a), n) /\ ToSet(Tail(tasks[a].left)) = {ViewOf(Stack(a), t) : t \in 1..(n - 1)}
  BY <1>1, LeftOf DEF RollupBase
<1>3. Shared \notin Wides /\ Tiers \in Nat
  BY TiersIsMoreThanOne
<1>v. \A p, t : ViewOf(p, t) \in Fallen(v) => p = v.stack
  BY <1>1, ViewOfFields DEF Fallen, OnTopOf
<1>w. \A t \in 1..Tiers : t < Tiers => ViewOf(v.stack, t).stack = v.stack /\ ViewOf(v.stack, t).tier = t
  BY ViewOfFields
<1>x. v \in Fallen(v) /\ v.tier \in Int
  BY <1>1, ViewOfFields, <1>3 DEF Fallen
<1>y. \A t \in 1..Tiers : v.tier < t /\ t < Tiers /\ ViewOf(v.stack, t) \in DOMAIN views => ViewOf(v.stack, t) \in Fallen(v)
  BY <1>w, <1>x, <1>3 DEF Fallen, OnTopOf
<1>z. \A w \in DOMAIN views' : w \in DOMAIN views /\ views'[w] = views[w] /\ (v \in DOMAIN views => w \notin Fallen(v))
  BY <1>1 DEF Gone
<1>k. \A w \in DOMAIN views : w \in DOMAIN views' \/ w \in Fallen(v)
  BY <1>1 DEF Gone
<1>p. \A p, t : Passed(tasks'[a], p, t) => FALSE
  <2>1. CASE Raises(a)
    BY <1>1, <2>1, RaisedIs
  <2> QED
    BY <1>1, <2>1 DEF Passed
<1> HIDE DEF v
<1> SUFFICES ASSUME NEW p \in Wides \ robbed', NEW t \in 1..Tiers, NEW i \in 1..Tiers,
                    ViewOf(p, t) \notin DOMAIN views', i < t, ViewOf(p, i) \in DOMAIN views', ~views'[ViewOf(p, i)].full,
                    SomePassed(p, t)'
             PROVE  SomeDropping(p, ViewOf(p, i))'
  BY DEF LackingInv, Absent, SomePassed, SomeDropping
<1>4. /\ p \in Wides \ robbed /\ ViewOf(p, i) \in DOMAIN views /\ ~views[ViewOf(p, i)].full
      /\ v \in DOMAIN views => ViewOf(p, i) \notin Fallen(v)
  BY <1>1, <1>z
<1>5. SomePassed(p, t)
  BY <1>1, <1>p DEF SomePassed, OthersStay
<1>6. CASE p # v.stack \/ v \notin DOMAIN views
  <2>1. ViewOf(p, t) \notin DOMAIN views
    BY <1>1, <1>6, <1>k, <1>v
  <2>2. PICK b \in RollupActors : Dropping(tasks[b], p, ViewOf(p, i))
    BY <1>4, <1>5, <2>1, LackingSays DEF SomeDropping
  <2>3. ViewOf(p, i) # v
    BY <1>4, <1>6, ViewOfFields
  <2>4. b = a => tasks'[a].at = "drop"
    BY <1>1, <1>3, <2>2 DEF Dropping, Stack
  <2>5. b = a => Dropping(tasks'[a], p, ViewOf(p, i))
    <3>1. Raises(a) => Stack(a) = Shared \/ tasks'[a].left = Tail(tasks[a].left)
      BY <1>1
    <3>2. b = a => Stack(a) # Shared
      BY <1>3, <2>2 DEF Dropping, Stack
    <3> QED
      BY <1>1, <1>2, <2>2, <2>3, <3>2 DEF Dropping
  <2> QED
    BY <1>1, <2>2, <2>5 DEF SomeDropping, OthersStay
<1>7. CASE p = v.stack /\ v \in DOMAIN views
  <2>1. Stack(a) = p
    BY <1>1, <1>7
  <2>2. PICK n \in 1..Tiers : v = ViewOf(p, n) /\ ToSet(Tail(tasks[a].left)) = {ViewOf(p, j) : j \in 1..(n - 1)}
    BY <1>2, <1>3, <2>1
  <2>3. v.tier = n
    BY <2>2, ViewOfFields
  <2>4. ~(n < i)
    <3>1. i < Tiers
      BY <1>3
    <3> QED
      BY <1>4, <1>7, <1>y, <2>3, <3>1
  <2>5. i # n
    BY <1>4, <1>7, <1>x, <2>2
  <2>6. i \in 1..(n - 1)
    BY <2>4, <2>5, <1>3
  <2>7. Dropping(tasks'[a], p, ViewOf(p, i))
    BY <1>1, <1>7, <2>1, <2>2, <2>6 DEF Dropping, Stack
  <2> QED
    BY <2>7 DEF SomeDropping
<1> QED
  BY <1>6, <1>7

LEMMA CreationKeepsLacking ==
  ASSUME RollupBase, LackingInv, NEW a \in RollupActors, CreateView(a)
  PROVE  LackingInv'
<1> DEFINE n == tasks[a].tier
           v == ViewOf(Stack(a), n)
<1>1. /\ tasks[a].at = "create" /\ tasks[a].todo # <<>> /\ n \in 1..Tiers /\ v \in Views /\ OthersStay(a) /\ robbed' = robbed
      /\ \/ /\ Created(a, v) /\ tasks'[a].at = "create" /\ tasks'[a].tier = n + 1 /\ tasks'[a].todo = tasks[a].todo
         \/ v \notin DOMAIN views /\ ~Creatable(v) /\ Raises(a) /\ UNCHANGED <<views, stale, known>>
  BY CreatedIs
<1>0. n \in Int /\ Tiers \in Int /\ \A t \in 1..Tiers : t \in Int /\ (t < n + 1 => t < n \/ t = n)
  BY <1>1, TiersIsMoreThanOne
<1> HIDE DEF v, n
<1>2. \A p, w : SomeDropping(p, w) => SomeDropping(p, w)'
  BY <1>1, NothingIsDropped DEF SomeDropping, OthersStay
<1> SUFFICES ASSUME NEW p \in Wides \ robbed', NEW t \in 1..Tiers, NEW i \in 1..Tiers,
                    ViewOf(p, t) \notin DOMAIN views', i < t, ViewOf(p, i) \in DOMAIN views', ~views'[ViewOf(p, i)].full,
                    SomePassed(p, t)'
             PROVE  SomeDropping(p, ViewOf(p, i))'
  BY DEF LackingInv, Absent, SomePassed, SomeDropping
<1>3. CASE Created(a, v) /\ tasks'[a].at = "create" /\ tasks'[a].tier = n + 1 /\ tasks'[a].todo = tasks[a].todo
  <2>1. ViewOf(p, t) \notin DOMAIN views /\ ~(p = Stack(a) /\ t = n)
    BY <1>3 DEF Created, v
  <2>2. ViewOf(p, i) \in DOMAIN views /\ ~views[ViewOf(p, i)].full
    BY <1>3 DEF Created
  <2>3. Passed(tasks'[a], p, t) => Passed(tasks[a], p, t)
    BY <1>0, <1>1, <1>3, <2>1 DEF Passed, Stack, n
  <2>4. SomePassed(p, t)
    BY <1>1, <2>3 DEF SomePassed, OthersStay
  <2> QED
    BY <1>1, <1>2, <2>1, <2>2, <2>4, LackingSays
<1>4. CASE Raises(a) /\ UNCHANGED <<views, stale, known>>
  <2>1. SomePassed(p, t)
    BY <1>1, <1>4, RaisedGoesToNext, ToNextKeeps
  <2> QED
    BY <1>1, <1>2, <1>4, <2>1, LackingSays
<1> QED
  BY <1>1, <1>3, <1>4

LEMMA FinishKeepsLacking ==
  ASSUME RollupBase, LackingInv, NEW a \in RollupActors, Finish(a)
  PROVE  LackingInv'
<1>1. /\ tasks[a].at = "create" /\ tasks[a].todo # <<>>
      /\ robbed' = IF Missing(Stack(a)) = {} THEN robbed \ {Stack(a)} ELSE robbed
      /\ views' = views /\ ToNext(a) /\ OthersStay(a)
  BY FinishedIs DEF ToNext
<1>2. \A p, w : SomeDropping(p, w) => SomeDropping(p, w)'
  BY <1>1, NothingIsDropped DEF SomeDropping, OthersStay
<1> SUFFICES ASSUME NEW p \in Wides \ robbed', NEW t \in 1..Tiers, NEW i \in 1..Tiers,
                    ViewOf(p, t) \notin DOMAIN views', i < t, ViewOf(p, i) \in DOMAIN views', ~views'[ViewOf(p, i)].full,
                    SomePassed(p, t)'
             PROVE  SomeDropping(p, ViewOf(p, i))'
  BY DEF LackingInv, Absent, SomePassed, SomeDropping
<1>3. SomePassed(p, t)
  BY <1>1, ToNextKeeps
<1>4. ViewOf(p, t) \in Missing(p)
  BY <1>1 DEF Missing, StackViews
<1>5. p \in Wides \ robbed
  BY <1>1, <1>4
<1> QED
  BY <1>1, <1>2, <1>3, <1>5, LackingSays

LEMMA StumbleKeepsLacking ==
  ASSUME RollupBase, ~uncertain => OneTask, NEW a \in RollupActors, SetupStumbles(a), Careful'
  PROVE  LackingInv'
<1>1. /\ tasks[a].at \in {"drop", "create"} /\ tasks[a].todo # <<>>
      /\ OthersStay(a) /\ rollupErrors' = rollupErrors + 1 /\ uncertain' = uncertain
      /\ Raises(a) \/ tasks'[a].at = "scan"
  BY StumbledIs
<1>2. rollupErrors' > 0
  BY <1>1 DEF RollupBase, StoredInv
<1>3. ~uncertain'
  BY <1>2, Zenon DEF Careful
<1>4. \A b \in RollupActors : b # a => tasks[b] = NoTask
  BY <1>1, <1>3, NoTaskIs DEF OneTask
<1>5. \A p, t : ~Passed(tasks'[a], p, t)
  <2>1. CASE Raises(a)
    BY <1>1, <2>1, RaisedIs
  <2> QED
    BY <1>1, <2>1 DEF Passed
<1>6. \A p, t : \A b \in RollupActors : ~Passed(tasks'[b], p, t)
  BY <1>1, <1>4, <1>5, NoTaskIs DEF OthersStay
<1> QED
  BY <1>6 DEF LackingInv

LEMMA AsideKeepsLacking ==
  ASSUME RollupBase, LackingInv, Repopulate \/ SomeTaskBegins \/ NoSetupStep
  PROVE  LackingInv'
<1> SUFFICES ASSUME NEW p, NEW t, NEW v
             PROVE  /\ UNCHANGED <<views, robbed>>
                    /\ SomePassed(p, t)' => SomePassed(p, t)
                    /\ SomeDropping(p, v) => SomeDropping(p, v)'
  BY DEF LackingInv, Absent, SomeDropping, SomePassed
<1>1. CASE Repopulate
  <2>1. /\ OthersStay("main") /\ "main" \in RollupActors /\ tasks["main"].todo = <<>> /\ tasks'["main"] = NoTask
        /\ UNCHANGED <<views, robbed>>
    BY <1>1, RepopulatedIs
  <2>2. tasks["main"].at # "drop"
    BY <2>1, TaskFields DEF RollupBase
  <2>3. ~Dropping(tasks["main"], p, v) /\ ~Passed(tasks'["main"], p, t)
    BY <2>1, <2>2, NoTaskIs DEF Dropping
  <2> QED
    BY <2>1, <2>3 DEF SomeDropping, SomePassed, OthersStay
<1>2. CASE SomeTaskBegins
  <2>1. PICK a \in RollupActors : \E k : Begun(k) /\ Begins(a, k)
    BY <1>2 DEF SomeTaskBegins
  <2>2. PICK k : Begun(k) /\ Begins(a, k)
    BY <2>1
  <2>3. /\ OthersStay(a) /\ tasks[a] = NoTask /\ tasks'[a] = k
    BY <2>2, TaskBegins DEF Begun
  <2>4. ~Dropping(tasks[a], p, v) /\ ~Passed(tasks'[a], p, t)
    BY <2>2, <2>3, NoTaskIs DEF Begun, Passed
  <2>5. UNCHANGED <<views, robbed>>
    BY <2>2 DEF Begins
  <2> QED
    BY <2>3, <2>4, <2>5 DEF SomeDropping, SomePassed, OthersStay
<1>3. CASE NoSetupStep
  <2>1. UNCHANGED <<views, tasks, robbed>>
    BY <1>3, NoSetupStepIs
  <2> QED
    BY <2>1 DEF SomeDropping, SomePassed
<1> QED
  BY <1>1, <1>2, <1>3

LEMMA LackingStep ==
  ASSUME RollupBase, Careful => BuiltInv /\ LackingInv, ~uncertain => OneTask, RollupNext, Careful'
  PROVE  LackingInv'
<1>1. CASE Restarts
  BY <1>1, RestartKeepsBuilt
<1>2. CASE ~Restarts
  <2>1. LackingInv
    BY <1>2, StepContinues DEF Continues
  <2>2. ASSUME NEW a \in RollupActors, \/ ScanViews(a) \/ DropView(a) \/ Purged(a) \/ ColumnsDeleted(a)
                                       \/ CreateView(a) \/ Finish(a) \/ SetupStumbles(a)
        PROVE  LackingInv'
    <3>1. CASE ScanViews(a) \/ Purged(a) \/ ColumnsDeleted(a)
      BY <2>1, <3>1, ScanKeepsLacking
    <3>2. CASE DropView(a)
      BY <2>1, <3>2, DropKeepsLacking
    <3>3. CASE CreateView(a)
      BY <2>1, <3>3, CreationKeepsLacking
    <3>4. CASE Finish(a)
      BY <2>1, <3>4, FinishKeepsLacking
    <3>5. CASE SetupStumbles(a)
      BY <2>1, <3>5, StumbleKeepsLacking
    <3> QED
      BY <2>2, <3>1, <3>2, <3>3, <3>4, <3>5
  <2> QED
    BY <1>2, <2>1, <2>2, AsideKeepsLacking, RollupSteps DEF Restarts
<1> QED
  BY <1>1, <1>2

----------------------------------------------------------------------------
(* One set-up at a time. *)

SetupAct(a) == ScanViews(a) \/ DropView(a) \/ Purged(a) \/ ColumnsDeleted(a) \/ CreateView(a) \/ Finish(a) \/ SetupStumbles(a)

LEMMA SetupActWorks ==
  ASSUME RollupBase, NEW a \in RollupActors, SetupAct(a)
  PROVE  OthersStay(a) /\ tasks[a].todo # <<>> /\ tasks[a] # NoTask
<1>1. OthersStay(a) /\ tasks[a].todo # <<>>
  <2>1. CASE ScanViews(a)
    BY <2>1, StackScanned
  <2>2. CASE DropView(a)
    BY <2>2, DroppedIs
  <2>3. CASE Purged(a)
    BY <2>3, PurgeEnds
  <2>4. CASE ColumnsDeleted(a)
    BY <2>4, SetupFollows
  <2>5. CASE CreateView(a)
    BY <2>5, CreatedIs
  <2>6. CASE Finish(a)
    BY <2>6, FinishedIs
  <2>7. CASE SetupStumbles(a)
    BY <2>7, StumbledIs
  <2> QED
    BY <2>1, <2>2, <2>3, <2>4, <2>5, <2>6, <2>7 DEF SetupAct
<1> QED
  BY <1>1, NoTaskIs

LEMMA WorksAlone ==
  ASSUME RollupBase, OneTask, NEW a \in RollupActors, SetupAct(a)
  PROVE  \A b \in RollupActors : b # a => tasks[b] = NoTask /\ tasks'[b] = NoTask
<1>1. OthersStay(a) /\ tasks[a] # NoTask
  BY SetupActWorks
<1> QED
  BY <1>1 DEF OneTask, OthersStay

\* What the others of one set-up are not doing.
LEMMA TheOthersAreIdle ==
  ASSUME NEW b, tasks[b] = NoTask
  PROVE  /\ tasks[b].at = "idle" /\ tasks[b].todo = <<>> /\ ~Tearing(tasks[b])
         /\ \A p, t, v : ~Ahead(tasks[b], p, t) /\ ~Passed(tasks[b], p, t) /\ ~Dropping(tasks[b], p, v)
  BY NoTaskIs DEF Tearing

LEMMA RollupCases ==
  ASSUME RollupBase, RollupNext
  PROVE  (\E a \in RollupActors : SetupAct(a)) \/ Repopulate \/ SomeTaskBegins \/ NoSetupStep \/ Restarts
  BY RollupSteps DEF SetupAct, Restarts

\* The only task that begins is one of its own.
LEMMA BeginsAlone ==
  ASSUME RollupBase, SomeTaskBegins, ~uncertain'
  PROVE  \E a \in RollupActors : \E k : /\ Begun(k) /\ tasks'[a] = k
                                        /\ \A b \in RollupActors : tasks[b] = NoTask /\ (b # a => tasks'[b] = NoTask)
                                        /\ UNCHANGED <<views, stale, known, complete, robbed, broken, failed>>
<1>1. PICK a \in RollupActors : \E k : Begun(k) /\ Begins(a, k)
  BY DEF SomeTaskBegins
<1>2. PICK k : Begun(k) /\ Begins(a, k)
  BY <1>1
<1>3. OthersStay(a) /\ tasks'[a] = k /\ \A b \in RollupActors : tasks[b] = NoTask
  BY <1>2, TaskBegins DEF Begun
<1>4. UNCHANGED <<views, stale, known, complete, robbed, broken, failed>>
  BY <1>2 DEF Begins
<1> QED
  BY <1>2, <1>3, <1>4 DEF OthersStay

LEMMA OneTaskStep ==
  ASSUME RollupBase, ~uncertain => OneTask, RollupNext, ~uncertain'
  PROVE  OneTask'
<1>1. CASE Restarts
  <2>1. PICK drifted \in BOOLEAN, grown \in BOOLEAN : RestartRollups(drifted, grown)
    BY <1>1 DEF Restarts
  <2>2. \A a \in RollupActors : a # "main" => tasks'[a] = NoTask
    BY <2>1, RestartedIs
  <2> QED
    BY <2>2 DEF OneTask
<1>2. CASE ~Restarts
  <2>1. OneTask
    BY <1>2, StepContinues DEF Continues
  <2>2. ASSUME NEW a \in RollupActors, SetupAct(a) PROVE OneTask'
    BY <2>1, <2>2, WorksAlone DEF OneTask
  <2>3. ASSUME Repopulate PROVE OneTask'
    <3>1. OthersStay("main") /\ tasks'["main"] = NoTask
      BY <2>3, RepopulatedIs
    <3> QED
      BY <2>1, <3>1 DEF OneTask, OthersStay
  <2>4. ASSUME SomeTaskBegins PROVE OneTask'
    BY <2>4, BeginsAlone DEF OneTask
  <2>5. ASSUME NoSetupStep PROVE OneTask'
    BY <2>1, <2>5, NoSetupStepIs DEF OneTask
  <2> QED
    BY <1>2, <2>2, <2>3, <2>4, <2>5, RollupCases
<1> QED
  BY <1>1, <1>2

----------------------------------------------------------------------------
(* Without an overlap. *)

LEMMA PurgeStep ==
  ASSUME RollupBase, ~uncertain => OneTask /\ PurgeInv, RollupNext, ~uncertain'
  PROVE  PurgeInv'
<1>1. CASE Restarts
  <2>1. PICK drifted \in BOOLEAN, grown \in BOOLEAN : RestartRollups(drifted, grown)
    BY <1>1 DEF Restarts
  <2>2. \A a \in RollupActors : tasks'[a].at \in {"idle", "scan"}
    BY <2>1, RestartedIs
  <2> QED
    BY <2>2 DEF PurgeInv
<1>2. CASE ~Restarts
  <2>1. OneTask /\ PurgeInv
    BY <1>2, StepContinues DEF Continues
  <2>2. ASSUME NEW a \in RollupActors, SetupAct(a),
               tasks'[a].at = "drop" => \A v \in DOMAIN views' : Stack(a)' \in {Shared, v.stack} => v \in ToSet(tasks'[a].left)
        PROVE  PurgeInv'
    <3>1. \A b \in RollupActors : b # a => tasks'[b].at = "idle"
      BY <2>1, <2>2, WorksAlone, NoTaskIs
    <3> QED
      BY <2>2, <3>1 DEF PurgeInv
  <2>3. ASSUME NEW a \in RollupActors, ScanViews(a) PROVE PurgeInv'
    <3>1. /\ tasks'[a].at = "drop" => tasks'[a].left = DropList(Stack(a))
          /\ tasks'[a].todo = tasks[a].todo /\ tasks[a].todo # <<>>
      BY <2>3, StackScanned
    <3>2. Stack(a) \in Stacks /\ StoredInv /\ Stack(a)' = Stack(a) /\ views' = views
      BY <2>3, <3>1, TaskFields DEF RollupBase, Stack, ScanViews
    <3>3. ASSUME NEW v \in DOMAIN views, Stack(a) \in {Shared, v.stack} PROVE v \in ToSet(DropList(Stack(a)))
      <4>1. Stack(a) = Shared => v \in ToSet(DropList(Stack(a)))
        BY <3>2, DropListOf
      <4>2. v = ViewOf(v.stack, v.tier) /\ v.tier \in 1..Tiers
        BY <3>2, ViewOfFields DEF StoredInv
      <4>3. Stack(a) # Shared => v \in StackViews(Stack(a))
        BY <3>3, <4>2 DEF StackViews
      <4> QED
        BY <3>2, <4>1, <4>3, DropListOf
    <3> QED
      BY <2>2, <2>3, <3>1, <3>2, <3>3 DEF SetupAct
  <2>4. ASSUME NEW a \in RollupActors, DropView(a) PROVE PurgeInv'
    <3> DEFINE v == Head(tasks[a].left)
    <3>1. /\ tasks[a].at = "drop" /\ tasks[a].left # <<>> /\ tasks[a].todo # <<>> /\ v \in Views
          /\ (v \in DOMAIN views /\ Gone(Fallen(v))) \/ (v \notin DOMAIN views /\ views' = views)
          /\ \/ Raises(a)
             \/ /\ tasks'[a].at = "drop" /\ tasks'[a].left = Tail(tasks[a].left) /\ tasks'[a].todo = tasks[a].todo
      BY <2>4, DroppedIs
    <3>2. ToSet(tasks[a].left) = {v} \cup ToSet(Tail(tasks[a].left))
      BY <3>1, LeftOf DEF RollupBase
    <3>3. \A w \in DOMAIN views' : w \in DOMAIN views /\ w # v
      BY <3>1 DEF Gone, Fallen
    <3>4. \A w \in DOMAIN views : Stack(a) \in {Shared, w.stack} => w \in ToSet(tasks[a].left)
      BY <2>1, <3>1 DEF PurgeInv
    <3> HIDE DEF v
    <3>5. CASE Raises(a)
      <4>1. tasks'[a].at \in {"idle", "scan"}
        BY <3>1, <3>5, RaisedIs
      <4> QED
        BY <2>2, <2>4, <4>1 DEF SetupAct
    <3>6. CASE /\ tasks'[a].at = "drop" /\ tasks'[a].left = Tail(tasks[a].left) /\ tasks'[a].todo = tasks[a].todo
      <4>1. Stack(a)' = Stack(a)
        BY <3>6 DEF Stack
      <4> QED
        BY <2>2, <2>4, <3>2, <3>3, <3>4, <3>6, <4>1 DEF SetupAct
    <3> QED
      BY <3>1, <3>5, <3>6
  <2>5. ASSUME NEW a \in RollupActors, SetupAct(a), tasks'[a].at # "drop" PROVE PurgeInv'
    BY <2>2, <2>5
  <2>6. ASSUME NEW a \in RollupActors, Purged(a) \/ ColumnsDeleted(a) \/ CreateView(a) \/ Finish(a) \/ SetupStumbles(a)
        PROVE  PurgeInv'
    <3>1. CASE Purged(a)
      BY <2>5, <3>1, PurgeEnds DEF SetupAct
    <3>2. CASE ColumnsDeleted(a)
      BY <2>5, <3>2, SetupFollows DEF SetupAct
    <3>3. CASE CreateView(a)
      <4>1. tasks[a].todo # <<>> /\ (tasks'[a].at = "create" \/ Raises(a))
        BY <3>3, CreatedIs
      <4>2. tasks'[a].at # "drop"
        BY <4>1, RaisedIs
      <4> QED
        BY <2>5, <3>3, <4>2 DEF SetupAct
    <3>4. CASE Finish(a)
      BY <2>5, <3>4, FinishedIs DEF SetupAct
    <3>5. CASE SetupStumbles(a)
      <4>1. tasks[a].todo # <<>> /\ (tasks'[a].at = "scan" \/ Raises(a))
        BY <3>5, StumbledIs
      <4>2. tasks'[a].at # "drop"
        BY <4>1, RaisedIs
      <4> QED
        BY <2>5, <3>5, <4>2 DEF SetupAct
    <3> QED
      BY <2>6, <3>1, <3>2, <3>3, <3>4, <3>5
  <2>7. ASSUME Repopulate PROVE PurgeInv'
    <3>1. OthersStay("main") /\ tasks'["main"] = NoTask /\ views' = views
      BY <2>7, RepopulatedIs
    <3> QED
      BY <2>1, <3>1, NoTaskIs DEF PurgeInv, OthersStay, Stack
  <2>8. ASSUME SomeTaskBegins PROVE PurgeInv'
    <3>1. PICK a \in RollupActors : \E k : /\ Begun(k) /\ tasks'[a] = k
                                    /\ \A b \in RollupActors : tasks[b] = NoTask /\ (b # a => tasks'[b] = NoTask)
                                    /\ UNCHANGED <<views, stale, known, complete, robbed, broken, failed>>
      BY <2>8, BeginsAlone
    <3>2. /\ Begun(tasks'[a]) /\ views' = views /\ \A b \in RollupActors : b # a => tasks'[b].at = "idle"
      BY <3>1, NoTaskIs
    <3>3. ASSUME tasks'[a].at = "drop", NEW v \in DOMAIN views', Stack(a)' \in {Shared, v.stack}
          PROVE  v \in ToSet(tasks'[a].left)
      <4>1. Stack(a)' \in Wides /\ tasks'[a].left = DropList(Head(tasks'[a].todo)) /\ Stack(a)' = v.stack
        BY <3>2, <3>3, TiersIsMoreThanOne DEF Begun, Stack
      <4>2. v.stack \in Stacks /\ v.stack # Shared /\ StoredInv /\ v = ViewOf(v.stack, v.tier) /\ v.tier \in 1..Tiers
        BY <3>2, <4>1, ViewOfFields, TiersIsMoreThanOne DEF RollupBase, StoredInv
      <4>3. v \in StackViews(v.stack)
        BY <4>2 DEF StackViews
      <4>4. tasks'[a].left = DropList(v.stack)
        BY <4>1 DEF Stack
      <4> QED
        BY <4>2, <4>3, <4>4, DropListOf
    <3> QED
      BY <3>2, <3>3 DEF PurgeInv
  <2>9. ASSUME NoSetupStep PROVE PurgeInv'
    BY <2>1, <2>9, NoSetupStepIs DEF PurgeInv, Stack
  <2> QED
    BY <1>2, <2>3, <2>4, <2>6, <2>7, <2>8, <2>9, RollupCases DEF SetupAct
<1> QED
  BY <1>1, <1>2

LEMMA PassStep ==
  ASSUME RollupBase, ~uncertain => OneTask /\ PassInv, RollupNext, ~uncertain'
  PROVE  PassInv'
<1>0. Tiers \in Nat /\ \A t \in 1..Tiers : ~(t < 1) /\ t \in Int
  BY TiersIsMoreThanOne
<1>1. CASE Restarts
  <2>1. PICK drifted \in BOOLEAN, grown \in BOOLEAN : RestartRollups(drifted, grown)
    BY <1>1 DEF Restarts
  <2>2. \A a \in RollupActors : tasks'[a].at \in {"idle", "scan"}
    BY <2>1, RestartedIs
  <2> QED
    BY <2>2 DEF PassInv
<1>2. CASE ~Restarts
  <2>1. OneTask /\ PassInv
    BY <1>2, StepContinues DEF Continues
  <2>2. ASSUME NEW a \in RollupActors, SetupAct(a), tasks'[a].at # "create" \/ tasks'[a].tier = 1
        PROVE  PassInv'
    <3>1. \A b \in RollupActors : b # a => tasks'[b].at = "idle"
      BY <2>1, <2>2, WorksAlone, NoTaskIs
    <3> QED
      BY <1>0, <2>2, <3>1 DEF PassInv
  <2>3. ASSUME NEW a \in RollupActors, CreateView(a) PROVE PassInv'
    <3> DEFINE n == tasks[a].tier
               v == ViewOf(Stack(a), n)
    <3>1. /\ tasks[a].at = "create" /\ tasks[a].todo # <<>> /\ n \in 1..Tiers /\ v \in Views
          /\ \/ /\ Created(a, v) /\ tasks'[a].at = "create" /\ tasks'[a].tier = n + 1 /\ tasks'[a].todo = tasks[a].todo
             \/ Raises(a)
      BY <2>3, CreatedIs
    <3>2. CASE Raises(a)
      <4>1. tasks'[a].at \in {"idle", "scan"}
        BY <3>1, <3>2, RaisedIs
      <4> QED
        BY <2>2, <2>3, <4>1 DEF SetupAct
    <3> HIDE DEF n, v
    <3>3. CASE Created(a, v) /\ tasks'[a].at = "create" /\ tasks'[a].tier = n + 1 /\ tasks'[a].todo = tasks[a].todo
      <4>1. \A b \in RollupActors : b # a => tasks'[b].at = "idle"
        BY <2>1, <2>3, WorksAlone, NoTaskIs DEF SetupAct
      <4>2. ToSet(known') = ToSet(known) \cup {v} /\ DOMAIN views' = DOMAIN views \cup {v}
        BY <3>1, <3>3, ListedOne DEF Created, RollupBase
      <4>3. ASSUME NEW t \in 1..Tiers, t < n + 1 PROVE ViewOf(Stack(a), t) \in DOMAIN views' \cap ToSet(known')
        <5>1. t < n \/ t = n
          BY <1>0, <3>1, <4>3
        <5>2. t < n => ViewOf(Stack(a), t) \in DOMAIN views \cap ToSet(known)
          BY <2>1, <3>1 DEF PassInv, n
        <5> QED
          BY <4>2, <5>1, <5>2 DEF v
      <4>4. Stack(a)' = Stack(a)
        BY <3>3 DEF Stack
      <4> QED
        BY <3>3, <4>1, <4>3, <4>4 DEF PassInv
    <3> QED
      BY <3>1, <3>2, <3>3
  <2>4. ASSUME NEW a \in RollupActors,
               ScanViews(a) \/ DropView(a) \/ Purged(a) \/ ColumnsDeleted(a) \/ Finish(a) \/ SetupStumbles(a)
        PROVE  PassInv'
    <3>1. CASE ScanViews(a)
      <4>1. tasks'[a].at = "drop" \/ tasks'[a].tier = 1
        BY <3>1, StackScanned
      <4> QED
        BY <2>2, <3>1, <4>1 DEF SetupAct
    <3>2. CASE DropView(a)
      <4>1. tasks[a].todo # <<>> /\ (tasks'[a].at = "drop" \/ Raises(a))
        BY <3>2, DroppedIs
      <4>2. tasks'[a].at # "create"
        BY <4>1, RaisedIs
      <4> QED
        BY <2>2, <3>2, <4>2 DEF SetupAct
    <3>3. CASE Purged(a)
      BY <2>2, <3>3, PurgeEnds DEF SetupAct
    <3>4. CASE ColumnsDeleted(a)
      BY <2>2, <3>4, SetupFollows DEF SetupAct
    <3>5. CASE Finish(a)
      BY <2>2, <3>5, FinishedIs DEF SetupAct
    <3>6. CASE SetupStumbles(a)
      <4>1. tasks[a].todo # <<>> /\ (tasks'[a].at = "scan" \/ Raises(a))
        BY <3>6, StumbledIs
      <4>2. tasks'[a].at # "create"
        BY <4>1, RaisedIs
      <4> QED
        BY <2>2, <3>6, <4>2 DEF SetupAct
    <3> QED
      BY <2>4, <3>1, <3>2, <3>3, <3>4, <3>5, <3>6
  <2>5. ASSUME Repopulate PROVE PassInv'
    <3>1. /\ OthersStay("main") /\ tasks'["main"] = NoTask /\ tasks["main"] # NoTask /\ "main" \in RollupActors
      BY <2>5, RepopulatedIs
    <3>2. \A b \in RollupActors : tasks'[b] = NoTask
      BY <2>1, <3>1 DEF OneTask, OthersStay
    <3> QED
      BY <3>2, NoTaskIs DEF PassInv
  <2>6. ASSUME SomeTaskBegins PROVE PassInv'
    <3>1. \A b \in RollupActors : tasks'[b] = NoTask \/ Begun(tasks'[b])
      BY <2>6, BeginsAlone
    <3>2. \A b \in RollupActors : tasks'[b].at # "create"
      BY <3>1, NoTaskIs DEF Begun
    <3> QED
      BY <3>2 DEF PassInv
  <2>7. ASSUME NoSetupStep PROVE PassInv'
    BY <2>1, <2>7, NoSetupStepIs DEF PassInv, Stack
  <2> QED
    BY <1>2, <2>3, <2>4, <2>5, <2>6, <2>7, RollupCases DEF SetupAct
<1> QED
  BY <1>1, <1>2

\* A view on the list, of a stack that broke, or still to come to.
IsListed(v) == v \in ToSet(known) \/ v.stack \in broken \/ SomeAhead(v.stack, v.tier)

LEMMA ListSays == ListInv <=> \A v \in DOMAIN views : IsListed(v)
  BY DEF ListInv, IsListed, SomeAhead

LEMMA ListOnward ==
  ASSUME RollupBase, ListInv, NEW a, Onward(a), DOMAIN views' \subseteq DOMAIN views, broken' = broken,
         \A v \in DOMAIN views' : v \in ToSet(known) => v \in ToSet(known')
  PROVE  ListInv'
<1> SUFFICES ASSUME NEW v \in DOMAIN views' PROVE v \in ToSet(known') \/ v.stack \in broken' \/ SomeAhead(v.stack, v.tier)'
  BY DEF ListInv, SomeAhead
<1>1. v \in Views /\ v.tier \in 1..Tiers
  BY ViewOfFields DEF RollupBase, StoredInv
<1>2. v \in ToSet(known) \/ v.stack \in broken \/ SomeAhead(v.stack, v.tier)
  BY ListSays DEF IsListed
<1>3. SomeAhead(v.stack, v.tier) => SomeAhead(v.stack, v.tier)'
  BY <1>1, OnwardKeeps
<1> QED
  BY <1>2, <1>3

LEMMA ListToNext ==
  ASSUME RollupBase, ListInv, NEW a, ToNext(a), DOMAIN views' = DOMAIN views, known' = known,
         broken \subseteq broken' \cup {Stack(a)},
         Stack(a) \in broken' \/ \A v \in DOMAIN views : v.stack = Stack(a) => v \in ToSet(known)
  PROVE  ListInv'
<1> SUFFICES ASSUME NEW v \in DOMAIN views PROVE v \in ToSet(known) \/ v.stack \in broken' \/ SomeAhead(v.stack, v.tier)'
  BY DEF ListInv, SomeAhead
<1>1. v \in Views /\ v.tier \in 1..Tiers
  BY ViewOfFields DEF RollupBase, StoredInv
<1>2. v \in ToSet(known) \/ v.stack \in broken \/ SomeAhead(v.stack, v.tier)
  BY ListSays DEF IsListed
<1>3. v.stack # Stack(a) /\ SomeAhead(v.stack, v.tier) => SomeAhead(v.stack, v.tier)'
  BY <1>1, ToNextKeeps
<1> QED
  BY <1>2, <1>3

LEMMA ListStep ==
  ASSUME RollupBase, ~uncertain => OneTask /\ PurgeInv /\ PassInv /\ ListInv, RollupNext, ~uncertain'
  PROVE  ListInv'
<1>0. Tiers \in Nat
  BY TiersIsMoreThanOne
<1>1. CASE Restarts
  <2>1. PICK drifted \in BOOLEAN, grown \in BOOLEAN : RestartRollups(drifted, grown)
    BY <1>1 DEF Restarts
  <2>2. (\A p \in Stacks : \A t : Ahead(tasks'["main"], p, t)) /\ DOMAIN views' = DOMAIN views /\ "main" \in RollupActors
    BY <2>1, RestartedIs, RollupsAssumption
  <2>3. \A v \in DOMAIN views : v.stack \in Stacks
    BY ViewOfFields DEF RollupBase, StoredInv
  <2> QED
    BY <2>2, <2>3 DEF ListInv
<1>2. CASE ~Restarts
  <2>1. OneTask /\ PurgeInv /\ PassInv /\ ListInv
    BY <1>2, StepContinues DEF Continues
  <2>2. ASSUME NEW a \in RollupActors, ScanViews(a) \/ ColumnsDeleted(a) PROVE ListInv'
    <3>1. Onward(a)
      <4>1. CASE ScanViews(a)
        BY <4>1, StackScanned DEF Onward
      <4>2. CASE ColumnsDeleted(a)
        BY <4>2, SetupFollows DEF Onward
      <4> QED
        BY <2>2, <4>1, <4>2
    <3>2. views' = views /\ known' = known /\ broken' = broken
      BY <2>2 DEF ScanViews, ColumnsDeleted, rollupHistory
    <3> QED
      BY <2>1, <3>1, <3>2, ListOnward
  <2>3. ASSUME NEW a \in RollupActors, DropView(a) PROVE ListInv'
    <3> DEFINE v == Head(tasks[a].left)
    <3>1. /\ tasks[a].at = "drop" /\ tasks[a].left # <<>> /\ tasks[a].todo # <<>> /\ v \in Views /\ OthersStay(a)
          /\ \/ /\ v \in DOMAIN views /\ Gone(Fallen(v))
                /\ known' = IF Stack(a) = Shared THEN known ELSE Without(known, v)
             \/ v \notin DOMAIN views /\ UNCHANGED <<views, stale, known>>
          /\ \/ v \notin DOMAIN views /\ Stack(a) = Shared /\ Raises(a)
             \/ /\ tasks'[a].at = "drop" /\ tasks'[a].todo = tasks[a].todo /\ broken' = broken
      BY <2>3, DroppedIs
    <3>2. ToSet(Without(known, v)) = ToSet(known) \ {v}
      BY WithoutOne DEF RollupBase
    <3> HIDE DEF v
    <3>3. CASE v \notin DOMAIN views /\ Stack(a) = Shared /\ Raises(a)
      <4>1. ToNext(a) /\ broken' = broken \cup {Stack(a)}
        BY <3>1, <3>3, RaisedGoesToNext
      <4> QED
        BY <2>1, <3>1, <3>3, <4>1, ListToNext
    <3>4. CASE /\ tasks'[a].at = "drop" /\ tasks'[a].todo = tasks[a].todo /\ broken' = broken
      <4>1. Onward(a)
        BY <3>1, <3>4 DEF Onward
      <4>2. DOMAIN views' \subseteq DOMAIN views /\ \A w \in DOMAIN views' : w \in ToSet(known) => w \in ToSet(known')
        BY <3>1, <3>2 DEF Gone, Fallen
      <4> QED
        BY <2>1, <3>4, <4>1, <4>2, ListOnward
    <3> QED
      BY <3>1, <3>3, <3>4
  <2>4. ASSUME NEW a \in RollupActors, Purged(a) PROVE ListInv'
    <3>1. tasks[a].at = "drop" /\ tasks[a].left = <<>> /\ Onward(a)
      BY <2>4, PurgeEnds DEF Onward
    <3>2. views' = views /\ broken' = broken /\ (Stack(a) # Shared => known' = known)
      BY <2>4 DEF Purged, rollupHistory
    <3>3. ToSet(<<>>) = {}
      BY DEF ToSet
    <3>4. Stack(a) = Shared => DOMAIN views = {}
      BY <2>1, <3>1, <3>3 DEF PurgeInv
    <3> QED
      BY <2>1, <3>1, <3>2, <3>4, ListOnward
  <2>5. ASSUME NEW a \in RollupActors, CreateView(a) PROVE ListInv'
    <3> DEFINE n == tasks[a].tier
               v == ViewOf(Stack(a), n)
    <3>1. /\ tasks[a].at = "create" /\ tasks[a].todo # <<>> /\ n \in 1..Tiers /\ v \in Views /\ OthersStay(a)
          /\ \/ /\ Created(a, v) /\ tasks'[a].at = "create" /\ tasks'[a].tier = n + 1 /\ tasks'[a].todo = tasks[a].todo
             \/ Raises(a) /\ UNCHANGED <<views, stale, known>>
      BY <2>5, CreatedIs
    <3> HIDE DEF n, v
    <3>2. CASE Raises(a) /\ UNCHANGED <<views, stale, known>>
      <4>1. ToNext(a) /\ broken' = broken \cup {Stack(a)}
        BY <3>1, <3>2, RaisedGoesToNext
      <4> QED
        BY <2>1, <3>2, <4>1, ListToNext
    <3>3. CASE Created(a, v) /\ tasks'[a].at = "create" /\ tasks'[a].tier = n + 1 /\ tasks'[a].todo = tasks[a].todo
      <4>1. ToSet(known') = ToSet(known) \cup {v} /\ DOMAIN views' = DOMAIN views \cup {v} /\ broken' = broken
        BY <3>1, <3>3, ListedOne DEF Created, RollupBase
      <4>2. ASSUME NEW w \in DOMAIN views, w # v, SomeAhead(w.stack, w.tier) PROVE SomeAhead(w.stack, w.tier)'
        <5>1. w.tier \in 1..Tiers /\ w = ViewOf(w.stack, w.tier)
          BY ViewOfFields DEF RollupBase, StoredInv
        <5>2. ~(w.stack = Stack(a) /\ w.tier = n)
          BY <4>2, <5>1 DEF v
        <5>3. n <= w.tier /\ w.tier # n => n + 1 <= w.tier
          BY <1>0, <3>1, <5>1
        <5>4. Ahead(tasks[a], w.stack, w.tier) => Ahead(tasks'[a], w.stack, w.tier)
          BY <3>1, <3>3, <5>2, <5>3 DEF Ahead, Stack, n
        <5> QED
          BY <3>1, <4>2, <5>4 DEF SomeAhead, OthersStay
      <4>3. ASSUME NEW w \in DOMAIN views' PROVE w \in ToSet(known') \/ w.stack \in broken' \/ SomeAhead(w.stack, w.tier)'
        BY <2>1, <4>1, <4>2, ListSays DEF IsListed
      <4> QED
        BY <4>3 DEF ListInv, SomeAhead
    <3> QED
      BY <3>1, <3>2, <3>3
  <2>6. ASSUME NEW a \in RollupActors, Finish(a) PROVE ListInv'
    <3>1. /\ tasks[a].at = "create" /\ tasks[a].tier = Tiers + 1 /\ ToNext(a)
          /\ broken' = broken \ {Stack(a)} /\ UNCHANGED <<views, known>>
      BY <2>6, FinishedIs DEF ToNext
    <3>2. ASSUME NEW v \in DOMAIN views, v.stack = Stack(a) PROVE v \in ToSet(known)
      <4>1. v = ViewOf(v.stack, v.tier) /\ v.tier \in 1..Tiers /\ v.tier < Tiers + 1
        BY <1>0, ViewOfFields DEF RollupBase, StoredInv
      <4> QED
        BY <2>1, <3>1, <3>2, <4>1 DEF PassInv
    <3> QED
      BY <2>1, <3>1, <3>2, ListToNext
  <2>7. ASSUME NEW a \in RollupActors, SetupStumbles(a) PROVE ListInv'
    <3>1. /\ tasks[a].todo # <<>> /\ OthersStay(a) /\ UNCHANGED <<views, known>>
          /\ \/ Raises(a)
             \/ broken' = broken /\ tasks'[a].at = "scan" /\ tasks'[a].todo = tasks[a].todo
      BY <2>7, StumbledIs
    <3>2. CASE Raises(a)
      <4>1. ToNext(a) /\ broken' = broken \cup {Stack(a)}
        BY <3>1, <3>2, RaisedGoesToNext
      <4> QED
        BY <2>1, <3>1, <4>1, ListToNext
    <3>3. CASE broken' = broken /\ tasks'[a].at = "scan" /\ tasks'[a].todo = tasks[a].todo
      <4>1. Onward(a)
        BY <3>1, <3>3 DEF Onward
      <4> QED
        BY <2>1, <3>1, <3>3, <4>1, ListOnward
    <3> QED
      BY <3>1, <3>2, <3>3
  <2>8. ASSUME Repopulate PROVE ListInv'
    <3>1. ToSet(known') = Views /\ views' = views
      BY <2>8, RepopulatedIs
    <3> QED
      BY <3>1 DEF ListInv, RollupBase, StoredInv
  <2>9. ASSUME SomeTaskBegins PROVE ListInv'
    <3>1. /\ UNCHANGED <<views, known, broken>> /\ \A b \in RollupActors : tasks[b] = NoTask
      BY <2>9, BeginsAlone
    <3>2. \A p, t : ~SomeAhead(p, t)
      BY <3>1, NoTaskIs DEF SomeAhead
    <3> QED
      BY <2>1, <3>1, <3>2 DEF ListInv, SomeAhead
  <2>10. ASSUME NoSetupStep PROVE ListInv'
    BY <2>1, <2>10, NoSetupStepIs DEF ListInv
  <2> QED
    BY <1>2, <2>2, <2>3, <2>4, <2>5, <2>6, <2>7, <2>8, <2>9, <2>10, RollupCases DEF SetupAct
<1> QED
  BY <1>1, <1>2

----------------------------------------------------------------------------
(* The order of the list. *)

Calm == OneTask /\ PurgeInv /\ PassInv /\ SourcesFirst /\ WholeInv /\ GapInv /\ FitInv /\ TornInv

\* The invariants, of the one set-up there is.
ListedStand(p) == \A v \in ToSet(known) : v.stack = p => v \in DOMAIN views
Bare(p) == \A v \in DOMAIN views : v.stack # p
NarrowUnfit == \E v \in DOMAIN views : v.stack = Shared /\ ~views[v].fits
WholeFor(a) == ~Tearing(tasks[a]) => \A p \in Wides : (tasks[a].at = "create" /\ Stack(a) = p) \/ ListedStand(p) \/ Bare(p)
GapFor(a) == ~Tearing(tasks[a]) =>
    \A p \in Wides : \A t \in 1..Tiers : ViewOf(p, t) \notin DOMAIN views => Ahead(tasks[a], p, t) \/ Bare(p)
FitFor(a) == NarrowUnfit =>
    /\ known = <<>> /\ tasks[a].todo # <<>> /\ Stack(a) = Shared
    /\ tasks[a].at \in {"scan", "drop"} /\ ThenProtocols(tasks[a])
TornFor(a) == tasks[a].at = "drop" /\ Stack(a) = Shared /\ ~tasks[a].force => known = <<>> /\ ThenProtocols(tasks[a])
StacksOrdered(a) == WholeFor(a) /\ GapFor(a) /\ FitFor(a) /\ TornFor(a)

LEMMA OrderedSays ==
  ASSUME NEW a \in RollupActors, \A b \in RollupActors : b # a => tasks[b] = NoTask,
         WholeInv, GapInv, FitInv, TornInv
  PROVE  StacksOrdered(a)
<1>1. \A b \in RollupActors : b # a => /\ tasks[b].at = "idle" /\ tasks[b].todo = <<>> /\ ~Tearing(tasks[b])
                                       /\ \A p, t : ~Ahead(tasks[b], p, t)
  BY TheOthersAreIdle
<1>2. WholeFor(a)
  BY <1>1 DEF WholeInv, WholeFor, ListedStand, Bare
<1>3. GapFor(a)
  BY <1>1 DEF GapInv, GapFor, Absent, Bare
<1>4. FitFor(a)
  BY <1>1 DEF FitInv, FitFor, NarrowUnfit
<1>5. TornFor(a)
  BY DEF TornInv, TornFor
<1> QED
  BY <1>2, <1>3, <1>4, <1>5 DEF StacksOrdered

LEMMA OrderedNext ==
  ASSUME NEW a \in RollupActors, \A b \in RollupActors : b # a => tasks'[b] = NoTask, StacksOrdered(a)'
  PROVE  WholeInv' /\ GapInv' /\ FitInv' /\ TornInv'
<1>1. \A b \in RollupActors : b # a => tasks'[b].at = "idle"
  BY NoTaskIs
<1>2. WholeInv'
  BY DEF WholeInv, StacksOrdered, WholeFor, ListedStand, Bare
<1>3. GapInv'
  BY DEF GapInv, StacksOrdered, GapFor, Absent, Bare
<1>4. FitInv'
  BY DEF FitInv, StacksOrdered, FitFor, NarrowUnfit
<1>5. TornInv'
  BY <1>1 DEF TornInv, StacksOrdered, TornFor
<1> QED
  BY <1>2, <1>3, <1>4, <1>5

LEMMA OnwardAhead ==
  ASSUME NEW a, Onward(a), NEW p, NEW t \in 1..Tiers, Ahead(tasks[a], p, t) \/ p = Stack(a)
  PROVE  Ahead(tasks'[a], p, t)
<1>0. t \in Int /\ 1 <= t
  BY TiersIsMoreThanOne
<1> QED
  BY <1>0 DEF Onward, Ahead, Stack

LEMMA ScanKeepsOrder ==
  ASSUME RollupBase, NEW a \in RollupActors, StacksOrdered(a), SourcesFirst, ScanViews(a)
  PROVE  StacksOrdered(a)' /\ SourcesFirst'
<1>1. /\ tasks[a].at = "scan" /\ tasks[a].todo # <<>> /\ Onward(a)
      /\ tasks'[a].todo = tasks[a].todo /\ tasks'[a].force = tasks[a].force
      /\ \/ tasks'[a].at = "drop" /\ (tasks[a].force \/ Unfit(Stack(a)))
         \/ /\ DropList(Stack(a)) = <<>> \/ ~(tasks[a].force \/ Unfit(Stack(a)))
            /\ tasks'[a].at = "create"
  BY StackScanned DEF Onward
<1>2. views' = views /\ known' = known /\ Stack(a)' = Stack(a) /\ Stack(a) \in Stacks /\ StoredInv
  BY <1>1, TaskFields DEF ScanViews, Stack, RollupBase
<1>3. SourcesFirst'
  BY <1>2 DEF SourcesFirst
<1>4. ToSet(<<>>) = {}
  BY DEF ToSet
<1>5. Tearing(tasks[a]) /\ ~Tearing(tasks'[a]) => DOMAIN views = {}
  <2> SUFFICES ASSUME Tearing(tasks[a]), ~Tearing(tasks'[a]) PROVE DOMAIN views = {}
    OBVIOUS
  <2>1. Stack(a) = Shared /\ tasks[a].force /\ tasks'[a].at # "drop"
    BY <1>1 DEF Tearing, Stack
  <2>2. DropList(Shared) = <<>>
    BY <1>1, <2>1
  <2> QED
    BY <1>2, <1>4, <2>1, <2>2, DropListOf
<1>6. NarrowUnfit /\ Stack(a) = Shared => Unfit(Stack(a)) /\ DropList(Stack(a)) # <<>>
  <2> SUFFICES ASSUME NEW v \in DOMAIN views, v.stack = Shared, ~views[v].fits, Stack(a) = Shared
               PROVE  Unfit(Shared) /\ DropList(Shared) # <<>>
    BY DEF NarrowUnfit
  <2>1. v = ViewOf(Shared, v.tier) /\ v.tier \in 1..Tiers
    BY <1>2, ViewOfFields DEF StoredInv
  <2>2. v \in StackViews(Shared) /\ v \in ToSet(DropList(Shared))
    BY <1>2, <2>1, DropListOf DEF StackViews
  <2> QED
    BY <1>4, <2>2 DEF Unfit
<1>7. Unfit(Stack(a)) /\ Stack(a) = Shared => NarrowUnfit
  BY ViewOfFields DEF Unfit, NarrowUnfit, StackViews
<1>8. WholeFor(a)'
  BY <1>1, <1>2, <1>5 DEF StacksOrdered, WholeFor, ListedStand, Bare
<1>9. GapFor(a)'
  BY <1>1, <1>2, <1>5, OnwardAhead DEF StacksOrdered, GapFor, Bare
<1>10. FitFor(a)'
  BY <1>1, <1>2, <1>6 DEF StacksOrdered, FitFor, NarrowUnfit, ThenProtocols
<1>11. TornFor(a)'
  BY <1>1, <1>2, <1>7 DEF StacksOrdered, TornFor, FitFor, ThenProtocols
<1> QED
  BY <1>3, <1>8, <1>9, <1>10, <1>11 DEF StacksOrdered

\* A view of a wide stack that goes from the list has nothing listed on top of it.
LEMMA DropKeepsSources ==
  ASSUME RollupBase, SourcesFirst, PurgeInv, NEW a \in RollupActors, WholeFor(a),
         tasks[a].at = "drop", tasks[a].left # <<>>, tasks[a].todo # <<>>, Stack(a) # Shared,
         Head(tasks[a].left) \in DOMAIN views, known' = Without(known, Head(tasks[a].left))
  PROVE  SourcesFirst'
<1>1. PICK n \in 1..Tiers : Head(tasks[a].left) = ViewOf(Stack(a), n) /\ tasks[a].left = TopDown(Stack(a), n)
                         /\ ToSet(Tail(tasks[a].left)) = {ViewOf(Stack(a), t) : t \in 1..(n - 1)}
                         /\ ToSet(tasks[a].left) = {Head(tasks[a].left)} \cup ToSet(Tail(tasks[a].left))
  BY LeftOf DEF RollupBase
<1>2. PICK s : s = Stack(a)
  OBVIOUS
<1> DEFINE v == ViewOf(s, n)
           r == Without(known, v)
<1>3. s \in Wides /\ v \in DOMAIN views /\ ~Tearing(tasks[a])
  BY <1>1, <1>2, TaskFields DEF RollupBase, Tearing, Stack, Stacks
<1>4. v.stack = s /\ v.tier = n
  BY ViewOfFields
<1>5. ListedStand(s)
  BY <1>3, <1>4 DEF WholeFor, Bare
<1>6. \A w \in DOMAIN views : w.stack = s => \E t \in 1..n : w = ViewOf(s, t)
  <2>0. n \in Int /\ \A t \in 1..(n - 1) : t \in 1..n
    BY TiersIsMoreThanOne
  <2>1. \A w \in DOMAIN views : w.stack = s => w \in ToSet(tasks[a].left)
    BY <1>2 DEF PurgeInv
  <2>2. n \in 1..n
    BY <2>0
  <2> QED
    BY <1>1, <1>2, <2>0, <2>1, <2>2
<1>7. /\ r \in Seq(Views) /\ ToSet(r) = ToSet(known) \ {v}
      /\ \A j \in DOMAIN r : \E m \in DOMAIN known :
            /\ r[j] = known[m]
            /\ \A i \in 1..(m - 1) : known[i] # v => \E k \in 1..(j - 1) : r[k] = known[i]
  BY WithoutOne DEF RollupBase
<1>8. known' = r
  BY <1>1, <1>2
<1> HIDE DEF v, r
<1>9. ASSUME NEW j \in DOMAIN r, ~FromRaw(r[j]) PROVE \E i \in 1..(j - 1) : r[i] = SourceOf(r[j])
  <2>1. PICK m \in DOMAIN known : /\ r[j] = known[m]
            /\ \A i \in 1..(m - 1) : known[i] # v => \E k \in 1..(j - 1) : r[k] = known[i]
    BY <1>7
  <2>2. PICK i \in 1..(m - 1) : known[i] = SourceOf(known[m])
    BY <1>9, <2>1 DEF SourcesFirst
  <2>3. known[i] # v
    <3> SUFFICES ASSUME v = SourceOf(known[m]) PROVE FALSE
      BY <2>2
    <3> DEFINE w == known[m]
    <3>1. w \in Views /\ w \in ToSet(known)
      BY DEF RollupBase, KnownInv, ToSet
    <3>2. w.stack = s /\ w.tier - 1 = n
      BY <1>4, ViewOfFields DEF SourceOf
    <3>3. w \in DOMAIN views
      BY <1>5, <3>1, <3>2 DEF ListedStand
    <3>4. PICK t \in 1..n : w = ViewOf(s, t)
      BY <1>6, <3>2, <3>3
    <3>5. w.tier = t
      BY <3>4, ViewOfFields
    <3>6. n \in Int
      BY TiersIsMoreThanOne
    <3> QED
      BY <3>2, <3>5, <3>6
  <2> QED
    BY <2>1, <2>2, <2>3
<1> QED
  BY <1>8, <1>9 DEF SourcesFirst

LEMMA DropKeepsOrder ==
  ASSUME RollupBase, NEW a \in RollupActors, StacksOrdered(a), SourcesFirst, PurgeInv, DropView(a), ~failed'
  PROVE  StacksOrdered(a)' /\ SourcesFirst'
<1> DEFINE v == Head(tasks[a].left)
<1>1. /\ tasks[a].at = "drop" /\ tasks[a].left # <<>> /\ tasks[a].todo # <<>> /\ v \in Views /\ OthersStay(a)
      /\ \/ /\ v \in DOMAIN views /\ Gone(Fallen(v))
            /\ known' = IF Stack(a) = Shared THEN known ELSE Without(known, v)
         \/ v \notin DOMAIN views /\ UNCHANGED <<views, stale, known>>
      /\ \/ Raises(a)
         \/ /\ tasks'[a].at = "drop" /\ tasks'[a].todo = tasks[a].todo /\ tasks'[a].force = tasks[a].force
  BY DroppedIs
<1>2. tasks'[a].at = "drop" /\ tasks'[a].todo = tasks[a].todo /\ tasks'[a].force = tasks[a].force
  BY <1>1, RaisedIs
<1>3. Onward(a) /\ Stack(a)' = Stack(a) /\ Stack(a) \in Stacks /\ Shared \notin Wides /\ Tiers \in Nat
  BY <1>1, <1>2, TaskFields, TiersIsMoreThanOne DEF Onward, Stack, RollupBase
<1>4. SourcesFirst'
  <2>1. CASE known' = known
    BY <2>1 DEF SourcesFirst
  <2>2. CASE known' # known
    <3>1. Stack(a) # Shared /\ v \in DOMAIN views /\ known' = Without(known, v)
      BY <1>1, <2>2
    <3> QED
      BY <1>1, <3>1, DropKeepsSources DEF StacksOrdered
  <2> QED
    BY <2>1, <2>2
<1>5. Tearing(tasks'[a]) <=> Stack(a) = Shared
  BY <1>1, <1>2 DEF Tearing, Stack
<1>6. Tearing(tasks[a]) <=> Stack(a) = Shared
  BY <1>1 DEF Tearing, Stack
<1>7. \A w \in DOMAIN views' : w \in DOMAIN views /\ views'[w] = views[w]
  BY <1>1 DEF Gone
<1>8. FitFor(a)'
  <2> SUFFICES ASSUME NEW w \in DOMAIN views', w.stack = Shared, ~views'[w].fits
               PROVE  /\ known' = <<>> /\ tasks'[a].todo # <<>> /\ Stack(a)' = Shared
                      /\ tasks'[a].at \in {"scan", "drop"} /\ ThenProtocols(tasks'[a])
    BY DEF FitFor, NarrowUnfit
  <2>1. known = <<>> /\ Stack(a) = Shared /\ ThenProtocols(tasks[a])
    BY <1>7 DEF StacksOrdered, FitFor, NarrowUnfit
  <2> QED
    BY <1>1, <1>2, <1>3, <2>1 DEF ThenProtocols
<1>9. TornFor(a)'
  BY <1>1, <1>2, <1>3 DEF StacksOrdered, TornFor, ThenProtocols
<1>10. CASE Stack(a) = Shared
  BY <1>4, <1>5, <1>8, <1>9, <1>10 DEF StacksOrdered, WholeFor, GapFor
<1>11. CASE Stack(a) # Shared
  <2>1. PICK n \in 1..Tiers : /\ v = ViewOf(Stack(a), n)
                              /\ ToSet(Tail(tasks[a].left)) = {ViewOf(Stack(a), t) : t \in 1..(n - 1)}
                              /\ ToSet(tasks[a].left) = {v} \cup ToSet(Tail(tasks[a].left))
    BY <1>1, <1>11, LeftOf DEF RollupBase
  <2>2. v.stack = Stack(a) /\ v.tier = n /\ n \in Int
    BY <1>3, <2>1, ViewOfFields
  <2>3. \A w \in Fallen(v) : w.stack = Stack(a)
    BY <2>2 DEF Fallen, OnTopOf
  <2>4. ToSet(known') \subseteq ToSet(known) /\ (v \in DOMAIN views => v \notin ToSet(known'))
    <3>1. ToSet(Without(known, v)) = ToSet(known) \ {v}
      BY WithoutOne DEF RollupBase
    <3> QED
      BY <1>1, <1>11, <3>1
  <2>5. \A w \in DOMAIN views : w.stack # Stack(a) => w \in DOMAIN views'
    BY <1>1, <2>3 DEF Gone
  <2>6. WholeFor(a)'
    <3> SUFFICES ASSUME NEW p \in Wides PROVE ListedStand(p)' \/ Bare(p)'
      BY DEF WholeFor
    <3>1. ListedStand(p) \/ Bare(p)
      BY <1>1, <1>6, <1>11 DEF StacksOrdered, WholeFor
    <3>2. Bare(p) => Bare(p)'
      BY <1>7 DEF Bare
    <3>3. CASE ListedStand(p)
      <4> SUFFICES ASSUME NEW w \in ToSet(known'), w.stack = p PROVE w \in DOMAIN views'
        BY DEF ListedStand
      <4>1. w \in DOMAIN views
        BY <2>4, <3>3 DEF ListedStand
      <4>2. CASE p # Stack(a) \/ v \notin DOMAIN views
        BY <1>1, <2>5, <4>1, <4>2
      <4>3. CASE p = Stack(a) /\ v \in DOMAIN views
        <5>1. w \in ToSet(tasks[a].left) /\ w # v
          BY <1>1, <2>4, <4>1, <4>3 DEF PurgeInv
        <5>2. PICK t \in 1..(n - 1) : w = ViewOf(Stack(a), t)
          BY <2>1, <5>1
        <5>3. w.tier = t /\ t < n
          BY <2>2, <5>2, ViewOfFields
        <5>4. w \notin Fallen(v)
          BY <2>2, <5>1, <5>3 DEF Fallen, OnTopOf
        <5> QED
          BY <1>1, <4>1, <4>3, <5>4 DEF Gone
      <4> QED
        BY <4>2, <4>3
    <3> QED
      BY <3>1, <3>2, <3>3
  <2>7. GapFor(a)'
    <3> SUFFICES ASSUME NEW p \in Wides, NEW t \in 1..Tiers, ViewOf(p, t) \notin DOMAIN views'
                 PROVE  Ahead(tasks'[a], p, t) \/ Bare(p)'
      BY DEF GapFor
    <3>1. CASE p = Stack(a)
      BY <1>3, <3>1, OnwardAhead
    <3>2. CASE p # Stack(a)
      <4>1. ViewOf(p, t) \notin DOMAIN views
        BY <2>5, <3>2, ViewOfFields
      <4>2. Ahead(tasks[a], p, t) \/ Bare(p)
        BY <1>6, <1>11, <4>1 DEF StacksOrdered, GapFor
      <4> QED
        BY <1>3, <1>7, <4>2, OnwardAhead DEF Bare
    <3> QED
      BY <3>1, <3>2
  <2> QED
    BY <1>4, <1>8, <1>9, <2>6, <2>7 DEF StacksOrdered
<1> QED
  BY <1>10, <1>11

LEMMA PurgeEndKeepsOrder ==
  ASSUME RollupBase, NEW a \in RollupActors, StacksOrdered(a), SourcesFirst, PurgeInv, Purged(a)
  PROVE  StacksOrdered(a)' /\ SourcesFirst'
<1>1. /\ tasks[a].at = "drop" /\ tasks[a].left = <<>> /\ tasks[a].todo # <<>> /\ Onward(a)
      /\ tasks'[a].at = "create" /\ tasks'[a].todo = tasks[a].todo
  BY PurgeEnds DEF Onward
<1>2. views' = views /\ known' = (IF Stack(a) = Shared THEN <<>> ELSE known) /\ Stack(a)' = Stack(a)
  BY <1>1 DEF Purged, Stack
<1>3. ToSet(<<>>) = {} /\ DOMAIN <<>> = {}
  BY DEF ToSet
<1>4. SourcesFirst'
  BY <1>2, <1>3 DEF SourcesFirst
<1>5. Stack(a) = Shared => DOMAIN views = {}
  BY <1>1, <1>3 DEF PurgeInv
<1>6. Stack(a) # Shared => ~Tearing(tasks[a])
  BY DEF Tearing, Stack
<1>7. WholeFor(a)'
  BY <1>1, <1>2, <1>5, <1>6 DEF StacksOrdered, WholeFor, ListedStand, Bare
<1>8. GapFor(a)'
  BY <1>1, <1>2, <1>5, <1>6, OnwardAhead DEF StacksOrdered, GapFor, Bare
<1>9. FitFor(a)'
  BY <1>2, <1>5 DEF StacksOrdered, FitFor, NarrowUnfit
<1>10. TornFor(a)'
  BY <1>1 DEF TornFor
<1> QED
  BY <1>4, <1>7, <1>8, <1>9, <1>10 DEF StacksOrdered

LEMMA ColumnsKeepOrder ==
  ASSUME RollupBase, NEW a \in RollupActors, StacksOrdered(a), SourcesFirst, ColumnsDeleted(a)
  PROVE  StacksOrdered(a)' /\ SourcesFirst'
<1>1. /\ tasks[a].at = "drop" /\ tasks[a].todo # <<>> /\ Onward(a) /\ Stack(a) \in Wides /\ Shared \notin Wides
      /\ tasks'[a].at = "scan" /\ tasks'[a].todo = tasks[a].todo
  BY SetupFollows, TiersIsMoreThanOne DEF Onward
<1>2. views' = views /\ known' = known /\ Stack(a)' = Stack(a) /\ ~Tearing(tasks[a])
  BY <1>1 DEF ColumnsDeleted, Stack, Tearing
<1>3. SourcesFirst'
  BY <1>2 DEF SourcesFirst
<1>4. WholeFor(a)'
  BY <1>1, <1>2 DEF StacksOrdered, WholeFor, ListedStand, Bare
<1>5. GapFor(a)'
  BY <1>1, <1>2, OnwardAhead DEF StacksOrdered, GapFor, Bare
<1>6. FitFor(a)'
  BY <1>1, <1>2 DEF StacksOrdered, FitFor, NarrowUnfit
<1>7. TornFor(a)'
  BY <1>1 DEF TornFor
<1> QED
  BY <1>3, <1>4, <1>5, <1>6, <1>7 DEF StacksOrdered

LEMMA CreationKeepsOrder ==
  ASSUME RollupBase, NEW a \in RollupActors, StacksOrdered(a), SourcesFirst, PassInv, CreateView(a), ~failed'
  PROVE  StacksOrdered(a)' /\ SourcesFirst'
<1> DEFINE n == tasks[a].tier
           v == ViewOf(Stack(a), n)
<1>1. /\ tasks[a].at = "create" /\ tasks[a].todo # <<>> /\ n \in 1..Tiers /\ v \in Views
      /\ \/ /\ Created(a, v) /\ tasks'[a].at = "create" /\ tasks'[a].tier = n + 1 /\ tasks'[a].todo = tasks[a].todo
         \/ Raises(a)
  BY CreatedIs
<1>2. Created(a, v) /\ tasks'[a].at = "create" /\ tasks'[a].tier = n + 1 /\ tasks'[a].todo = tasks[a].todo
  BY <1>1, RaisedIs
<1>3. /\ Listed(v) \in Seq(Views) /\ ToSet(Listed(v)) = ToSet(known) \cup {v}
      /\ \A i \in DOMAIN known : i \in DOMAIN Listed(v) /\ Listed(v)[i] = known[i]
      /\ \A i \in DOMAIN Listed(v) : i \in DOMAIN known \/ (Listed(v)[i] = v /\ i = Len(known) + 1)
  BY <1>1, ListedOne DEF RollupBase
<1>4. /\ DOMAIN views' = DOMAIN views \cup {v} /\ known' = Listed(v)
      /\ \A w \in DOMAIN views : views'[w] = views[w]
      /\ v \notin DOMAIN views => views'[v].fits
  BY <1>2 DEF Created
<1>5. Stack(a)' = Stack(a) /\ ~Tearing(tasks[a]) /\ Tiers \in Nat /\ v.stack = Stack(a) /\ v.tier = n
  BY <1>1, <1>2, TiersIsMoreThanOne, ViewOfFields DEF Stack, Tearing
<1>6. SourcesFirst'
  <2> SUFFICES ASSUME NEW j \in DOMAIN Listed(v), ~FromRaw(Listed(v)[j])
               PROVE  \E i \in 1..(j - 1) : Listed(v)[i] = SourceOf(Listed(v)[j])
    BY <1>4 DEF SourcesFirst
  <2>0. known \in Seq(Views) /\ DOMAIN known = 1..Len(known) /\ Len(known) \in Nat
    BY DEF RollupBase, KnownInv
  <2>1. CASE j \in DOMAIN known
    <3>1. PICK i \in 1..(j - 1) : known[i] = SourceOf(known[j])
      BY <1>3, <2>1 DEF SourcesFirst
    <3>2. i \in DOMAIN known
      BY <2>0, <2>1
    <3> QED
      BY <1>3, <2>1, <3>1, <3>2
  <2>2. CASE Listed(v)[j] = v /\ j = Len(known) + 1
    <3>1. n - 1 \in 1..Tiers /\ n - 1 < n /\ SourceOf(v) = ViewOf(Stack(a), n - 1)
      BY <1>1, <1>5, <2>2, ViewOfFields DEF SourceOf
    <3>2. SourceOf(v) \in ToSet(known)
      BY <1>1, <3>1 DEF PassInv
    <3>3. PICK i \in DOMAIN known : known[i] = SourceOf(v)
      BY <3>2 DEF ToSet
    <3>4. i \in 1..(j - 1)
      BY <2>0, <2>2
    <3> QED
      BY <1>3, <2>2, <3>3, <3>4
  <2> QED
    BY <1>3, <2>1, <2>2
<1> HIDE DEF v
<1>7. WholeFor(a)'
  <2> SUFFICES ASSUME NEW p \in Wides, p # Stack(a) PROVE ListedStand(p)' \/ Bare(p)'
    BY <1>2, <1>5 DEF WholeFor
  <2>1. ListedStand(p) \/ Bare(p)
    BY <1>5 DEF StacksOrdered, WholeFor
  <2> QED
    BY <1>3, <1>4, <1>5, <2>1 DEF ListedStand, Bare
<1>8. GapFor(a)'
  <2> SUFFICES ASSUME NEW p \in Wides, NEW t \in 1..Tiers, ViewOf(p, t) \notin DOMAIN views'
               PROVE  Ahead(tasks'[a], p, t) \/ Bare(p)'
    BY DEF GapFor
  <2>1. ViewOf(p, t) \notin DOMAIN views /\ ~(p = Stack(a) /\ t = n)
    BY <1>4 DEF v
  <2>2. Ahead(tasks[a], p, t) \/ Bare(p)
    BY <1>5, <2>1 DEF StacksOrdered, GapFor
  <2>3. n <= t /\ t # n => n + 1 <= t
    BY <1>1, <1>5
  <2>4. Ahead(tasks[a], p, t) => Ahead(tasks'[a], p, t)
    BY <1>1, <1>2, <2>1, <2>3 DEF Ahead, Stack, n
  <2>5. p = Stack(a) => n <= t
    <3>1. t < n => ViewOf(Stack(a), t) \in DOMAIN views
      BY <1>1 DEF PassInv
    <3> QED
      BY <1>1, <1>5, <2>1, <3>1
  <2>6. p = Stack(a) => Ahead(tasks'[a], p, t)
    BY <1>1, <1>2, <2>1, <2>3, <2>5 DEF Ahead, Stack, n
  <2>7. p # Stack(a) /\ Bare(p) => Bare(p)'
    BY <1>4, <1>5 DEF Bare
  <2> QED
    BY <2>2, <2>4, <2>6, <2>7
<1>9. FitFor(a)'
  <2>1. ~NarrowUnfit
    BY <1>1 DEF StacksOrdered, FitFor
  <2>2. ~NarrowUnfit'
    BY <1>4, <2>1 DEF NarrowUnfit
  <2> QED
    BY <2>2 DEF FitFor
<1>10. TornFor(a)'
  BY <1>2 DEF TornFor
<1> QED
  BY <1>6, <1>7, <1>8, <1>9, <1>10 DEF StacksOrdered

LEMMA FinishKeepsOrder ==
  ASSUME RollupBase, NEW a \in RollupActors, StacksOrdered(a), SourcesFirst, PassInv, Finish(a)
  PROVE  StacksOrdered(a)' /\ SourcesFirst'
<1>1. /\ tasks[a].at = "create" /\ tasks[a].todo # <<>> /\ tasks[a].tier = Tiers + 1
      /\ tasks'[a].at \in {"idle", "scan"} /\ UNCHANGED <<views, known>>
      /\ \A p, t : Ahead(tasks'[a], p, t) <=> p \in ToSet(Tail(tasks[a].todo))
  BY FinishedIs
<1>2. Tiers \in Nat /\ ~Tearing(tasks[a])
  BY <1>1, TiersIsMoreThanOne DEF Tearing
<1>3. \A t \in 1..Tiers : ViewOf(Stack(a), t) \in DOMAIN views
  BY <1>1, <1>2 DEF PassInv
<1>4. SourcesFirst'
  BY <1>1 DEF SourcesFirst
<1>5. WholeFor(a)'
  <2> SUFFICES ASSUME NEW p \in Wides PROVE ListedStand(p)' \/ Bare(p)'
    BY DEF WholeFor
  <2>1. CASE p = Stack(a)
    <3>1. \A v \in ToSet(known) : v = ViewOf(v.stack, v.tier) /\ v.tier \in 1..Tiers
      BY ViewOfFields DEF RollupBase, KnownInv, ToSet
    <3> QED
      BY <1>1, <1>3, <2>1, <3>1 DEF ListedStand
  <2>2. CASE p # Stack(a)
    BY <1>1, <1>2, <2>2 DEF StacksOrdered, WholeFor, ListedStand, Bare
  <2> QED
    BY <2>1, <2>2
<1>6. GapFor(a)'
  <2> SUFFICES ASSUME NEW p \in Wides, NEW t \in 1..Tiers, ViewOf(p, t) \notin DOMAIN views
               PROVE  Ahead(tasks'[a], p, t) \/ Bare(p)'
    BY <1>1 DEF GapFor
  <2>1. p # Stack(a)
    BY <1>3
  <2>2. Ahead(tasks[a], p, t) \/ Bare(p)
    BY <1>2 DEF StacksOrdered, GapFor
  <2>3. Ahead(tasks[a], p, t) => Ahead(tasks'[a], p, t)
    BY <1>1, <2>1 DEF Ahead, Stack
  <2>4. Bare(p) => Bare(p)'
    BY <1>1 DEF Bare
  <2> QED
    BY <2>2, <2>3, <2>4
<1>7. FitFor(a)'
  BY <1>1 DEF StacksOrdered, FitFor, NarrowUnfit
<1>8. TornFor(a)'
  BY <1>1 DEF TornFor
<1> QED
  BY <1>4, <1>5, <1>6, <1>7, <1>8 DEF StacksOrdered

LEMMA StumbleKeepsOrder ==
  ASSUME RollupBase, NEW a \in RollupActors, StacksOrdered(a), SourcesFirst, SetupStumbles(a), ~failed'
  PROVE  StacksOrdered(a)' /\ SourcesFirst'
<1>1. /\ tasks[a].at \in {"drop", "create"} /\ tasks[a].todo # <<>> /\ UNCHANGED <<views, known>> /\ OthersStay(a)
      /\ \/ Raises(a)
         \/ /\ Stack(a) = Shared /\ tasks'[a].at = "scan"
            /\ tasks'[a].todo = tasks[a].todo /\ tasks'[a].force = tasks[a].force
  BY StumbledIs
<1>2. Stack(a) = Shared /\ tasks'[a].at = "scan" /\ tasks'[a].todo = tasks[a].todo /\ tasks'[a].force = tasks[a].force
  BY <1>1, RaisedIs
<1>3. Onward(a) /\ Stack(a)' = Stack(a) /\ Shared \notin Wides /\ Tiers \in Nat
  BY <1>1, <1>2, TiersIsMoreThanOne DEF Onward, Stack
<1>4. SourcesFirst'
  BY <1>1 DEF SourcesFirst
<1>5. Tearing(tasks'[a]) <=> tasks[a].force
  BY <1>1, <1>2 DEF Tearing, Stack
<1>6. ~tasks[a].force /\ tasks[a].at = "drop" => known = <<>> /\ ThenProtocols(tasks[a])
  BY <1>2 DEF StacksOrdered, TornFor
<1>7. tasks[a].at = "create" => ~Tearing(tasks[a])
  BY DEF Tearing
<1>8. ToSet(<<>>) = {}
  BY DEF ToSet
<1>9. WholeFor(a)'
  <2> SUFFICES ASSUME ~tasks[a].force, NEW p \in Wides PROVE ListedStand(p)' \/ Bare(p)'
    BY <1>5 DEF WholeFor
  <2>1. CASE tasks[a].at = "drop"
    BY <1>1, <1>6, <1>8, <2>1 DEF ListedStand
  <2>2. CASE tasks[a].at = "create"
    BY <1>1, <1>2, <1>3, <1>7, <2>2 DEF StacksOrdered, WholeFor, ListedStand, Bare
  <2> QED
    BY <1>1, <2>1, <2>2
<1>10. GapFor(a)'
  <2> SUFFICES ASSUME ~tasks[a].force, NEW p \in Wides, NEW t \in 1..Tiers, ViewOf(p, t) \notin DOMAIN views
               PROVE  Ahead(tasks'[a], p, t) \/ Bare(p)'
    BY <1>1, <1>5 DEF GapFor
  <2>1. CASE tasks[a].at = "drop"
    BY <1>1, <1>2, <1>6, <2>1 DEF ThenProtocols, Ahead
  <2>2. CASE tasks[a].at = "create"
    <3>1. Ahead(tasks[a], p, t) \/ Bare(p)
      BY <1>7, <2>2 DEF StacksOrdered, GapFor
    <3> QED
      BY <1>1, <1>3, <3>1, OnwardAhead DEF Bare
  <2> QED
    BY <1>1, <2>1, <2>2
<1>11. FitFor(a)'
  BY <1>1, <1>2, <1>3 DEF StacksOrdered, FitFor, NarrowUnfit, ThenProtocols
<1>12. TornFor(a)'
  BY <1>2 DEF TornFor
<1> QED
  BY <1>4, <1>9, <1>10, <1>11, <1>12 DEF StacksOrdered

LEMMA RestartKeepsOrder ==
  ASSUME RollupBase, Restarts
  PROVE  SourcesFirst' /\ WholeInv' /\ GapInv' /\ FitInv' /\ TornInv'
<1>1. PICK drifted \in BOOLEAN, grown \in BOOLEAN : RestartRollups(drifted, grown)
  BY DEF Restarts
<1>2. /\ tasks'["main"].at = "scan" /\ tasks'["main"].todo # <<>> /\ Stack("main")' = Shared
      /\ \A p \in Stacks : \A t : Ahead(tasks'["main"], p, t)
      /\ \A a \in RollupActors : tasks'[a].at \in {"idle", "scan"}
      /\ known' = <<>>
  BY <1>1, RestartedIs
<1>3. "main" \in RollupActors /\ Wides \subseteq Stacks /\ Shared \notin Wides
  BY RollupsAssumption, TiersIsMoreThanOne
<1>4. ThenProtocols(tasks'["main"])
  <2> SUFFICES ASSUME NEW p \in Wides PROVE p \in ToSet(Tail(tasks'["main"].todo))
    BY DEF ThenProtocols
  <2>1. Ahead(tasks'["main"], p, 1) /\ p # Head(tasks'["main"].todo)
    BY <1>2, <1>3 DEF Stack
  <2> QED
    BY <2>1 DEF Ahead
<1>5. ToSet(<<>>) = {} /\ DOMAIN <<>> = {}
  BY DEF ToSet
<1>6. SourcesFirst' /\ WholeInv'
  BY <1>2, <1>5 DEF SourcesFirst, WholeInv
<1>7. GapInv'
  BY <1>2, <1>3 DEF GapInv
<1>8. FitInv'
  BY <1>2, <1>3, <1>4 DEF FitInv
<1>9. TornInv'
  BY <1>2 DEF TornInv
<1> QED
  BY <1>6, <1>7, <1>8, <1>9

LEMMA AsideKeepsOrder ==
  ASSUME RollupBase, Calm, ~uncertain', Repopulate \/ SomeTaskBegins \/ NoSetupStep
  PROVE  SourcesFirst' /\ WholeInv' /\ GapInv' /\ FitInv' /\ TornInv'
<1>1. CASE Repopulate
  <2>1. /\ OthersStay("main") /\ "main" \in RollupActors /\ tasks["main"].todo = <<>> /\ tasks["main"] # NoTask
        /\ tasks'["main"] = NoTask /\ ToSet(known') = Views /\ SourcesFirst' /\ views' = views
    BY <1>1, RepopulatedIs
  <2>2. \A b \in RollupActors : (b # "main" => tasks[b] = NoTask) /\ tasks'[b] = NoTask
    BY <2>1 DEF Calm, OneTask, OthersStay
  <2>3. StacksOrdered("main")
    BY <2>1, <2>2, OrderedSays DEF Calm
  <2>4. ~Tearing(tasks["main"]) /\ \A p, t : ~Ahead(tasks["main"], p, t)
    BY <2>1 DEF Tearing, Ahead
  <2>5. \A p \in Wides : Bare(p) \/ \A t \in 1..Tiers : ViewOf(p, t) \in DOMAIN views
    BY <2>3, <2>4 DEF StacksOrdered, GapFor
  <2>6. WholeFor("main")'
    <3> SUFFICES ASSUME NEW p \in Wides PROVE ListedStand(p)' \/ Bare(p)'
      BY DEF WholeFor
    <3>1. \A v \in Views : v = ViewOf(v.stack, v.tier) /\ v.tier \in 1..Tiers
      BY ViewOfFields
    <3> QED
      BY <2>1, <2>5, <3>1 DEF ListedStand, Bare
  <2>7. GapFor("main")'
    BY <2>1, <2>5 DEF GapFor, Bare
  <2>8. FitFor("main")'
    BY <2>1, <2>3 DEF StacksOrdered, FitFor, NarrowUnfit
  <2>9. TornFor("main")'
    BY <2>1, NoTaskIs DEF TornFor
  <2> QED
    BY <2>1, <2>2, <2>6, <2>7, <2>8, <2>9, OrderedNext DEF StacksOrdered
<1>2. CASE SomeTaskBegins
  <2>1. PICK a \in RollupActors : \E k : /\ Begun(k) /\ tasks'[a] = k
                                    /\ \A b \in RollupActors : tasks[b] = NoTask /\ (b # a => tasks'[b] = NoTask)
                                    /\ UNCHANGED <<views, stale, known, complete, robbed, broken, failed>>
    BY <1>2, BeginsAlone
  <2>2. /\ Begun(tasks'[a]) /\ UNCHANGED <<views, known>> /\ tasks[a] = NoTask
        /\ \A b \in RollupActors : (b # a => tasks[b] = NoTask) /\ (b # a => tasks'[b] = NoTask)
    BY <2>1
  <2>3. StacksOrdered(a)
    BY <2>2, OrderedSays DEF Calm
  <2>4. /\ tasks[a].at = "idle" /\ tasks[a].todo = <<>> /\ ~Tearing(tasks[a]) /\ \A p, t : ~Ahead(tasks[a], p, t)
    BY <2>2, TheOthersAreIdle
  <2>5. WholeFor(a)'
    BY <2>2, <2>3, <2>4 DEF StacksOrdered, WholeFor, ListedStand, Bare
  <2>6. GapFor(a)'
    BY <2>2, <2>3, <2>4 DEF StacksOrdered, GapFor, Bare
  <2>7. FitFor(a)'
    BY <2>2, <2>3, <2>4 DEF StacksOrdered, FitFor, NarrowUnfit
  <2>8. TornFor(a)'
    BY <2>2, TiersIsMoreThanOne DEF TornFor, Begun, Stack
  <2>9. SourcesFirst'
    BY <2>2 DEF Calm, SourcesFirst
  <2> QED
    BY <2>2, <2>5, <2>6, <2>7, <2>8, <2>9, OrderedNext DEF StacksOrdered
<1>3. CASE NoSetupStep
  <2>1. UNCHANGED <<views, known, tasks>>
    BY <1>3, NoSetupStepIs
  <2> QED
    BY <2>1 DEF Calm, SourcesFirst, WholeInv, GapInv, Absent, FitInv, TornInv, Stack
<1> QED
  BY <1>1, <1>2, <1>3

LEMMA OrderStep ==
  ASSUME RollupBase, ~uncertain /\ ~failed => Calm, RollupNext, ~uncertain', ~failed'
  PROVE  SourcesFirst' /\ WholeInv' /\ GapInv' /\ FitInv' /\ TornInv'
<1>1. CASE Restarts
  BY <1>1, RestartKeepsOrder
<1>2. CASE ~Restarts
  <2>1. Calm
    BY <1>2, StepContinues DEF Continues
  <2>2. ASSUME NEW a \in RollupActors, SetupAct(a)
        PROVE  SourcesFirst' /\ WholeInv' /\ GapInv' /\ FitInv' /\ TornInv'
    <3>1. \A b \in RollupActors : b # a => tasks[b] = NoTask /\ tasks'[b] = NoTask
      BY <2>1, <2>2, WorksAlone DEF Calm
    <3>2. StacksOrdered(a) /\ SourcesFirst /\ PurgeInv /\ PassInv
      BY <2>1, <3>1, OrderedSays DEF Calm
    <3>3. StacksOrdered(a)' /\ SourcesFirst'
      <4>1. CASE ScanViews(a)
        BY <3>2, <4>1, ScanKeepsOrder
      <4>2. CASE DropView(a)
        BY <3>2, <4>2, DropKeepsOrder
      <4>3. CASE Purged(a)
        BY <3>2, <4>3, PurgeEndKeepsOrder
      <4>4. CASE ColumnsDeleted(a)
        BY <3>2, <4>4, ColumnsKeepOrder
      <4>5. CASE CreateView(a)
        BY <3>2, <4>5, CreationKeepsOrder
      <4>6. CASE Finish(a)
        BY <3>2, <4>6, FinishKeepsOrder
      <4>7. CASE SetupStumbles(a)
        BY <3>2, <4>7, StumbleKeepsOrder
      <4> QED
        BY <2>2, <4>1, <4>2, <4>3, <4>4, <4>5, <4>6, <4>7 DEF SetupAct
    <3> QED
      BY <3>1, <3>3, OrderedNext
  <2> QED
    BY <1>2, <2>1, <2>2, AsideKeepsOrder, RollupCases
<1> QED
  BY <1>1, <1>2

----------------------------------------------------------------------------
(* Views that are built, listed, and refreshed after their sources. *)

LEMMA RollupStep == RollupInv /\ [RollupNext]_rollupVars => RollupInv'
<1> SUFFICES ASSUME RollupInv, [RollupNext]_rollupVars PROVE RollupInv'
  OBVIOUS
<1>0. /\ RollupBase /\ (~uncertain => OneTask) /\ (Careful => BuiltInv /\ LackingInv)
      /\ (~uncertain => PurgeInv /\ PassInv /\ ListInv)
      /\ (~uncertain /\ ~failed => SourcesFirst /\ WholeInv /\ GapInv /\ FitInv /\ TornInv)
  BY DEF RollupInv, Careful
<1>1. CASE RollupNext
  <2>1. RollupBase'
    BY <1>0, BaseStep
  <2>2. ~uncertain' => OneTask'
    BY <1>0, <1>1, OneTaskStep
  <2>3. Careful' => BuiltInv' /\ LackingInv'
    BY <1>0, <1>1, BuiltStep, LackingStep
  <2>4. ~uncertain' => PurgeInv' /\ PassInv' /\ ListInv'
    BY <1>0, <1>1, PurgeStep, PassStep, ListStep
  <2>5. ~uncertain' /\ ~failed' => SourcesFirst' /\ WholeInv' /\ GapInv' /\ FitInv' /\ TornInv'
    <3>1. ~uncertain /\ ~failed => Calm
      BY <1>0 DEF Calm
    <3> QED
      BY <1>0, <1>1, <3>1, OrderStep
  <2> QED
    BY <2>1, <2>2, <2>3, <2>4, <2>5 DEF RollupInv, Careful
<1>2. CASE UNCHANGED rollupVars
  <2>1. /\ views' = views /\ stale' = stale /\ known' = known /\ complete' = complete /\ tasks' = tasks
        /\ robbed' = robbed /\ broken' = broken /\ rollupErrors' = rollupErrors
    BY <1>2 DEF rollupVars, rollupHistory, rollupBounds
  <2>2. uncertain' = uncertain /\ failed' = failed
    BY <1>2 DEF rollupVars, rollupHistory
  <2>3. RollupBase'
    BY <1>0, BaseStep
  <2>4. OneTask' <=> OneTask
    BY <2>1 DEF OneTask
  <2>5. (BuiltInv' <=> BuiltInv) /\ (LackingInv' <=> LackingInv)
    BY <2>1 DEF BuiltInv, LackingInv, Absent
  <2>6. (PurgeInv' <=> PurgeInv) /\ (PassInv' <=> PassInv) /\ (ListInv' <=> ListInv)
    BY <2>1 DEF PurgeInv, PassInv, ListInv, Stack
  <2>7. (SourcesFirst' <=> SourcesFirst) /\ (WholeInv' <=> WholeInv) /\ (GapInv' <=> GapInv)
        /\ (FitInv' <=> FitInv) /\ (TornInv' <=> TornInv)
    BY <2>1 DEF SourcesFirst, WholeInv, GapInv, Absent, FitInv, TornInv, Stack
  <2>8. Careful' <=> Careful
    BY <2>1, <2>2 DEF Careful
  <2> QED
    BY <1>0, <2>2, <2>3, <2>4, <2>5, <2>6, <2>7, <2>8, Zenon DEF RollupInv, Careful
<1> QED
  BY <1>1, <1>2

\* A list in which no view is twice is as long as the set of its views.
LEMMA ListedOnce == RollupBase => ToSet(known) \subseteq Views /\ Len(known) = Cardinality(ToSet(known))
<1> SUFFICES ASSUME RollupBase PROVE ToSet(known) \subseteq Views /\ Len(known) = Cardinality(ToSet(known))
  OBVIOUS
<1> DEFINE n == Len(known)
           R == ToSet(known)
<1>1. known \in [1..n -> Views] /\ n \in Nat /\ DOMAIN known = 1..n /\ \A i, j \in 1..n : known[i] = known[j] => i = j
  BY DEF RollupBase, KnownInv
<1>2. R = {known[i] : i \in 1..n}
  BY <1>1 DEF ToSet
<1> HIDE DEF n, R
<1>3. known \in [1..n -> R]
  BY <1>1, <1>2
<1>4. known \in Bijection(1..n, R)
  BY <1>1, <1>2, <1>3 DEF Bijection, Injection, Surjection, IsInjective
<1>5. ExistsBijection(1..n, R)
  BY <1>4 DEF ExistsBijection
<1>6. IsFiniteSet(1..n) /\ Cardinality(1..n) = n
  BY <1>1, FS_Interval
<1>7. Cardinality(R) = n
  BY <1>5, <1>6, FS_Bijection
<1> QED
  BY <1>1, <1>2, <1>7 DEF n, R

LEMMA RollupsAreTyped == RollupInv => RollupTypeOK
<1> SUFFICES ASSUME RollupInv PROVE RollupTypeOK
  OBVIOUS
<1>1. ToSet(known) \subseteq Views /\ Len(known) = Cardinality(ToSet(known))
  BY ListedOnce DEF RollupInv
<1> QED
  BY <1>1 DEF RollupInv, RollupBase, TasksInv, StoredInv, RollupTypeOK

LEMMA IdleIsDone == AllIdle => \A p, t : ~SomeAhead(p, t)
  BY NoTaskIs DEF AllIdle, SomeAhead

LEMMA RollupsFollow == RollupInv => RollupsAreTrue
<1> SUFFICES ASSUME RollupInv PROVE RollupsAreTrue
  OBVIOUS
<1>1. CompleteIsBuilt
  <2> SUFFICES ASSUME AllIdle, ~(uncertain /\ rollupErrors > 0), NEW p \in complete \ (robbed \cup broken),
                      NEW t \in 1..Tiers, ViewOf(p, t) \notin DOMAIN views
               PROVE  FALSE
    BY DEF CompleteIsBuilt, Missing, StackViews
  <2>1. BuiltInv /\ p \in Wides \ robbed
    BY DEF RollupInv, RollupBase, StoredInv
  <2> QED
    BY <2>1, BuiltSays, IdleIsDone
<1>2. BuiltIsRefreshed
  <2> SUFFICES ASSUME AllIdle, ~uncertain, broken = {}, NEW v \in DOMAIN views PROVE v \in ToSet(known)
    BY DEF BuiltIsRefreshed
  <2>1. ListInv
    BY DEF RollupInv
  <2> QED
    BY <2>1, ListSays, IdleIsDone DEF IsListed
<1>3. RefreshIsBottomUp
  <2> SUFFICES ASSUME ~uncertain, ~failed, NEW i \in 1..Len(known), NEW j \in 1..Len(known),
                      ~FromRaw(known[i]), known[j] = SourceOf(known[i])
               PROVE  j < i
    BY DEF RefreshIsBottomUp, BottomUp
  <2>1. SourcesFirst /\ KnownInv
    BY DEF RollupInv, RollupBase
  <2>2. Len(known) \in Nat /\ DOMAIN known = 1..Len(known) /\ i \in Int
    BY <2>1 DEF KnownInv
  <2>3. PICK m \in 1..(i - 1) : known[m] = SourceOf(known[i])
    BY <2>1, <2>2 DEF SourcesFirst
  <2>4. m \in 1..Len(known) /\ m < i
    BY <2>2
  <2>5. m = j
    BY <2>1, <2>2, <2>3, <2>4 DEF KnownInv
  <2> QED
    BY <2>4, <2>5
<1> QED
  BY <1>1, <1>2, <1>3 DEF RollupsAreTrue

\* RollupManager, for every number of protocols and tiers: a protocol that carries
\* rollup_setup_complete has its stack, as long as no purge of the narrow stack and no failed
\* set-up took views from it; between set-ups each view that exists is on the refresh list,
\* which holds a view after its source.
THEOREM RollupsStayTrue == RollupSpec => [](RollupTypeOK /\ RollupsAreTrue)
<1>1. RollupInv /\ [RollupNext]_rollupVars => RollupInv'
  BY RollupStep
<1>2. RollupInv => RollupTypeOK /\ RollupsAreTrue
  BY RollupsAreTyped, RollupsFollow
<1> QED
  BY RollupInitially, <1>1, <1>2, PTL DEF RollupSpec

----------------------------------------------------------------------------
(* The values of the tables, and edits of them. A table never has two       *)
(* values of one field at one time, whatever is written between an edit's   *)
(* reading and its writing, and whichever of the two tables it reached.     *)

\* What a table holds at first has one value for a key; what a wide one holds, and the
\* bridge writes, has a column there.
FittingStore ==
    /\ IsFunction(Stored)
    /\ "wide" \in Destinations => FieldsOf(Stored) \cup DOMAIN LiveValues \subseteq DOMAIN ColumnType

DataFields == FieldsOf(Stored) \cup DOMAIN LiveValues \cup DOMAIN ColumnType
ValuePlans ==
    [from : {r.from : r \in EditRanges}, to : {r.to : r \in EditRanges}, action : {"delete", "set_value"},
     fields : (SUBSET DataFields) \ {{}}, value : {V("string", n) : n \in NewValues \cup {NoText}}, also : BOOLEAN]

ValueShape ==
    /\ dest \in Destinations /\ IsFunction(points) /\ IsFunction(narrow) /\ IsFunction(fetched)
    /\ FieldsOf(points) \cup FieldsOf(narrow) \cup FieldsOf(fetched) \subseteq DataFields
    /\ dest = "wide" => FieldsOf(points) \subseteq DOMAIN ColumnType
    /\ exporting = NotExporting /\ importing = NotImporting /\ paused = {} /\ unpaused = {}
    /\ plans \in Seq(ValuePlans)
    /\ editStep \in {"idle", "write", "narrow"} /\ (editStep # "idle" => plans # <<>>)
    /\ editStep = "write" => Influx
    /\ requested # {} => dest = "v3"
    /\ nullRows \cap {p[1] : p \in points} = {} /\ (dest # "wide" => nullRows = {})

\* The destination is that of the start.
LEMMA PlansAreTyped ==
  ASSUME ValueShape, NEW plan \in Plans
  PROVE  plan \in ValuePlans /\ (plan.also => dest = "wide") /\ plan.fields \subseteq KnownFields
         /\ \E r \in EditRanges : plan.from = r.from /\ plan.to = r.to
<1>1. KnownFields \subseteq DataFields
  BY DEF KnownFields, ValueShape, DataFields, Table
<1> DEFINE Companioned == IF dest = "wide" THEN BOOLEAN ELSE {FALSE}
           Plan(r, fs, n, also) ==
             [from |-> r.from, to |-> r.to, action |-> IF n = NoText THEN "delete" ELSE "set_value",
              fields |-> fs, value |-> V("string", n), also |-> also]
<1>2. Plans = {Plan(r, fs, n, also) : r \in EditRanges, fs \in (SUBSET KnownFields) \ {{}},
                                      n \in NewValues \cup {NoText}, also \in Companioned}
  BY SMT DEF Plans
<1>3. SUFFICES ASSUME NEW r \in EditRanges, NEW fs \in (SUBSET KnownFields) \ {{}}, NEW n \in NewValues \cup {NoText},
                      NEW also \in Companioned, plan = Plan(r, fs, n, also)
               PROVE  plan \in ValuePlans /\ (plan.also => dest = "wide") /\ plan.fields \subseteq KnownFields
                      /\ \E x \in EditRanges : plan.from = x.from /\ plan.to = x.to
  <2> HIDE DEF Companioned, Plan
  <2> QED BY <1>2
<1>4. plan.fields = fs /\ plan.also = also /\ plan.from = r.from /\ plan.to = r.to
  BY <1>3
<1>5. fs \in (SUBSET DataFields) \ {{}} /\ also \in BOOLEAN /\ V("string", n) \in {V("string", m) : m \in NewValues \cup {NoText}}
      /\ r.from \in {x.from : x \in EditRanges} /\ r.to \in {x.to : x \in EditRanges}
  BY <1>1
<1>6. plan \in ValuePlans
  BY <1>3, <1>5 DEF ValuePlans
<1> QED BY <1>4, <1>6

\* The first of the plans, and the others.
LEMMA FirstPlan ==
  ASSUME ValueShape, plans # <<>>
  PROVE  /\ First \in ValuePlans /\ Tail(plans) \in Seq(ValuePlans) /\ Tail(plans) # plans
         /\ \A i \in 1..Len(Tail(plans)) : i + 1 \in 1..Len(plans) /\ Tail(plans)[i] = plans[i + 1]
<1>1. plans \in Seq(ValuePlans) /\ Len(plans) \in Nat /\ Len(plans) >= 1 /\ plans[1] \in ValuePlans
  BY DEF ValueShape
<1>2. /\ Len(Tail(plans)) = Len(plans) - 1 /\ Tail(plans) \in Seq(ValuePlans) /\ Head(plans) = plans[1]
      /\ \A i \in 1..Len(Tail(plans)) : Tail(plans)[i] = plans[i + 1]
  BY <1>1, HeadTailProperties
<1> DEFINE rest == Tail(plans)
<1> HIDE DEF rest
<1>3. \A i \in 1..Len(rest) : i + 1 \in 1..Len(plans) /\ rest[i] = plans[i + 1]
  BY <1>1, <1>2 DEF rest
<1>4. Len(rest) # Len(plans)
  <2>1. Len(rest) = Len(plans) - 1
    BY <1>2, Zenon DEF rest
  <2> QED BY ONLY <1>1, <2>1
<1>5. rest # plans
  BY <1>4, Zenon
<1>6. First \in ValuePlans
  BY <1>1, <1>2, Zenon DEF First
<1> QED BY <1>2, <1>3, <1>5, <1>6, Zenon DEF rest

\* A reading is written where there is none, to both tables of its protocol.
LEMMA LiveKeepsShape ==
  ASSUME FittingStore, ValueShape, NEW t \in LiveTimes, WriteAmidEdits(t)
  PROVE  ValueShape'
<1> DEFINE reading == {<<t, f, LiveValues[f]>> : f \in DOMAIN LiveValues}
           mirrored == {<<p[1], p[2], Mirrored(p[3])>> : p \in reading}
<1>1. /\ t \notin nullRows /\ PointsAt(points, t) = {} /\ PointsAt(narrow, t) = {}
      /\ points' = (IF dest = "narrow" THEN points ELSE points \cup reading)
      /\ narrow' = (IF Influx THEN narrow ELSE narrow \cup mirrored)
      /\ UNCHANGED <<dest, exporting, paused, unpaused, plans, nullRows, editStep, fetched, requested>>
      /\ importing' = importing
  BY DEF WriteAmidEdits, LiveWrite, editVars, shiftBounds, ValueShape, NotImporting
<1>2. \A p \in reading : p[1] = t /\ p[2] \in DOMAIN LiveValues /\ p = <<t, p[2], LiveValues[p[2]]>>
  OBVIOUS
<1>3. \A p \in mirrored : p[1] = t /\ p[2] \in DOMAIN LiveValues /\ p = <<t, p[2], Mirrored(LiveValues[p[2]])>>
  BY <1>2
<1> HIDE DEF reading, mirrored
<1>4. IsFunction(points') /\ IsFunction(narrow')
  BY <1>1, <1>2, <1>3 DEF ValueShape, IsFunction, PointsAt
<1>5. FieldsOf(points') \cup FieldsOf(narrow') \subseteq DataFields /\ (dest = "wide" => FieldsOf(points') \subseteq DOMAIN ColumnType)
  BY <1>1, <1>2, <1>3 DEF ValueShape, FieldsOf, DataFields, FittingStore
<1>6. nullRows \cap {p[1] : p \in points'} = {}
  BY <1>1, <1>2 DEF ValueShape
<1> QED BY <1>1, <1>4, <1>5, <1>6 DEF ValueShape, Influx

\* The screens themselves.
LEMMA ScreensKeepShape ==
  ASSUME ValueShape, NEW plan \in Plans, Preview(plan) \/ StageValueEdit(plan)
  PROVE  ValueShape'
<1>1. UNCHANGED <<dest, points, narrow, exporting, importing, paused, unpaused, nullRows, editStep, fetched, requested>>
  BY DEF Preview, StageValueEdit, elsewhere
<1>2. plans' = plans \/ (plans' = Append(plans, plan) /\ editStep = "idle")
  BY DEF Preview, StageValueEdit
<1>3. plan \in ValuePlans
  BY PlansAreTyped
<1>4. plans' \in Seq(ValuePlans) /\ (editStep # "idle" => plans' # <<>>)
  BY <1>2, <1>3 DEF ValueShape
<1> QED BY <1>1, <1>4 DEF ValueShape, Influx

\* The edits of a measurement.
LEMMA InfluxKeepsShape ==
  ASSUME ValueShape, FetchRows \/ RewriteRows \/ DeletePoints \/ RequestDeletion \/ CarryOutDeletion
  PROVE  ValueShape'
<1>1. UNCHANGED <<dest, narrow, exporting, importing, paused, unpaused, nullRows>>
  BY DEF FetchRows, RewriteRows, DeletePoints, RequestDeletion, CarryOutDeletion, elsewhere
<1>2. plans # <<>> => First \in ValuePlans /\ Tail(plans) \in Seq(ValuePlans)
  BY FirstPlan
<1>0. requested' # {} => dest = "v3"
  BY DEF FetchRows, RewriteRows, DeletePoints, RequestDeletion, CarryOutDeletion, ValueShape
<1>3. CASE FetchRows
  <2>1. /\ fetched' = {<<p[1], f, NewValueOf(First, f)>> : p \in InSlices(points, First), f \in First.fields}
        /\ points' = points /\ plans' = plans /\ plans # <<>> /\ editStep' = "write" /\ Influx
    BY <1>3 DEF FetchRows
  <2> DEFINE source == InSlices(points, First)
             plan == First
  <2> HIDE DEF source, plan
  <2>2. \A q \in fetched' : q[2] \in plan.fields /\ q[3] = NewValueOf(plan, q[2]) /\ q = <<q[1], q[2], q[3]>>
    <3>1. fetched' = {<<p[1], f, NewValueOf(plan, f)>> : p \in source, f \in plan.fields}
      BY <2>1 DEF source, plan
    <3> SUFFICES ASSUME NEW q \in fetched' PROVE q[2] \in plan.fields /\ q[3] = NewValueOf(plan, q[2]) /\ q = <<q[1], q[2], q[3]>>
      OBVIOUS
    <3>2. \E p \in source, f \in plan.fields : q = <<p[1], f, NewValueOf(plan, f)>>
      BY <3>1, SMT
    <3>3. \A p \in source, f \in plan.fields : <<p[1], f, NewValueOf(plan, f)>>[2] = f /\ <<p[1], f, NewValueOf(plan, f)>>[3] = NewValueOf(plan, f)
      OBVIOUS
    <3> QED BY <3>2, <3>3
  <2>3. IsFunction(fetched') /\ FieldsOf(fetched') \subseteq DataFields
    <3>1. IsFunction(fetched')
      BY <2>2, Zenon DEF IsFunction
    <3>2. plan.fields \subseteq DataFields
      BY <1>2, <2>1 DEF ValuePlans, plan
    <3> QED BY <2>2, <3>1, <3>2 DEF FieldsOf
  <2> QED BY <1>0, <1>1, <2>1, <2>3 DEF ValueShape, Influx
<1>4. CASE RewriteRows
  <2>1. fetched' = {} /\ editStep' = "idle" /\ plans # <<>> /\ dest # "wide"
    BY <1>4 DEF RewriteRows, FinishEdit, LeaveEdit, ValueShape, Influx
  <2>2. plans' \in {plans, Tail(plans)}
    BY <1>4 DEF RewriteRows, FinishEdit, LeaveEdit
  <2>3. points' = points \/ points' = {p \in points : \A q \in fetched : <<p[1], p[2]>> # <<q[1], q[2]>>} \cup fetched
    BY <1>4 DEF RewriteRows
  <2>4. IsFunction(points') /\ FieldsOf(points') \subseteq DataFields
    BY <2>3 DEF ValueShape, IsFunction, FieldsOf
  <2>5. IsFunction({}) /\ FieldsOf({}) = {}
    BY DEF IsFunction, FieldsOf
  <2>6. nullRows = {}
    BY <2>1 DEF ValueShape
  <2> QED BY <1>0, <1>1, <1>2, <2>1, <2>2, <2>4, <2>5, <2>6 DEF ValueShape, Influx
<1>5. CASE DeletePoints \/ RequestDeletion \/ CarryOutDeletion
  <2>1. points' \subseteq points /\ fetched' = fetched
    BY <1>5 DEF DeletePoints, RequestDeletion, CarryOutDeletion
  <2>2. \/ plans' = plans /\ editStep' = editStep
        \/ plans # <<>> /\ plans' = Tail(plans) /\ editStep' = "idle"
    BY <1>5 DEF DeletePoints, RequestDeletion, CarryOutDeletion, FinishEdit
  <2>3. IsFunction(points') /\ FieldsOf(points') \subseteq FieldsOf(points)
    BY <2>1 DEF ValueShape, IsFunction, FieldsOf
  <2>4. nullRows \cap {p[1] : p \in points'} = {}
    BY <2>1 DEF ValueShape
  <2> QED BY <1>0, <1>1, <1>2, <2>1, <2>2, <2>3, <2>4 DEF ValueShape, Influx
<1> QED BY <1>3, <1>4, <1>5

\* The edits of the two tables.
LEMMA TablesKeepShape ==
  ASSUME ValueShape, EditWideValues \/ EditCompanion \/ EditNarrowValues
  PROVE  ValueShape'
<1>1. UNCHANGED <<dest, fetched, requested, exporting, importing, paused, unpaused>>
  BY DEF EditWideValues, EditCompanion, EditNarrowValues, elsewhere
<1>2. plans # <<>>
  BY DEF EditWideValues, EditCompanion, EditNarrowValues, ValueShape
<1>3. First \in ValuePlans /\ Tail(plans) \in Seq(ValuePlans)
  BY <1>2, FirstPlan
<1>4. /\ plans' \in Seq(ValuePlans) /\ editStep' \in {"idle", "narrow"} /\ (editStep' = "narrow" => plans' = plans)
  BY <1>3 DEF EditWideValues, EditCompanion, EditNarrowValues, FinishEdit, LeaveEdit, ValueShape
<1>5. CASE EditWideValues /\ points' = points
  <2>1. nullRows' = nullRows \/ nullRows' = WideRows \ {p[1] : p \in points'}
    BY <1>5 DEF EditWideValues
  <2>2. nullRows' \cap {p[1] : p \in points'} = {} /\ dest = "wide" /\ narrow' = narrow
    BY <1>5, <2>1 DEF EditWideValues, ValueShape
  <2> QED BY <1>1, <1>2, <1>4, <1>5, <2>2 DEF ValueShape, Influx
<1>6. CASE EditWideValues /\ points' # points
  <2>1. points' = WideValues(First) /\ nullRows' = WideRows \ {p[1] : p \in points'} /\ dest = "wide" /\ narrow' = narrow
    BY <1>6 DEF EditWideValues
  <2> DEFINE value == [f \in Named(First) |-> NewValueOf(First, f)]
             times == RowsIn(First)
  <2>2. points' \subseteq points \/ points' = SetIn(points, times, value)
    BY <2>1 DEF WideValues
  <2>3. DOMAIN value \subseteq DOMAIN ColumnType
    BY <2>1 DEF Named
  <2> HIDE DEF value, times
  <2>4. IsFunction(points') /\ FieldsOf(points') \subseteq DOMAIN ColumnType
    BY <2>1, <2>2, <2>3 DEF ValueShape, IsFunction, FieldsOf, SetIn
  <2>5. FieldsOf(points') \subseteq DataFields
    BY <2>4 DEF DataFields
  <2> QED BY <1>1, <1>2, <1>4, <2>1, <2>4, <2>5 DEF ValueShape, Influx
<1>7. CASE EditCompanion \/ EditNarrowValues
  <2>1. points' = points /\ nullRows' = nullRows /\ dest' = dest
    BY <1>7 DEF EditCompanion, EditNarrowValues, elsewhere
  <2>2. \E value : narrow' \in {narrow, NarrowValues(First, value)}
    BY <1>7 DEF EditCompanion, EditNarrowValues
  <2>3. IsFunction(narrow') /\ FieldsOf(narrow') \subseteq FieldsOf(narrow)
    BY <2>2 DEF ValueShape, IsFunction, FieldsOf, NarrowValues, ValuesIn
  <2> QED BY <1>1, <1>2, <1>4, <2>1, <2>3 DEF ValueShape, Influx
<1> QED BY <1>5, <1>6, <1>7

LEMMA ValueShapeAtFirst ==
  ASSUME FittingStore, TimeShiftInit, ValueEditsInit
  PROVE  ValueShape
<1>1. points \in {{}, Stored} /\ narrow \in {{}, {<<p[1], p[2], Mirrored(p[3])>> : p \in Stored}}
  BY DEF TimeShiftInit
<1>2. IsFunction({}) /\ FieldsOf({}) = {}
  BY DEF IsFunction, FieldsOf
<1>3. IsFunction({<<p[1], p[2], Mirrored(p[3])>> : p \in Stored})
  BY DEF FittingStore, IsFunction
<1>4. FieldsOf({<<p[1], p[2], Mirrored(p[3])>> : p \in Stored}) \subseteq FieldsOf(Stored)
  BY DEF FieldsOf
<1> QED BY <1>1, <1>2, <1>3, <1>4 DEF TimeShiftInit, ValueEditsInit, FittingStore, ValueShape, DataFields

LEMMA ValueShapeStays ==
  ASSUME FittingStore, ValueShape, [EditNext]_valueVars
  PROVE  ValueShape'
<1>1. CASE EditNext
  BY <1>1, LiveKeepsShape, ScreensKeepShape, InfluxKeepsShape, TablesKeepShape DEF EditNext
<1>2. CASE UNCHANGED valueVars
  BY <1>2 DEF valueVars, shiftVars, editVars, ValueShape, Influx
<1> QED BY <1>1, <1>2

----------------------------------------------------------------------------
(* Counting. *)

\* The values of a function are no more than its arguments, and as many if they differ.
LEMMA ImageIsFinite ==
  ASSUME NEW f, IsFiniteSet(DOMAIN f)
  PROVE  LET T == {f[x] : x \in DOMAIN f}
         IN  /\ IsFiniteSet(T) /\ Cardinality(T) \in Nat /\ Cardinality(T) <= Cardinality(DOMAIN f)
             /\ (\A x, y \in DOMAIN f : f[x] = f[y] => x = y) => Cardinality(T) = Cardinality(DOMAIN f)
<1> DEFINE S == DOMAIN f
           T == {f[x] : x \in S}
           g == [x \in S |-> f[x]]
<1>1. g \in [S -> T] /\ (\A x \in S : g[x] = f[x]) /\ \A t \in T : \E x \in S : g[x] = t
  OBVIOUS
<1> HIDE DEF S, T, g
<1>2. g \in Surjection(S, T)
  BY <1>1 DEF Surjection
<1>3. (\A x, y \in S : f[x] = f[y] => x = y) => g \in Injection(S, T)
  BY <1>1 DEF Injection, IsInjective
<1>4. IsFiniteSet(S)
  BY DEF S
<1>5. IsFiniteSet(T) /\ Cardinality(T) <= Cardinality(S) /\ (Cardinality(T) = Cardinality(S) <=> g \in Injection(S, T))
  BY <1>2, <1>4, FS_Surjection
<1>6. Cardinality(T) \in Nat
  BY <1>5, FS_CardinalityType
<1> QED BY <1>3, <1>5, <1>6 DEF S, T

\* A value at each of some times for each of some fields.
LEMMA GridIsFinite ==
  ASSUME NEW times, IsFiniteSet(times), NEW value, IsFiniteSet(DOMAIN value)
  PROVE  LET grid == {<<t, f, value[f]>> : t \in times, f \in DOMAIN value}
         IN  IsFiniteSet(grid) /\ Cardinality(grid) = Cardinality(times) * Cardinality(DOMAIN value)
<1> DEFINE F == DOMAIN value
           pairs == times \X F
           cell == [p \in pairs |-> <<p[1], p[2], value[p[2]]>>]
           grid == {<<t, f, value[f]>> : t \in times, f \in F}
<1>1. IsFiniteSet(pairs) /\ Cardinality(pairs) = Cardinality(times) * Cardinality(F)
  BY FS_Product
<1>2. DOMAIN cell = pairs
  OBVIOUS
<1>3. \A p, q \in pairs : cell[p] = cell[q] => p = q
  <2> SUFFICES ASSUME NEW p \in pairs, NEW q \in pairs, cell[p] = cell[q] PROVE p = q
    OBVIOUS
  <2>1. p = <<p[1], p[2]>> /\ q = <<q[1], q[2]>> /\ p[1] = q[1] /\ p[2] = q[2]
    OBVIOUS
  <2> QED BY <2>1
<1>4. {cell[p] : p \in pairs} = grid
  <2>1. \A t \in times, f \in F : <<t, f>> \in pairs /\ cell[<<t, f>>] = <<t, f, value[f]>>
    OBVIOUS
  <2>2. \A p \in pairs : p[1] \in times /\ p[2] \in F /\ cell[p] = <<p[1], p[2], value[p[2]]>>
    OBVIOUS
  <2> HIDE DEF cell, pairs
  <2>3. \A p \in pairs : cell[p] \in grid
    BY <2>2
  <2>4. \A q \in grid : \E p \in pairs : cell[p] = q
    <3> SUFFICES ASSUME NEW q \in grid PROVE \E p \in pairs : cell[p] = q
      OBVIOUS
    <3>1. PICK t \in times, f \in F : q = <<t, f, value[f]>>
      OBVIOUS
    <3>2. <<t, f>> \in pairs /\ cell[<<t, f>>] = q
      BY <2>1, <3>1
    <3> QED BY ONLY <3>2
  <2> QED BY <2>3, <2>4
<1> HIDE DEF cell, pairs
<1>5. IsFiniteSet(DOMAIN cell) /\ \A p, q \in DOMAIN cell : cell[p] = cell[q] => p = q
  BY <1>1, <1>2, <1>3
<1>6. IsFiniteSet({cell[p] : p \in DOMAIN cell}) /\ Cardinality({cell[p] : p \in DOMAIN cell}) = Cardinality(DOMAIN cell)
  BY ONLY <1>5, ImageIsFinite
<1> QED BY <1>1, <1>2, <1>4, <1>6

\* The values of some keys are as many as any others of the same keys.
LEMMA ReplacedAreAsMany ==
  ASSUME NEW s, IsFiniteSet(s), IsFunction(s), \A p \in s : p = <<p[1], p[2], p[3]>>, NEW v
  PROVE  LET new == {<<p[1], p[2], v>> : p \in s}
         IN  IsFiniteSet(new) /\ Cardinality(new) = Cardinality(s)
<1> DEFINE other == [p \in s |-> <<p[1], p[2], v>>]
           new == {<<p[1], p[2], v>> : p \in s}
<1>1. DOMAIN other = s /\ {other[p] : p \in s} = new
  OBVIOUS
<1>2. \A p, q \in s : other[p] = other[q] => p = q
  BY DEF IsFunction
<1> HIDE DEF other, new
<1> QED BY <1>1, <1>2, ImageIsFinite DEF new

\* The times of some values are at most as many.
LEMMA TimesAreFinite ==
  ASSUME NEW s, IsFiniteSet(s)
  PROVE  IsFiniteSet({p[1] : p \in s})
<1> DEFINE at == [p \in s |-> p[1]]
<1>1. DOMAIN at = s /\ {at[p] : p \in s} = {p[1] : p \in s}
  OBVIOUS
<1> HIDE DEF at
<1> QED BY <1>1, ImageIsFinite

----------------------------------------------------------------------------
(* What the values are: numbers and texts at times, of the fields a table   *)
(* has, and finitely many of them.                                          *)

ValueTypes == {"string", "boolean", "integer", "float"}
DataValues == [type : ValueTypes, n : Int]
OwnFields == FieldsOf(Stored) \cup DOMAIN LiveValues

\* The type a field has from the first.
TypeOfField(f) ==
    IF f \in DOMAIN LiveValues THEN LiveValues[f].type ELSE (CHOOSE p \in Stored : p[2] = f)[3].type

Triples(s) == \A p \in s : p = <<p[1], p[2], p[3]>> /\ p[1] \in Int /\ p[3] \in DataValues

\* Finitely many values to begin with, each field's of one type, and so of the bridge.
SoundValues ==
    /\ FittingStore /\ Triples(Stored) /\ IsFiniteSet(Stored)
    /\ LiveTimes \subseteq Int /\ LiveValues \in [DOMAIN LiveValues -> DataValues] /\ IsFiniteSet(DOMAIN LiveValues)
    /\ \A p \in Stored : p[3].type = TypeOfField(p[2])
    /\ ColumnType \in [DOMAIN ColumnType -> {"INTEGER", "REAL", "BOOLEAN", "TEXT"}] /\ IsFiniteSet(DOMAIN ColumnType)
    /\ EditRanges \subseteq [from : Int, to : Int]

\* What an edit of the wide table comes to does not depend on what the table holds.
WideNamed(plan) == plan.fields \cap DOMAIN ColumnType
WideValue(plan, f) == ForColumn(plan.value, ColumnType[f])
WideCompanions(plan) == {Mirrored(WideValue(plan, f)) : f \in WideNamed(plan)}
WideAccepts(plan) ==
    \/ plan.action = "delete"
    \/ /\ WideNamed(plan) # {} /\ \A f \in WideNamed(plan) : WideValue(plan, f) # Refused
       /\ plan.also => Cardinality(WideCompanions(plan)) = 1

\* The plans are of the table, over a range that is offered: their fields are its, and only a wide table has a companion.
FitsTable(plan) ==
    /\ \E r \in EditRanges : plan.from = r.from /\ plan.to = r.to
    /\ dest # "wide" => plan.fields \subseteq OwnFields /\ ~plan.also

CellsInv ==
    /\ Triples(points) /\ Triples(narrow) /\ Triples(fetched) /\ nullRows \subseteq Int
    /\ dest # "v1" => IsFiniteSet(points) /\ IsFiniteSet(narrow) /\ IsFiniteSet(nullRows)
    /\ dest # "wide" => FieldsOf(points) \cup FieldsOf(narrow) \cup FieldsOf(fetched) \subseteq OwnFields
    /\ editStep = "narrow" => dest = "wide" /\ First.also /\ WideAccepts(First)
    /\ \A plan \in Range(plans) : FitsTable(plan)

LEMMA WideIs ==
  ASSUME dest = "wide", NEW plan
  PROVE  /\ Named(plan) = WideNamed(plan) /\ (\A f : NewValueOf(plan, f) = WideValue(plan, f))
         /\ Companions(plan) = WideCompanions(plan) /\ (Acceptable(plan) <=> WideAccepts(plan))
<1>1. Named(plan) = WideNamed(plan)
  BY DEF Named, WideNamed
<1>2. \A f : NewValueOf(plan, f) = WideValue(plan, f)
  BY DEF NewValueOf, WideValue, Influx
<1>3. Companions(plan) = WideCompanions(plan)
  BY <1>1, <1>2 DEF Companions, WideCompanions
<1> QED BY <1>1, <1>2, <1>3 DEF Acceptable, WideAccepts

LEMMA ColumnValues ==
  ASSUME NEW v \in [type : {"string"}, n : Int], NEW type \in {"INTEGER", "REAL", "BOOLEAN", "TEXT"},
         ForColumn(v, type) # Refused
  PROVE  /\ ForColumn(v, type) \in DataValues /\ Mirrored(ForColumn(v, type)) \in DataValues
         /\ ForColumn(v, type).n = v.n \/ ForColumn(v, type).type = "boolean"
<1>1. v.type = "string" /\ v.n \in Int /\ TextOf(v) = V("string", v.n) /\ V("string", v.n).type = "string"
  BY DEF TextOf, V
<1>2. ToBoolean(TextOf(v)) \in {V("boolean", 100), V("boolean", 0), V("string", v.n)}
  BY <1>1 DEF ToBoolean, V
<1>3. CASE type = "BOOLEAN"
  <2>1. ForColumn(v, type) \in {V("boolean", 100), V("boolean", 0)}
    BY <1>1, <1>2, <1>3 DEF ForColumn, V
  <2> QED BY <2>1 DEF V, DataValues, ValueTypes, Mirrored
<1>4. CASE type = "TEXT"
  <2>1. ForColumn(v, type) = V("string", v.n)
    BY <1>1, <1>4 DEF ForColumn
  <2> QED BY <1>1, <2>1 DEF V, DataValues, ValueTypes, Mirrored
<1>5. CASE type = "REAL"
  <2>1. ForColumn(v, type) = V("float", v.n)
    BY <1>1, <1>5 DEF ForColumn
  <2> QED BY <1>1, <2>1 DEF V, DataValues, ValueTypes, Mirrored
<1>6. CASE type = "INTEGER"
  <2>1. ForColumn(v, type) = V("integer", v.n)
    BY <1>1, <1>6 DEF ForColumn
  <2> QED BY <1>1, <2>1 DEF V, DataValues, ValueTypes, Mirrored
<1> QED BY <1>3, <1>4, <1>5, <1>6

LEMMA FieldValues ==
  ASSUME NEW v \in [type : {"string"}, n : Int], NEW type \in ValueTypes \cup {"none"}, ForField(v, type) # Refused
  PROVE  /\ ForField(v, type) \in DataValues
         /\ ForField(v, type).n = v.n \/ ForField(v, type).type = "boolean"
         /\ type # "none" => ForField(v, type).type = type
<1>1. v.type = "string" /\ v.n \in Int /\ v = V("string", v.n)
  BY DEF V
<1>2. ToBoolean(v) \in {V("boolean", 100), V("boolean", 0), V("string", v.n)}
  BY <1>1 DEF ToBoolean
<1>3. CASE type = "boolean"
  <2>1. ForField(v, type) \in {V("boolean", 100), V("boolean", 0)}
    BY <1>1, <1>2, <1>3 DEF ForField, V
  <2> QED BY <1>3, <2>1 DEF V, DataValues, ValueTypes
<1>4. CASE type \in {"string", "none"}
  <2>1. ForField(v, type) \in {V("string", v.n), V("float", v.n)} /\ (type = "string" => ForField(v, type) = V("string", v.n))
    BY <1>1, <1>4 DEF ForField
  <2> QED BY <1>1, <1>4, <2>1 DEF V, DataValues, ValueTypes
<1>5. CASE type = "float"
  <2>1. ForField(v, type) = V("float", v.n)
    BY <1>1, <1>5 DEF ForField
  <2> QED BY <1>1, <1>5, <2>1 DEF V, DataValues, ValueTypes
<1>6. CASE type = "integer"
  <2>1. ForField(v, type) = V("integer", v.n)
    BY <1>1, <1>6 DEF ForField
  <2> QED BY <1>1, <1>6, <2>1 DEF V, DataValues, ValueTypes
<1> QED BY <1>3, <1>4, <1>5, <1>6 DEF ValueTypes

\* What a plan enters is a text.
LEMMA TextEntered ==
  ASSUME NEW plan \in ValuePlans
  PROVE  plan.value \in [type : {"string"}, n : Int]
<1>1. \A n \in NewValues \cup {NoText} : n \in Int
  BY ValueEditsAssumption DEF NoText
<1> QED BY <1>1 DEF ValuePlans, V

\* Plans come at the end and go at the front.
LEMMA PlansMove ==
  ASSUME ValueShape, NEW plan \in ValuePlans
  PROVE  /\ Range(Append(plans, plan)) = Range(plans) \cup {plan}
         /\ plans # <<>> => First \in Range(plans) /\ Range(Tail(plans)) \subseteq Range(plans)
         /\ plans # <<>> => Head(Append(plans, plan)) = First
<1>1. plans \in Seq(ValuePlans)
  BY DEF ValueShape
<1>2. plans # <<>> => First \in Range(plans) /\ Range(Tail(plans)) \subseteq Range(plans)
  BY <1>1, HeadAndTail DEF First
<1>3. /\ DOMAIN plans = 1..Len(plans) /\ Len(plans) \in Nat /\ DOMAIN Append(plans, plan) = 1..(Len(plans) + 1)
      /\ \A i \in 1..Len(plans) : Append(plans, plan)[i] = plans[i]
      /\ Append(plans, plan)[Len(plans) + 1] = plan
  BY <1>1
<1>4. Range(Append(plans, plan)) = Range(plans) \cup {plan}
  <2> DEFINE longer == Append(plans, plan)
  <2> HIDE DEF longer
  <2>1. \A x \in Range(longer) : x \in Range(plans) \cup {plan}
    <3> SUFFICES ASSUME NEW i \in 1..(Len(plans) + 1) PROVE longer[i] \in Range(plans) \cup {plan}
      BY <1>3, Zenon DEF Range, longer
    <3>1. i \in 1..Len(plans) \/ i = Len(plans) + 1
      BY <1>3
    <3> QED BY <1>3, <3>1, Zenon DEF Range, longer
  <2>2. \A x \in Range(plans) : x \in Range(longer)
    <3> SUFFICES ASSUME NEW i \in 1..Len(plans) PROVE plans[i] \in Range(longer)
      BY <1>3, Zenon DEF Range
    <3>1. i \in 1..(Len(plans) + 1)
      BY <1>3
    <3> QED BY <1>3, <3>1, Zenon DEF Range, longer
  <2>3. plan \in Range(longer)
    <3>1. Len(plans) + 1 \in 1..(Len(plans) + 1)
      BY <1>3
    <3> QED BY <1>3, <3>1, Zenon DEF Range, longer
  <2>4. Range(longer) = Range(plans) \cup {plan}
    BY <2>1, <2>2, <2>3, Zenon
  <2> QED BY <2>4 DEF longer
<1>5. plans # <<>> => Head(Append(plans, plan)) = First
  <2>1. plans # <<>> => Len(plans) >= 1 /\ Head(plans) = plans[1] /\ Head(Append(plans, plan)) = Append(plans, plan)[1]
    BY <1>1
  <2> QED BY <1>3, <2>1 DEF First
<1> QED BY <1>2, <1>4, <1>5

LEMMA PlansOfTable ==
  ASSUME ValueShape, CellsInv, NEW plan \in Plans
  PROVE  plan \in ValuePlans /\ FitsTable(plan)
<1>1. plan.fields \subseteq KnownFields
  BY PlansAreTyped
<1>2. dest # "wide" => KnownFields \subseteq OwnFields
  BY DEF KnownFields, Table, CellsInv, FieldsOf
<1> QED BY <1>1, <1>2, PlansAreTyped DEF FitsTable

LEMMA MirrorOfCells ==
  ASSUME NEW s, Triples(s)
  PROVE  LET m == {<<p[1], p[2], Mirrored(p[3])>> : p \in s}
         IN  Triples(m) /\ FieldsOf(m) = FieldsOf(s) /\ (IsFiniteSet(s) => IsFiniteSet(m))
<1> DEFINE m == {<<p[1], p[2], Mirrored(p[3])>> : p \in s}
           f == [p \in s |-> <<p[1], p[2], Mirrored(p[3])>>]
<1>1. \A v \in DataValues : Mirrored(v) \in DataValues
  BY DEF Mirrored, DataValues, ValueTypes, V
<1>2. Triples(m)
  BY <1>1 DEF Triples
<1>3. FieldsOf(m) = FieldsOf(s)
  <2>1. \A p \in s : <<p[1], p[2], Mirrored(p[3])>> \in m /\ <<p[1], p[2], Mirrored(p[3])>>[2] = p[2]
    OBVIOUS
  <2>2. \A q \in m : \E p \in s : q[2] = p[2]
    OBVIOUS
  <2> HIDE DEF m
  <2>3. FieldsOf(m) \subseteq FieldsOf(s)
    BY <2>2 DEF FieldsOf
  <2>4. FieldsOf(s) \subseteq FieldsOf(m)
    BY <2>1 DEF FieldsOf
  <2> QED BY <2>3, <2>4
<1>4. DOMAIN f = s /\ {f[p] : p \in s} = m
  OBVIOUS
<1> HIDE DEF f, m
<1>5. IsFiniteSet(s) => IsFiniteSet(m)
  BY <1>4, ImageIsFinite
<1> QED BY <1>2, <1>3, <1>5 DEF m

LEMMA LiveKeepsCells ==
  ASSUME SoundValues, ValueShape, CellsInv, NEW t \in LiveTimes, WriteAmidEdits(t)
  PROVE  CellsInv'
<1> DEFINE reading == {<<t, f, LiveValues[f]>> : f \in DOMAIN LiveValues}
           mirrored == {<<p[1], p[2], Mirrored(p[3])>> : p \in reading}
           g == [f \in DOMAIN LiveValues |-> <<t, f, LiveValues[f]>>]
<1>1. /\ points' = (IF dest = "narrow" THEN points ELSE points \cup reading)
      /\ narrow' = (IF Influx THEN narrow ELSE narrow \cup mirrored)
      /\ UNCHANGED <<dest, plans, nullRows, editStep, fetched>>
  BY DEF WriteAmidEdits, LiveWrite, editVars
<1>2. Triples(reading) /\ FieldsOf(reading) \subseteq DOMAIN LiveValues
  <2>1. t \in Int /\ \A f \in DOMAIN LiveValues : LiveValues[f] \in DataValues
    BY DEF SoundValues
  <2> QED BY <2>1 DEF Triples, FieldsOf
<1>3. IsFiniteSet(reading)
  <2>1. IsFiniteSet(DOMAIN g) /\ {g[f] : f \in DOMAIN g} = reading
    BY DEF SoundValues
  <2> HIDE DEF g, reading
  <2> QED BY <2>1, ImageIsFinite
<1>4. Triples(mirrored) /\ FieldsOf(mirrored) = FieldsOf(reading) /\ IsFiniteSet(mirrored)
  <2> HIDE DEF reading
  <2> QED BY <1>2, <1>3, MirrorOfCells
<1> HIDE DEF reading, mirrored
<1>5. Triples(points') /\ Triples(narrow')
  BY <1>1, <1>2, <1>4 DEF CellsInv, Triples
<1>6. dest # "v1" => IsFiniteSet(points') /\ IsFiniteSet(narrow')
  BY <1>1, <1>3, <1>4, FS_Union DEF CellsInv
<1>7. dest # "wide" => FieldsOf(points') \cup FieldsOf(narrow') \subseteq OwnFields
  BY <1>1, <1>2, <1>4 DEF CellsInv, FieldsOf, OwnFields
<1>8. First' = First
  BY <1>1 DEF First
<1> QED BY <1>1, <1>5, <1>6, <1>7, <1>8 DEF CellsInv, FitsTable

LEMMA ScreensKeepCells ==
  ASSUME ValueShape, CellsInv, NEW plan \in Plans, Preview(plan) \/ StageValueEdit(plan)
  PROVE  CellsInv'
<1>1. UNCHANGED <<dest, points, narrow, nullRows, editStep, fetched>>
  BY DEF Preview, StageValueEdit, elsewhere
<1>2. plans' = plans \/ (plans' = Append(plans, plan) /\ editStep = "idle")
  BY DEF Preview, StageValueEdit
<1>3. \A other \in Range(plans') : FitsTable(other)'
  <2>1. Range(plans') \subseteq Range(plans) \cup {plan}
    BY <1>2, PlansMove, PlansOfTable
  <2>2. \A other \in Range(plans) \cup {plan} : FitsTable(other)
    BY PlansOfTable DEF CellsInv
  <2>3. \A other : FitsTable(other) => FitsTable(other)'
    BY <1>1 DEF FitsTable
  <2> QED BY <2>1, <2>2, <2>3
<1>4. editStep = "narrow" => First' = First
  BY <1>2 DEF First
<1> QED BY <1>1, <1>3, <1>4 DEF CellsInv

LEMMA FieldTypeKnown ==
  ASSUME Triples(points), NEW f
  PROVE  FieldType(f) \in ValueTypes \cup {"none"} /\ (TypesNow(f) # {} => FieldType(f) \in TypesNow(f))
<1>1. TypesNow(f) \subseteq ValueTypes
  BY DEF TypesNow, Triples, DataValues
<1> QED BY <1>1 DEF FieldType

LEMMA InfluxKeepsCells ==
  ASSUME ValueShape, CellsInv, "v3" \notin Destinations,
         FetchRows \/ RewriteRows \/ DeletePoints \/ RequestDeletion \/ CarryOutDeletion
  PROVE  CellsInv'
<1>0. dest' = dest /\ narrow' = narrow /\ nullRows' = nullRows /\ editStep # "narrow" /\ editStep' # "narrow"
  BY DEF FetchRows, RewriteRows, DeletePoints, RequestDeletion, CarryOutDeletion, elsewhere, FinishEdit, LeaveEdit, CellsInv,
         Influx, ValueShape
<1>1. dest = "v1"
  BY DEF FetchRows, RewriteRows, DeletePoints, RequestDeletion, CarryOutDeletion, ValueShape, Influx
<1>2. CASE FetchRows
  <2>1. /\ fetched' = {<<p[1], f, NewValueOf(First, f)>> : p \in InSlices(points, First), f \in First.fields}
        /\ points' = points /\ plans # <<>> /\ Acceptable(First) /\ First.action = "set_value"
    BY <1>2 DEF FetchRows
  <2>2. InSlices(points, First) \subseteq points /\ First \in ValuePlans
    BY <1>1, <2>1, FirstPlan DEF InSlices
  <2>3. \A f \in First.fields : NewValueOf(First, f) \in DataValues
    <3>1. \A f \in First.fields : NewValueOf(First, f) # Refused /\ NewValueOf(First, f) = ForField(First.value, FieldType(f))
      BY <1>1, <2>1 DEF Acceptable, Named, NewValueOf, Influx
    <3> QED BY <2>2, <3>1, TextEntered, FieldValues, FieldTypeKnown DEF CellsInv
  <2>4. First.fields \subseteq OwnFields
    BY <1>1, <2>1, <2>2, PlansMove DEF CellsInv, FitsTable
  <2> DEFINE source == InSlices(points, First)
             plan == First
  <2> HIDE DEF source, plan
  <2>5. fetched' = {<<p[1], f, NewValueOf(plan, f)>> : p \in source, f \in plan.fields}
    BY <2>1 DEF source, plan
  <2>6. \A p \in source, f \in plan.fields : p[1] \in Int /\ NewValueOf(plan, f) \in DataValues /\ f \in OwnFields
    BY <2>2, <2>3, <2>4 DEF source, plan, CellsInv, Triples
  <2>7. Triples(fetched') /\ FieldsOf(fetched') \subseteq OwnFields
    BY <2>5, <2>6 DEF Triples, FieldsOf
  <2>8. plans' = plans
    BY <1>2 DEF FetchRows
  <2> QED BY <1>0, <1>1, <2>1, <2>7, <2>8 DEF CellsInv, FitsTable
<1>3. CASE RewriteRows \/ DeletePoints \/ RequestDeletion \/ CarryOutDeletion
  <2>1. points' \subseteq points \cup fetched /\ fetched' \subseteq fetched
    BY <1>3 DEF RewriteRows, DeletePoints, RequestDeletion, CarryOutDeletion
  <2>2. plans' = plans \/ (plans # <<>> /\ plans' = Tail(plans))
    BY <1>3 DEF RewriteRows, DeletePoints, RequestDeletion, CarryOutDeletion, FinishEdit, LeaveEdit, ValueShape
  <2>3. Range(plans') \subseteq Range(plans)
    <3>1. plans \in Seq(ValuePlans)
      BY DEF ValueShape
    <3> QED BY <2>2, <3>1, HeadAndTail, Zenon
  <2>4. Triples(points') /\ Triples(fetched')
    BY <2>1 DEF CellsInv, Triples
  <2>5. FieldsOf(points') \cup FieldsOf(fetched') \subseteq OwnFields
    BY <1>1, <2>1 DEF CellsInv, FieldsOf
  <2> QED BY <1>0, <1>1, <2>3, <2>4, <2>5 DEF CellsInv, FitsTable
<1> QED BY <1>2, <1>3

LEMMA TablesKeepCells ==
  ASSUME SoundValues, ValueShape, CellsInv, EditWideValues \/ EditCompanion \/ EditNarrowValues
  PROVE  CellsInv'
<1>1. UNCHANGED <<dest, fetched>> /\ plans # <<>>
  BY DEF EditWideValues, EditCompanion, EditNarrowValues, elsewhere, ValueShape
<1>2. First \in ValuePlans /\ First \in Range(plans) /\ First.value \in [type : {"string"}, n : Int]
  BY <1>1, FirstPlan, PlansMove, TextEntered
<1>3. \A plan \in Range(plans') : FitsTable(plan)'
  <2>1. plans' = plans \/ plans' = Tail(plans)
    BY DEF EditWideValues, EditCompanion, EditNarrowValues, FinishEdit, LeaveEdit
  <2>2. Range(plans') \subseteq Range(plans)
    BY <1>1, <1>2, <2>1, PlansMove
  <2> QED BY <1>1, <2>2 DEF CellsInv, FitsTable
<1>4. CASE EditWideValues
  <2>1. dest = "wide" /\ narrow' = narrow
    BY <1>4 DEF EditWideValues
  <2> DEFINE value == [f \in Named(First) |-> NewValueOf(First, f)]
             times == RowsIn(First)
             grid == {<<t, f, value[f]>> : t \in times, f \in DOMAIN value}
  <2>2. WideRows \subseteq Int /\ IsFiniteSet(WideRows)
    <3>1. IsFiniteSet({p[1] : p \in points}) /\ IsFiniteSet(nullRows)
      BY <2>1, TimesAreFinite DEF CellsInv
    <3> QED BY <3>1, FS_Union DEF WideRows, CellsInv, Triples
  <2>3. times \subseteq WideRows /\ IsFiniteSet(times)
    <3>1. times \subseteq WideRows
      BY <2>1 DEF RowsIn
    <3> QED BY <2>2, <3>1, FS_Subset
  <2>4. DOMAIN value = WideNamed(First) /\ IsFiniteSet(DOMAIN value) /\ \A f \in DOMAIN value : value[f] = WideValue(First, f)
    <3>1. Named(First) = WideNamed(First) /\ \A f : NewValueOf(First, f) = WideValue(First, f)
      BY <2>1, WideIs
    <3>2. IsFiniteSet(WideNamed(First))
      BY FS_Subset DEF WideNamed, SoundValues
    <3> QED BY <3>1, <3>2
  <2> HIDE DEF value, times
  <2>5. IsFiniteSet(grid)
    BY <2>3, <2>4, GridIsFinite
  <2>6. WideAccepts(First) /\ First.action # "delete" => Triples(grid)
    <3>1. WideAccepts(First) /\ First.action # "delete" => \A f \in DOMAIN value : value[f] \in DataValues
      BY <1>2, <2>4, ColumnValues DEF WideAccepts, WideValue, WideNamed, SoundValues
    <3> QED BY <2>2, <2>3, <3>1 DEF Triples
  <2>7. /\ (points' \subseteq points \/ (Acceptable(First) /\ First.action # "delete" /\ points' = SetIn(points, times, value)))
        /\ nullRows' \subseteq WideRows
        /\ editStep' = "narrow" => First.also /\ Acceptable(First) /\ plans' = plans
    BY <1>4 DEF EditWideValues, WideValues, WideRows, FinishEdit, LeaveEdit, value, times
  <2>8. Acceptable(First) = WideAccepts(First)
    BY <2>1, WideIs DEF Acceptable, WideAccepts
  <2>9. SetIn(points, times, value) \subseteq points \cup grid
    BY DEF SetIn
  <2> HIDE DEF grid
  <2>10. Triples(points')
    BY <2>6, <2>7, <2>8, <2>9 DEF CellsInv, Triples
  <2>11. IsFiniteSet(points') /\ IsFiniteSet(nullRows')
    <3>1. IsFiniteSet(points \cup grid) /\ points' \subseteq points \cup grid
      BY <2>1, <2>5, <2>7, <2>9, FS_Union DEF CellsInv
    <3> QED BY <2>2, <2>7, <3>1, FS_Subset
  <2>12. nullRows' \subseteq Int
    BY <2>2, <2>7
  <2> QED BY <1>1, <1>3, <2>1, <2>7, <2>8, <2>10, <2>11, <2>12 DEF CellsInv, First, WideAccepts, WideNamed, WideValue, WideCompanions
<1>5. CASE EditCompanion \/ EditNarrowValues
  <2>1. points' = points /\ nullRows' = nullRows /\ editStep' = "idle"
    BY <1>5 DEF EditCompanion, EditNarrowValues, FinishEdit, LeaveEdit
  <2>2. \/ narrow' \subseteq narrow
        \/ \E value \in DataValues : First.action # "delete" /\ narrow' = NarrowValues(First, value)
    <3>1. CASE EditCompanion
      <4>1. dest = "wide" /\ First.also /\ WideAccepts(First)
        BY <3>1 DEF EditCompanion, CellsInv
      <4>2. CASE First.action # "delete"
        <5>1. PICK f \in WideNamed(First) : WideValue(First, f) # Refused
          BY <4>1, <4>2 DEF WideAccepts
        <5>2. WideCompanions(First) # {} /\ WideCompanions(First) \subseteq DataValues
          BY <1>2, <4>1, <4>2, <5>1, ColumnValues DEF WideCompanions, WideAccepts, WideValue, WideNamed, SoundValues
        <5>3. Companions(First) = WideCompanions(First)
          BY <4>1, WideIs
        <5>4. (CHOOSE v \in Companions(First) : TRUE) \in DataValues
          BY <5>2, <5>3
        <5> QED BY <3>1, <4>2, <5>4 DEF EditCompanion
      <4>3. CASE First.action = "delete"
        BY <3>1, <4>3 DEF EditCompanion, NarrowValues
      <4> QED BY <4>2, <4>3
    <3>2. CASE EditNarrowValues
      <4>1. narrow' = narrow \/ (Acceptable(First) /\ narrow' = NarrowValues(First, NewValueOf(First, CHOOSE f \in First.fields : TRUE)))
        BY <3>2 DEF EditNarrowValues
      <4>2. CASE First.action # "delete" /\ Acceptable(First)
        <5>1. dest = "narrow" /\ First.fields # {} /\ Named(First) = First.fields
          BY <1>2, <3>2 DEF EditNarrowValues, ValuePlans, Named
        <5>2. \A f \in First.fields : NewValueOf(First, f) # Refused
          BY <4>2, <5>1 DEF Acceptable
        <5>3. \A f \in First.fields : NewValueOf(First, f) \in DataValues
          <6>1. \A f \in First.fields : NewValueOf(First, f) \in {First.value, V("float", First.value.n)}
            BY <5>1, <5>2 DEF NewValueOf, Influx
          <6> QED BY <1>2, <6>1 DEF DataValues, ValueTypes, V
        <5> QED BY <4>1, <4>2, <5>1, <5>3
      <4>3. CASE First.action = "delete"
        BY <4>1, <4>3 DEF NarrowValues
      <4> QED BY <4>1, <4>2, <4>3
    <3> QED BY <1>5, <3>1, <3>2
  <2>3. CASE narrow' \subseteq narrow
    <3>1. Triples(narrow') /\ (dest # "v1" => IsFiniteSet(narrow')) /\ FieldsOf(narrow') \subseteq FieldsOf(narrow)
      BY <2>3, FS_Subset DEF CellsInv, Triples, FieldsOf
    <3> QED BY <1>1, <1>3, <2>1, <3>1 DEF CellsInv
  <2>4. CASE \E value \in DataValues : First.action # "delete" /\ narrow' = NarrowValues(First, value)
    <3>1. PICK value \in DataValues : First.action # "delete" /\ narrow' = NarrowValues(First, value)
      BY <2>4
    <3> DEFINE old == ValuesIn(narrow, First)
               new == {<<p[1], p[2], value>> : p \in old}
    <3>2. narrow' \subseteq narrow \cup new /\ old \subseteq narrow
      BY <3>1 DEF NarrowValues, ValuesIn
    <3>3. IsFunction(old) /\ Triples(old) /\ (dest # "v1" => IsFiniteSet(old))
      BY <3>2, FS_Subset DEF ValueShape, IsFunction, CellsInv, Triples
    <3>4. dest # "v1" => IsFiniteSet(new)
      <4> HIDE DEF old
      <4>1. \A p \in old : p = <<p[1], p[2], p[3]>>
        BY <3>3 DEF Triples
      <4> QED BY <3>3, <4>1, ReplacedAreAsMany
    <3>5. Triples(new) /\ FieldsOf(new) \subseteq FieldsOf(narrow)
      BY <3>1, <3>2, <3>3 DEF Triples, FieldsOf
    <3> HIDE DEF new, old
    <3>6. Triples(narrow') /\ FieldsOf(narrow') \subseteq FieldsOf(narrow)
      BY <3>2, <3>5 DEF CellsInv, Triples, FieldsOf
    <3>7. dest # "v1" => IsFiniteSet(narrow')
      <4>1. dest # "v1" => IsFiniteSet(narrow \cup new)
        BY <3>4, FS_Union DEF CellsInv
      <4> QED BY <3>2, <4>1, FS_Subset
    <3> QED BY <1>1, <1>3, <2>1, <3>6, <3>7 DEF CellsInv
  <2> QED BY <2>2, <2>3, <2>4
<1> QED BY <1>4, <1>5

LEMMA CellsAtFirst ==
  ASSUME SoundValues, TimeShiftInit, ValueEditsInit
  PROVE  CellsInv
<1> DEFINE mirror == {<<p[1], p[2], Mirrored(p[3])>> : p \in Stored}
<1>1. points \in {{}, Stored} /\ narrow \in {{}, mirror}
  BY DEF TimeShiftInit
<1>2. Triples(Stored) /\ IsFiniteSet(Stored) /\ FieldsOf(Stored) \subseteq OwnFields
  BY DEF SoundValues, OwnFields
<1>3. Triples(mirror) /\ IsFiniteSet(mirror) /\ FieldsOf(mirror) \subseteq OwnFields
  BY <1>2, MirrorOfCells
<1> HIDE DEF mirror
<1>4. Triples({}) /\ IsFiniteSet({}) /\ FieldsOf({}) = {}
  BY FS_EmptySet DEF Triples, FieldsOf
<1>5. Range(plans) = {}
  BY DEF ValueEditsInit, Range
<1> QED BY <1>1, <1>2, <1>3, <1>4, <1>5 DEF CellsInv, ValueEditsInit

LEMMA CellsStay ==
  ASSUME SoundValues, "v3" \notin Destinations, ValueShape, CellsInv, [EditNext]_valueVars
  PROVE  CellsInv'
<1>1. CASE EditNext
  BY <1>1, LiveKeepsCells, ScreensKeepCells, InfluxKeepsCells, TablesKeepCells DEF EditNext
<1>2. CASE UNCHANGED valueVars
  BY <1>2 DEF valueVars, shiftVars, editVars, CellsInv, First, FitsTable
<1> QED BY <1>1, <1>2

----------------------------------------------------------------------------
(* What an edit of a measurement has read, and is about to write again.      *)

FetchInv ==
    editStep = "write" =>
        /\ First.action = "set_value"
        /\ \A q \in fetched :
              /\ Within(First, q[1]) /\ q[2] \in First.fields
              /\ q[3].n = First.value.n \/ q[3].type = "boolean"
              /\ \A f \in First.fields : \E r \in fetched : r[1] = q[1] /\ r[2] = f

LEMMA FetchedAtOnce ==
  ASSUME SoundValues, "v3" \notin Destinations, ValueShape, CellsInv, FetchRows
  PROVE  FetchInv'
<1>1. /\ fetched' = {<<p[1], f, NewValueOf(First, f)>> : p \in InSlices(points, First), f \in First.fields}
      /\ plans # <<>> /\ plans' = plans /\ Acceptable(First) /\ First.action = "set_value" /\ Influx
  BY DEF FetchRows
<1>2. dest = "v1" /\ First \in ValuePlans
  BY <1>1, FirstPlan, TimeShiftAssumption DEF ValueShape, Influx
<1> DEFINE source == InSlices(points, First)
           plan == First
<1>3. \A p \in source : Within(plan, p[1])
  BY <1>2 DEF InSlices
<1>4. \A f \in plan.fields : NewValueOf(plan, f) = ForField(plan.value, FieldType(f)) /\ NewValueOf(plan, f) # Refused
  BY <1>1, <1>2 DEF Acceptable, Named, NewValueOf
<1>5. plan.value \in [type : {"string"}, n : Int]
  BY <1>2, TextEntered
<1>6. \A f \in plan.fields : NewValueOf(plan, f).n = plan.value.n \/ NewValueOf(plan, f).type = "boolean"
  <2>1. \A f : FieldType(f) \in ValueTypes \cup {"none"}
    BY FieldTypeKnown DEF CellsInv
  <2> HIDE DEF plan
  <2> QED BY <1>4, <1>5, <2>1, FieldValues
<1>7. fetched' = {<<p[1], f, NewValueOf(plan, f)>> : p \in source, f \in plan.fields}
  BY <1>1
<1>8. First' = plan /\ plan.action = "set_value"
  BY <1>1 DEF First
<1> HIDE DEF source, plan
<1>9. \A q \in fetched' : /\ Within(plan, q[1]) /\ q[2] \in plan.fields
                          /\ q[3].n = plan.value.n \/ q[3].type = "boolean"
                          /\ \A f \in plan.fields : \E r \in fetched' : r[1] = q[1] /\ r[2] = f
  <2> SUFFICES ASSUME NEW p \in source, NEW f \in plan.fields, NEW q, q = <<p[1], f, NewValueOf(plan, f)>>
               PROVE  /\ Within(plan, q[1]) /\ q[2] \in plan.fields
                      /\ q[3].n = plan.value.n \/ q[3].type = "boolean"
                      /\ \A g \in plan.fields : \E r \in fetched' : r[1] = q[1] /\ r[2] = g
    BY <1>7
  <2>1. q[1] = p[1] /\ q[2] = f /\ q[3] = NewValueOf(plan, f)
    OBVIOUS
  <2>2. \A g \in plan.fields : <<p[1], g, NewValueOf(plan, g)>> \in fetched'
    BY <1>7
  <2> QED BY <1>3, <1>6, <2>1, <2>2
<1> QED BY <1>8, <1>9 DEF FetchInv, Within

LEMMA FetchedStays ==
  ASSUME SoundValues, "v3" \notin Destinations, ValueShape, CellsInv, FetchInv, [EditNext]_valueVars
  PROVE  FetchInv'
<1>1. CASE FetchRows
  BY <1>1, FetchedAtOnce
<1>2. CASE RewriteRows \/ DeletePoints \/ RequestDeletion \/ EditWideValues \/ EditCompanion \/ EditNarrowValues
  BY <1>2 DEF RewriteRows, DeletePoints, RequestDeletion, EditWideValues, EditCompanion, EditNarrowValues,
              FinishEdit, LeaveEdit, FetchInv
<1>3. CASE \/ CarryOutDeletion \/ UNCHANGED valueVars \/ \E t \in LiveTimes : WriteAmidEdits(t)
           \/ \E plan \in Plans : Preview(plan) \/ StageValueEdit(plan)
  <2>1. editStep' = editStep /\ fetched' = fetched /\ (plans' = plans \/ editStep = "idle")
    BY <1>3 DEF CarryOutDeletion, valueVars, editVars, WriteAmidEdits, Preview, StageValueEdit
  <2> QED BY <2>1 DEF FetchInv, First
<1> QED BY <1>1, <1>2, <1>3 DEF EditNext

----------------------------------------------------------------------------
(* What is accepted stays acceptable: a field keeps its type, and a type     *)
(* decides what a text may become.                                          *)

\* Each field has a value that no edit reaches.
Outlasting(s) == \A f \in OwnFields : \E p \in s : p[2] = f /\ \A r \in EditRanges : ~Within(r, p[1])

\* What a value of a plan needs, said of the types the fields have from the first.
Promised(plan) ==
    /\ dest = "wide" => WideAccepts(plan)
    /\ dest = "v1" => \A f \in plan.fields : ForField(plan.value, TypeOfField(f)) # Refused
    /\ dest = "narrow" => \/ \A f \in plan.fields : TypeOfField(f) = "string"
                          \/ IsNumber(plan.value) /\ \A f \in plan.fields : TypeOfField(f) # "string"

AcceptInv ==
    /\ dest = "narrow" => \A p \in narrow : p[3].type = "string" <=> TypeOfField(p[2]) = "string"
    /\ dest = "v1" => Outlasting(points) /\ \A p \in points \cup fetched : p[3].type = TypeOfField(p[2])
    /\ \A plan \in Range(plans) : plan.action = "delete" \/ Promised(plan)

\* In a measurement the type found is the one there was.
LEMMA TypesFound ==
  ASSUME CellsInv, AcceptInv, dest = "v1", NEW f \in OwnFields
  PROVE  FieldType(f) = TypeOfField(f) /\ TypesNow(f) = {TypeOfField(f)} /\ TypeOfField(f) \in ValueTypes
<1>1. \E p \in points : p[2] = f
  BY DEF AcceptInv, Outlasting
<1>2. TypesNow(f) = {TypeOfField(f)}
  BY <1>1 DEF TypesNow, AcceptInv
<1>3. FieldType(f) = TypeOfField(f)
  BY <1>2 DEF FieldType
<1>4. TypeOfField(f) \in ValueTypes
  BY <1>1 DEF CellsInv, Triples, AcceptInv, DataValues
<1> QED BY <1>2, <1>3, <1>4

\* In the narrow table a field that has a value has the kind it had.
LEMMA KindsFound ==
  ASSUME CellsInv, AcceptInv, dest = "narrow", NEW f \in FieldsOf(narrow)
  PROVE  (Kind(f) = "text" <=> TypeOfField(f) = "string") /\ Kind(f) \in {"text", "numeric"}
BY DEF Kind, AcceptInv, FieldsOf

\* An accepted edit of the narrow table has fields of one kind, and a value of that kind.
LEMMA NarrowAccepts ==
  ASSUME dest = "narrow", NEW plan \in ValuePlans, plan.action # "delete"
  PROVE  /\ Acceptable(plan) => \/ \A f \in plan.fields : Kind(f) = "text" /\ NewValueOf(plan, f) = plan.value
                                \/ /\ IsNumber(plan.value)
                                   /\ \A f \in plan.fields : Kind(f) = "numeric" /\ NewValueOf(plan, f) = V("float", plan.value.n)
         /\ /\ ~plan.also
            /\ \/ \A f \in plan.fields : Kind(f) = "text"
               \/ IsNumber(plan.value) /\ \A f \in plan.fields : Kind(f) = "numeric"
            => Acceptable(plan)
<1>1. \A f : Kind(f) \in {"text", "numeric"}
  BY DEF Kind
<1>2. KindsOf(plan) \subseteq {"text", "numeric"} /\ \A f \in plan.fields : Kind(f) \in KindsOf(plan)
  BY <1>1 DEF KindsOf
<1>3. IsFiniteSet({"text", "numeric"}) /\ Cardinality({"text", "numeric"}) = 2
  <2>1. IsFiniteSet({"text"}) /\ Cardinality({"text"}) = 1 /\ {"text", "numeric"} = {"text"} \cup {"numeric"} /\ "numeric" \notin {"text"}
    BY FS_Singleton
  <2> QED BY <2>1, FS_AddElement
<1>4. plan.fields # {} /\ Named(plan) = plan.fields /\ plan.value.type = "string" /\ plan.value.n \in Int
  BY TextEntered DEF ValuePlans, Named
<1>5. plan.value # Refused /\ V("float", plan.value.n) # Refused
  BY <1>4 DEF Refused, V
<1>6. \A f : NewValueOf(plan, f) = IF Cardinality(KindsOf(plan)) > 1 THEN Refused
                                   ELSE IF Kind(f) = "text" THEN plan.value
                                   ELSE IF IsNumber(plan.value) THEN V("float", plan.value.n) ELSE Refused
  BY DEF NewValueOf, Influx
<1>7. ASSUME Acceptable(plan)
      PROVE  \/ \A f \in plan.fields : Kind(f) = "text" /\ NewValueOf(plan, f) = plan.value
             \/ IsNumber(plan.value) /\ \A f \in plan.fields : Kind(f) = "numeric" /\ NewValueOf(plan, f) = V("float", plan.value.n)
  <2>1. \A f \in plan.fields : NewValueOf(plan, f) # Refused
    BY <1>4, <1>7 DEF Acceptable
  <2>2. ~(Cardinality(KindsOf(plan)) > 1)
    BY <1>4, <1>6, <2>1
  <2>3. \A f, g \in plan.fields : Kind(f) = Kind(g)
    <3> SUFFICES ASSUME NEW f \in plan.fields, NEW g \in plan.fields, Kind(f) # Kind(g) PROVE FALSE
      OBVIOUS
    <3>1. KindsOf(plan) = {"text", "numeric"}
      BY <1>1, <1>2
    <3> QED BY <1>3, <2>2, <3>1
  <2> QED BY <1>1, <1>6, <2>1, <2>2, <2>3
<1>8. ASSUME ~plan.also, \/ \A f \in plan.fields : Kind(f) = "text"
                         \/ IsNumber(plan.value) /\ \A f \in plan.fields : Kind(f) = "numeric"
      PROVE  Acceptable(plan)
  <2>1. PICK k : KindsOf(plan) = {k}
    BY <1>4, <1>8 DEF KindsOf
  <2>2. ~(Cardinality(KindsOf(plan)) > 1)
    <3>1. Cardinality({k}) = 1
      BY FS_Singleton
    <3> QED BY <2>1, <3>1
  <2>3. \A f \in plan.fields : NewValueOf(plan, f) # Refused
    BY <1>5, <1>6, <1>8, <2>2
  <2> QED BY <1>4, <1>8, <2>3 DEF Acceptable
<1> QED BY <1>7, <1>8

\* A promise made while the fields are there is kept while they are.
LEMMA PromisesAreKept ==
  ASSUME SoundValues, ValueShape, CellsInv, AcceptInv, "v3" \notin Destinations,
         NEW plan \in ValuePlans, FitsTable(plan), plan.action # "delete"
  PROVE  /\ Acceptable(plan) /\ plan.fields \subseteq KnownFields => Promised(plan)
         /\ Promised(plan) => Acceptable(plan) \/ (dest = "narrow" /\ \E f \in plan.fields : f \notin FieldsOf(narrow))
<1>1. dest \in {"v1", "wide", "narrow"}
  BY TimeShiftAssumption DEF ValueShape
<1>2. CASE dest = "wide"
  BY <1>2, WideIs DEF Promised
<1>3. CASE dest = "v1"
  <2>1. \A f \in plan.fields : NewValueOf(plan, f) = ForField(plan.value, TypeOfField(f))
    BY <1>3, TypesFound DEF NewValueOf, Influx, FitsTable
  <2>2. Named(plan) = plan.fields /\ plan.fields # {} /\ ~plan.also
    BY <1>3 DEF Named, ValuePlans, FitsTable
  <2> QED BY <1>3, <2>1, <2>2 DEF Promised, Acceptable
<1>4. CASE dest = "narrow"
  <2>1. KnownFields = FieldsOf(narrow) /\ ~plan.also
    BY <1>4 DEF KnownFields, Table, FitsTable
  <2>2. \A f \in FieldsOf(narrow) : (Kind(f) = "text" <=> TypeOfField(f) = "string") /\ Kind(f) \in {"text", "numeric"}
    BY <1>4, KindsFound
  <2>3. Acceptable(plan) /\ plan.fields \subseteq KnownFields => Promised(plan)
    BY <1>4, <2>1, <2>2, NarrowAccepts DEF Promised
  <2>4. Promised(plan) /\ plan.fields \subseteq FieldsOf(narrow) => Acceptable(plan)
    BY <1>4, <2>1, <2>2, NarrowAccepts DEF Promised
  <2> QED BY <1>4, <2>3, <2>4
<1> QED BY <1>1, <1>2, <1>3, <1>4

LEMMA LiveKeepsTypes ==
  ASSUME SoundValues, ValueShape, CellsInv, AcceptInv, NEW t \in LiveTimes, WriteAmidEdits(t)
  PROVE  AcceptInv'
<1> DEFINE reading == {<<t, f, LiveValues[f]>> : f \in DOMAIN LiveValues}
           mirrored == {<<p[1], p[2], Mirrored(p[3])>> : p \in reading}
<1>1. /\ points' = (IF dest = "narrow" THEN points ELSE points \cup reading)
      /\ narrow' = (IF Influx THEN narrow ELSE narrow \cup mirrored)
      /\ UNCHANGED <<dest, plans, editStep, fetched>>
  BY DEF WriteAmidEdits, LiveWrite, editVars
<1>2. \A p \in reading : p[3].type = TypeOfField(p[2])
  BY DEF TypeOfField
<1>3. \A q \in mirrored : q[3].type = "string" <=> TypeOfField(q[2]) = "string"
  BY <1>2 DEF Mirrored, V
<1> HIDE DEF reading, mirrored
<1>4. dest = "narrow" => \A p \in narrow' : p[3].type = "string" <=> TypeOfField(p[2]) = "string"
  BY <1>1, <1>3 DEF AcceptInv
<1>5. dest = "v1" => \A p \in points' \cup fetched' : p[3].type = TypeOfField(p[2])
  BY <1>1, <1>2 DEF AcceptInv
<1>6. dest = "v1" => Outlasting(points')
  BY <1>1 DEF AcceptInv, Outlasting
<1>7. \A plan : Promised(plan)' = Promised(plan)
  BY <1>1 DEF Promised, ForField, WideAccepts, WideNamed, WideValue, WideCompanions
<1> QED BY <1>1, <1>4, <1>5, <1>6, <1>7 DEF AcceptInv

LEMMA ScreensKeepTypes ==
  ASSUME SoundValues, "v3" \notin Destinations, ValueShape, CellsInv, AcceptInv,
         NEW plan \in Plans, Preview(plan) \/ StageValueEdit(plan)
  PROVE  AcceptInv'
<1>1. UNCHANGED <<dest, points, narrow, editStep, fetched>>
  BY DEF Preview, StageValueEdit, elsewhere
<1>2. plans' = plans \/ (plans' = Append(plans, plan) /\ editStep = "idle" /\ Acceptable(plan))
  BY DEF Preview, StageValueEdit
<1>3. \A other : Promised(other)' = Promised(other)
  BY <1>1 DEF Promised, ForField, WideAccepts, WideNamed, WideValue, WideCompanions
<1>4. plan \in ValuePlans /\ FitsTable(plan) /\ plan.fields \subseteq KnownFields
  BY PlansOfTable, PlansAreTyped
<1>5. Acceptable(plan) => plan.action = "delete" \/ Promised(plan)
  BY <1>4, PromisesAreKept
<1>6. \A other \in Range(plans') : other.action = "delete" \/ Promised(other)
  BY <1>2, <1>4, <1>5, PlansMove DEF AcceptInv
<1> QED BY <1>1, <1>3, <1>6 DEF AcceptInv

LEMMA InfluxKeepsTypes ==
  ASSUME SoundValues, "v3" \notin Destinations, ValueShape, CellsInv, AcceptInv, FetchInv,
         FetchRows \/ RewriteRows \/ DeletePoints \/ RequestDeletion \/ CarryOutDeletion
  PROVE  AcceptInv'
<1>1. dest' = dest /\ narrow' = narrow /\ dest = "v1"
  BY TimeShiftAssumption DEF FetchRows, RewriteRows, DeletePoints, RequestDeletion, CarryOutDeletion, elsewhere, ValueShape, Influx
<1>2. plans # <<>>
  BY <1>1 DEF FetchRows, RewriteRows, DeletePoints, RequestDeletion, CarryOutDeletion, ValueShape
<1>3. First \in ValuePlans /\ First \in Range(plans) /\ FitsTable(First) /\ First.fields \subseteq OwnFields
  BY <1>1, <1>2, FirstPlan, PlansMove DEF CellsInv, FitsTable
<1>4. \A plan : Promised(plan)' = Promised(plan)
  BY <1>1 DEF Promised, ForField, WideAccepts, WideNamed, WideValue, WideCompanions
<1>5. Range(plans') \subseteq Range(plans)
  <2>1. plans' \in {plans, Tail(plans)}
    BY DEF FetchRows, RewriteRows, DeletePoints, RequestDeletion, CarryOutDeletion, FinishEdit, LeaveEdit
  <2> QED BY <1>2, <1>3, <2>1, PlansMove
<1>6. CASE FetchRows
  <2>1. /\ fetched' = {<<p[1], f, NewValueOf(First, f)>> : p \in InSlices(points, First), f \in First.fields}
        /\ points' = points /\ plans' = plans /\ Acceptable(First)
    BY <1>6 DEF FetchRows
  <2> DEFINE source == InSlices(points, First)
             plan == First
  <2>2. \A f \in plan.fields : NewValueOf(plan, f) = ForField(plan.value, TypeOfField(f)) /\ TypeOfField(f) \in ValueTypes
    BY <1>1, <1>3, TypesFound DEF NewValueOf, Influx
  <2>3. \A f \in plan.fields : NewValueOf(plan, f).type = TypeOfField(f)
    <3>1. plan.value \in [type : {"string"}, n : Int]
      BY <1>3, TextEntered
    <3>2. \A f \in plan.fields : NewValueOf(plan, f) # Refused
      BY <1>1, <1>6 DEF FetchRows, Acceptable, Named
    <3>3. \A f \in plan.fields : TypeOfField(f) \in ValueTypes \cup {"none"} /\ TypeOfField(f) # "none" /\ ForField(plan.value, TypeOfField(f)) # Refused
      BY <2>2, <3>2 DEF ValueTypes
    <3> HIDE DEF plan
    <3> QED BY <2>2, <3>1, <3>3, FieldValues
  <2>4. fetched' = {<<p[1], f, NewValueOf(plan, f)>> : p \in source, f \in plan.fields}
    BY <2>1
  <2> HIDE DEF source, plan
  <2>5. \A q \in fetched' : q[3].type = TypeOfField(q[2])
    BY <2>3, <2>4
  <2> QED BY <1>1, <1>4, <2>1, <2>5 DEF AcceptInv
<1>7. CASE RewriteRows \/ DeletePoints \/ RequestDeletion \/ CarryOutDeletion
  <2>2. \A p \in points' \cup fetched' : p \in points \cup fetched
    BY <1>1, <1>7 DEF RewriteRows, DeletePoints, RequestDeletion, CarryOutDeletion, ValueShape
  <2>3. \A p \in points : Within(First, p[1]) \/ p \in points'
    <3>1. CASE RewriteRows
      BY <3>1 DEF RewriteRows, FetchInv
    <3>2. CASE DeletePoints
      BY <3>2 DEF DeletePoints
    <3> QED BY <1>1, <1>7, <3>1, <3>2 DEF RequestDeletion, CarryOutDeletion, ValueShape
  <2>4. PICK r \in EditRanges : First.from = r.from /\ First.to = r.to
    BY <1>3 DEF FitsTable
  <2>5. Outlasting(points')
    <3>1. \A p \in points : ~Within(r, p[1]) => p \in points'
      BY <2>3, <2>4 DEF Within
    <3> QED BY <1>1, <3>1 DEF Outlasting, AcceptInv
  <2>6. \A p \in points' \cup fetched' : p[3].type = TypeOfField(p[2])
    BY <1>1, <2>2 DEF AcceptInv
  <2> QED BY <1>1, <1>4, <1>5, <2>5, <2>6 DEF AcceptInv
<1> QED BY <1>6, <1>7

LEMMA TablesKeepTypes ==
  ASSUME SoundValues, "v3" \notin Destinations, ValueShape, CellsInv, AcceptInv,
         EditWideValues \/ EditCompanion \/ EditNarrowValues
  PROVE  AcceptInv'
<1>1. UNCHANGED <<dest, fetched>> /\ plans # <<>> /\ editStep' # "write"
  BY DEF EditWideValues, EditCompanion, EditNarrowValues, elsewhere, ValueShape, FinishEdit, LeaveEdit
<1>2. First \in ValuePlans /\ First \in Range(plans)
  BY <1>1, FirstPlan, PlansMove
<1>3. \A plan : Promised(plan)' = Promised(plan)
  BY <1>1 DEF Promised, ForField, WideAccepts, WideNamed, WideValue, WideCompanions
<1>4. Range(plans') \subseteq Range(plans)
  <2>1. plans' \in {plans, Tail(plans)}
    BY DEF EditWideValues, EditCompanion, EditNarrowValues, FinishEdit, LeaveEdit
  <2> QED BY <1>1, <1>2, <2>1, PlansMove
<1>5. dest = "wide" \/ dest = "narrow"
  BY DEF EditWideValues, EditCompanion, EditNarrowValues, CellsInv
<1>6. dest = "narrow" => \A p \in narrow' : p[3].type = "string" <=> TypeOfField(p[2]) = "string"
  <2> SUFFICES ASSUME dest = "narrow"
               PROVE  \A p \in narrow' : p[3].type = "string" <=> TypeOfField(p[2]) = "string"
    OBVIOUS
  <2>1. EditNarrowValues
    BY DEF EditWideValues, EditCompanion, CellsInv
  <2>2. CASE narrow' \subseteq narrow
    BY <2>2 DEF AcceptInv
  <2>3. CASE ~(narrow' \subseteq narrow)
    <3> DEFINE value == NewValueOf(First, CHOOSE f \in First.fields : TRUE)
    <3>1. Acceptable(First) /\ First.action # "delete" /\ narrow' = NarrowValues(First, value)
      BY <2>1, <2>3 DEF EditNarrowValues, NarrowValues
    <3>2. (CHOOSE f \in First.fields : TRUE) \in First.fields
      BY <1>2 DEF ValuePlans
    <3>3. First.value.type = "string"
      BY <1>2, TextEntered
    <3>4. \A f \in First.fields : value.type = "string" <=> Kind(f) = "text"
      <4>1. CASE \A f \in First.fields : Kind(f) = "text" /\ NewValueOf(First, f) = First.value
        BY <3>2, <3>3, <4>1
      <4>2. CASE \A f \in First.fields : Kind(f) = "numeric" /\ NewValueOf(First, f) = V("float", First.value.n)
        BY <3>2, <4>2 DEF V
      <4> QED BY <1>2, <3>1, <4>1, <4>2, NarrowAccepts
    <3> HIDE DEF value
    <3>5. \A p \in ValuesIn(narrow, First) : p[2] \in First.fields /\ p[2] \in FieldsOf(narrow)
      BY DEF ValuesIn, Named, FieldsOf
    <3>6. \A p \in ValuesIn(narrow, First) : value.type = "string" <=> TypeOfField(p[2]) = "string"
      BY <3>4, <3>5, KindsFound
    <3>7. \A q \in narrow' : q \in narrow \/ \E p \in ValuesIn(narrow, First) : q[2] = p[2] /\ q[3] = value
      BY <3>1 DEF NarrowValues
    <3> QED BY <3>6, <3>7 DEF AcceptInv
  <2> QED BY <2>2, <2>3
<1> QED BY <1>1, <1>3, <1>4, <1>5, <1>6 DEF AcceptInv

LEMMA TypesAtFirst ==
  ASSUME SoundValues, "v1" \in Destinations => Outlasting(Stored), TimeShiftInit, ValueEditsInit
  PROVE  AcceptInv
<1>1. Range(plans) = {} /\ fetched = {}
  BY DEF ValueEditsInit, Range
<1>2. dest \in Destinations /\ (dest # "narrow" => points = Stored)
      /\ (dest = "narrow" => narrow = {<<p[1], p[2], Mirrored(p[3])>> : p \in Stored})
  BY DEF TimeShiftInit, Influx
<1>3. \A p \in Stored : Mirrored(p[3]).type = "string" <=> TypeOfField(p[2]) = "string"
  BY DEF SoundValues, Mirrored, V
<1> QED BY <1>1, <1>2, <1>3 DEF AcceptInv, SoundValues

LEMMA TypesStay ==
  ASSUME SoundValues, "v3" \notin Destinations, ValueShape, CellsInv, AcceptInv, FetchInv, [EditNext]_valueVars
  PROVE  AcceptInv'
<1>1. CASE EditNext
  BY <1>1, LiveKeepsTypes, ScreensKeepTypes, InfluxKeepsTypes, TablesKeepTypes DEF EditNext
<1>2. CASE UNCHANGED valueVars
  <2>1. UNCHANGED <<dest, points, narrow, plans, editStep, fetched>> /\ First' = First
    BY <1>2 DEF valueVars, shiftVars, editVars, First
  <2>2. \A plan : Promised(plan)' = Promised(plan)
    BY <2>1 DEF Promised, ForField, WideAccepts, WideNamed, WideValue, WideCompanions
  <2> QED BY <2>1, <2>2 DEF AcceptInv
<1> QED BY <1>1, <1>2

\* What was accepted is accepted by the commit.
LEMMA AcceptedStaysSo ==
  ASSUME SoundValues, "v3" \notin Destinations, ValueShape, CellsInv, AcceptInv
  PROVE  StagedIsAccepted
<1> SUFFICES ASSUME plans # <<>>, ~Acceptable(First)
             PROVE  dest = "narrow" /\ \E f \in First.fields : f \notin FieldsOf(narrow)
  BY DEF StagedIsAccepted
<1>1. First \in ValuePlans /\ First \in Range(plans)
  BY FirstPlan, PlansMove
<1>2. First.action # "delete" /\ FitsTable(First) /\ Promised(First)
  BY <1>1 DEF Acceptable, CellsInv, AcceptInv
<1> QED BY <1>1, <1>2, PromisesAreKept

----------------------------------------------------------------------------
(* The wide table and its narrow companion. Rows are never taken from the    *)
(* wide table, only their values, so that the bridge does not write where a  *)
(* value has been parted from its companion; and what an edit is about to    *)
(* do in the narrow table it has done to every parted value of its range.    *)

TablesInv ==
    dest = "wide" =>
        /\ {q[1] : q \in narrow} \cup {k[1] : k \in parted} \subseteq WideRows
        /\ TablesAgree
        /\ editStep = "narrow" /\ First.action = "set_value" =>
              \A p \in points : Within(First, p[1]) /\ p[2] \in WideNamed(First) /\ <<p[1], p[2]>> \in parted =>
                  p[3] = WideValue(First, p[2])

LEMMA MirrorsAgree ==
  ASSUME NEW v
  PROVE  /\ Mirrored(v).n = v.n
         /\ Mirrored(v).type = (IF v.type = "string" THEN "string" ELSE "float")
BY DEF Mirrored, V

LEMMA LiveKeepsTables ==
  ASSUME SoundValues, ValueShape, CellsInv, TablesInv, NEW t \in LiveTimes, WriteAmidEdits(t)
  PROVE  TablesInv'
<1> SUFFICES ASSUME dest' = "wide" PROVE TablesInv'
  BY DEF TablesInv
<1> DEFINE reading == {<<t, f, LiveValues[f]>> : f \in DOMAIN LiveValues}
           mirrored == {<<p[1], p[2], Mirrored(p[3])>> : p \in reading}
<1>1. /\ t \notin nullRows /\ PointsAt(points, t) = {} /\ PointsAt(narrow, t) = {} /\ dest = "wide"
      /\ points' = points \cup reading /\ narrow' = narrow \cup mirrored
      /\ UNCHANGED <<plans, editStep, nullRows, parted>>
  BY DEF WriteAmidEdits, LiveWrite, editVars, Influx
<1>2. \A p \in reading : p[1] = t /\ p[2] \in DOMAIN LiveValues /\ p[3] = LiveValues[p[2]]
  OBVIOUS
<1>3. \A q \in mirrored : q[1] = t /\ q[2] \in DOMAIN LiveValues /\ q[3] = Mirrored(LiveValues[q[2]])
  BY <1>2
<1>4. mirrored # {} => reading # {}
  OBVIOUS
<1> HIDE DEF reading, mirrored
<1>5. t \notin WideRows
  BY <1>1 DEF WideRows, PointsAt
<1>6. WideRows \subseteq WideRows' /\ (reading # {} => t \in WideRows')
  BY <1>1, <1>2 DEF WideRows
<1>7. {q[1] : q \in narrow'} \cup {k[1] : k \in parted'} \subseteq WideRows'
  BY <1>1, <1>3, <1>4, <1>6 DEF TablesInv
<1>8. \A p \in reading : <<p[1], p[2]>> \notin parted
  <2> SUFFICES ASSUME NEW p \in reading, <<p[1], p[2]>> \in parted PROVE FALSE
    OBVIOUS
  <2>1. <<p[1], p[2]>>[1] = t
    BY <1>2
  <2> QED BY <1>1, <1>5, <2>1 DEF TablesInv
<1>9. TablesAgree'
  <2> SUFFICES ASSUME NEW p \in points', NEW q \in narrow', p[1] = q[1], p[2] = q[2]
               PROVE  \/ <<p[1], p[2]>> \in parted
                      \/ q[3].n = p[3].n /\ q[3].type = (IF p[3].type = "string" THEN "string" ELSE "float")
    BY <1>1 DEF TablesAgree
  <2>1. CASE p \in points /\ q \in narrow
    BY <1>1, <2>1 DEF TablesInv, TablesAgree
  <2>2. CASE p \in reading \/ q \in mirrored
    <3>1. p[1] = t /\ q[1] = t
      BY <1>2, <1>3, <2>2
    <3>2. p \in reading /\ q \in mirrored
      BY <1>1, <3>1 DEF PointsAt
    <3> QED BY <1>2, <1>3, <3>2, MirrorsAgree
  <2> QED BY <1>1, <2>1, <2>2
<1>10. editStep' = "narrow" /\ First'.action = "set_value" =>
          \A p \in points' : Within(First, p[1]) /\ p[2] \in WideNamed(First) /\ <<p[1], p[2]>> \in parted =>
              p[3] = WideValue(First, p[2])
  BY <1>1, <1>8 DEF TablesInv, First
<1>11. First' = First
  BY <1>1 DEF First
<1> QED BY <1>1, <1>7, <1>9, <1>10, <1>11 DEF TablesInv, Within, WideNamed, WideValue

LEMMA WideEditKeepsTables ==
  ASSUME SoundValues, ValueShape, CellsInv, TablesInv, EditWideValues
  PROVE  TablesInv'
<1>1. dest = "wide" /\ dest' = "wide" /\ narrow' = narrow /\ plans # <<>> /\ editStep = "idle"
  BY DEF EditWideValues, elsewhere
<1>2. First \in ValuePlans /\ Named(First) = WideNamed(First) /\ \A f : NewValueOf(First, f) = WideValue(First, f)
  BY <1>1, FirstPlan, WideIs
<1>3. CASE points' = points /\ nullRows' = nullRows /\ parted' = parted /\ editStep' = "idle"
  BY <1>1, <1>3 DEF TablesInv, TablesAgree, WideRows
<1>4. CASE /\ points' = WideValues(First) /\ nullRows' = WideRows \ {p[1] : p \in points'}
           /\ parted' = parted \cup KeysIn(First, points) \cup KeysIn(First, points')
           /\ editStep' = "narrow" => First' = First
  <2> DEFINE value == [f \in Named(First) |-> NewValueOf(First, f)]
             times == RowsIn(First)
             grid == {<<t, f, value[f]>> : t \in times, f \in DOMAIN value}
             Reached(p) == Within(First, p[1]) /\ p[2] \in WideNamed(First)
  <2>1. \A t : t \in times <=> t \in WideRows /\ Within(First, t)
    BY <1>1 DEF RowsIn
  <2>2. \A p \in grid : p[1] \in times /\ p[2] \in WideNamed(First) /\ p[3] = WideValue(First, p[2])
    BY <1>2
  <2>3. \A p \in points' : (p \in points /\ ~Reached(p)) \/ (First.action = "set_value" /\ p \in grid)
    <3>1. CASE First.action = "delete"
      BY <1>2, <1>4, <3>1 DEF WideValues, ValuesIn
    <3>2. CASE First.action # "delete"
      <4>1. First.action = "set_value" /\ points' = SetIn(points, times, value) /\ DOMAIN value = WideNamed(First)
        BY <1>2, <1>4, <3>2 DEF WideValues, ValuePlans
      <4>2. \A p \in points : p[1] \in WideRows
        BY DEF WideRows
      <4> QED BY <2>1, <4>1, <4>2 DEF SetIn
    <3> QED BY <3>1, <3>2
  <2> HIDE DEF value, times, grid
  <2>4. WideRows \subseteq WideRows' /\ \A p \in points' : p[1] \in WideRows'
    BY <1>4 DEF WideRows
  <2>5. \A p \in points \cup points' : Reached(p) => <<p[1], p[2]>> \in parted'
    BY <1>2, <1>4 DEF KeysIn, ValuesIn
  <2>6. \A k \in parted' : k \in parted \/ \E p \in points \cup points' : k = <<p[1], p[2]>>
    BY <1>4 DEF KeysIn, ValuesIn
  <2>7. {q[1] : q \in narrow'} \cup {k[1] : k \in parted'} \subseteq WideRows'
    <3>1. \A p \in points : p[1] \in WideRows
      BY DEF WideRows
    <3> QED BY <1>1, <2>4, <2>6, <3>1 DEF TablesInv
  <2>8. TablesAgree'
    <3> SUFFICES ASSUME NEW p \in points', NEW q \in narrow', p[1] = q[1], p[2] = q[2], <<p[1], p[2]>> \notin parted'
                 PROVE  q[3].n = p[3].n /\ q[3].type = (IF p[3].type = "string" THEN "string" ELSE "float")
      BY DEF TablesAgree
    <3>1. ~Reached(p) /\ <<p[1], p[2]>> \notin parted
      BY <1>4, <2>5
    <3>2. p \in points
      BY <2>1, <2>2, <2>3, <3>1
    <3> QED BY <1>1, <3>1, <3>2 DEF TablesInv, TablesAgree
  <2>9. editStep' = "narrow" /\ First'.action = "set_value" =>
           \A p \in points' : Within(First', p[1]) /\ p[2] \in WideNamed(First') => p[3] = WideValue(First', p[2])
    BY <1>4, <2>2, <2>3
  <2> QED BY <2>7, <2>8, <2>9 DEF TablesInv, Within, WideNamed, WideValue
<1>5. \/ points' = points /\ nullRows' = nullRows /\ parted' = parted /\ editStep' = "idle"
      \/ /\ points' = WideValues(First) /\ nullRows' = WideRows \ {p[1] : p \in points'}
         /\ parted' = parted \cup KeysIn(First, points) \cup KeysIn(First, points')
         /\ editStep' = "narrow" => First' = First
  BY DEF EditWideValues, LeaveEdit, FinishEdit, First
<1> QED BY <1>3, <1>4, <1>5

LEMMA CompanionKeepsTables ==
  ASSUME SoundValues, ValueShape, CellsInv, TablesInv, EditCompanion
  PROVE  TablesInv'
<1>1. /\ dest = "wide" /\ dest' = "wide" /\ points' = points /\ nullRows' = nullRows /\ WideRows' = WideRows
      /\ editStep = "narrow" /\ editStep' = "idle" /\ First.also /\ WideAccepts(First) /\ plans # <<>>
  BY DEF EditCompanion, elsewhere, CellsInv, FinishEdit, LeaveEdit, WideRows, ValueShape
<1>2. /\ First \in ValuePlans /\ Named(First) = WideNamed(First) /\ Companions(First) = WideCompanions(First)
  BY <1>1, FirstPlan, WideIs
<1>3. CASE narrow' = narrow /\ parted' = parted
  BY <1>1, <1>3 DEF TablesInv, TablesAgree
<1>4. CASE /\ narrow' = NarrowValues(First, CHOOSE v \in Companions(First) : TRUE)
           /\ parted' = {k \in parted : ~(Within(First, k[1]) /\ k[2] \in Named(First))} \cup (KeysIn(First, narrow) \ parted)
  <2> DEFINE companion == CHOOSE v \in Companions(First) : TRUE
             old == ValuesIn(narrow, First)
             Reached(p) == Within(First, p[1]) /\ p[2] \in WideNamed(First)
  <2>1. First.action = "set_value" => \A f \in WideNamed(First) : Mirrored(WideValue(First, f)) = companion
    <3> SUFFICES ASSUME First.action = "set_value", NEW f \in WideNamed(First)
                 PROVE  Mirrored(WideValue(First, f)) = companion
      OBVIOUS
    <3>1. Cardinality(WideCompanions(First)) = 1 /\ Mirrored(WideValue(First, f)) \in WideCompanions(First)
      BY <1>1 DEF WideAccepts, WideCompanions
    <3>2. IsFiniteSet(WideCompanions(First))
      <4> DEFINE g == [x \in WideNamed(First) |-> Mirrored(WideValue(First, x))]
      <4>1. IsFiniteSet(WideNamed(First))
        BY FS_Subset DEF WideNamed, SoundValues
      <4>2. DOMAIN g = WideNamed(First) /\ {g[x] : x \in DOMAIN g} = WideCompanions(First)
        BY DEF WideCompanions
      <4> HIDE DEF g
      <4> QED BY <4>1, <4>2, ImageIsFinite
    <3>3. PICK v : WideCompanions(First) = {v}
      BY <3>1, <3>2, FS_Singleton
    <3> QED BY <1>2, <3>1, <3>3
  <2>2. \A q \in narrow' : (q \in narrow /\ ~Reached(q))
                           \/ (First.action = "set_value" /\ q[3] = companion /\ \E p \in old : q[1] = p[1] /\ q[2] = p[2])
    <3>1. CASE First.action = "delete"
      BY <1>2, <1>4, <3>1 DEF NarrowValues, ValuesIn
    <3>2. CASE First.action # "delete"
      <4>1. First.action = "set_value" /\ narrow' = (narrow \ old) \cup {<<p[1], p[2], companion>> : p \in old}
        BY <1>2, <1>4, <3>2 DEF NarrowValues, ValuePlans
      <4>2. \A q \in narrow \ old : ~Reached(q)
        BY <1>2 DEF ValuesIn
      <4> HIDE DEF companion, old, Reached
      <4>3. \A q \in {<<p[1], p[2], companion>> : p \in old} : q[3] = companion /\ \E p \in old : q[1] = p[1] /\ q[2] = p[2]
        OBVIOUS
      <4> QED BY <4>1, <4>2, <4>3
    <3> QED BY <3>1, <3>2
  <2>3. \A p \in old : p \in narrow /\ Reached(p) /\ <<p[1], p[2]>> \in KeysIn(First, narrow)
    BY <1>2 DEF ValuesIn, KeysIn
  <2> HIDE DEF companion, old
  <2>4. {q[1] : q \in narrow'} \cup {k[1] : k \in parted'} \subseteq WideRows
    <3>1. \A q \in narrow : q[1] \in WideRows
      BY <1>1 DEF TablesInv
    <3>2. \A k \in KeysIn(First, narrow) : k[1] \in WideRows
      BY <3>1 DEF KeysIn, ValuesIn
    <3>3. \A k \in parted' : k[1] \in WideRows
      BY <1>1, <1>4, <3>2 DEF TablesInv
    <3>4. \A q \in narrow' : q[1] \in WideRows
      BY <2>2, <2>3, <3>1
    <3> QED BY <3>3, <3>4
  <2>5. TablesAgree'
    <3> SUFFICES ASSUME NEW p \in points, NEW q \in narrow', p[1] = q[1], p[2] = q[2], <<p[1], p[2]>> \notin parted'
                 PROVE  q[3].n = p[3].n /\ q[3].type = (IF p[3].type = "string" THEN "string" ELSE "float")
      BY <1>1 DEF TablesAgree
    <3>1. CASE q \in narrow /\ ~Reached(q)
      <4>1. <<p[1], p[2]>> \notin parted
        BY <1>2, <1>4, <3>1
      <4> QED BY <1>1, <3>1, <4>1 DEF TablesInv, TablesAgree
    <3>2. CASE First.action = "set_value" /\ q[3] = companion /\ \E r \in old : q[1] = r[1] /\ q[2] = r[2]
      <4>1. Reached(p) /\ <<p[1], p[2]>> \in KeysIn(First, narrow)
        BY <2>3, <3>2
      <4>2. <<p[1], p[2]>> \in parted
        BY <1>4, <4>1
      <4>3. p[3] = WideValue(First, p[2])
        BY <1>1, <3>2, <4>1, <4>2 DEF TablesInv
      <4>4. q[3] = Mirrored(p[3])
        BY <2>1, <3>2, <4>1, <4>3
      <4> QED BY <4>4, MirrorsAgree
    <3> QED BY <2>2, <3>1, <3>2
  <2> QED BY <1>1, <2>4, <2>5 DEF TablesInv
<1> QED BY <1>3, <1>4 DEF EditCompanion

LEMMA TablesAtFirst ==
  ASSUME SoundValues, TimeShiftInit, ValueEditsInit
  PROVE  TablesInv
<1> SUFFICES ASSUME dest = "wide" PROVE TablesInv
  BY DEF TablesInv
<1>1. points = Stored /\ narrow = {<<p[1], p[2], Mirrored(p[3])>> : p \in Stored} /\ parted = {} /\ editStep = "idle"
  BY DEF TimeShiftInit, ValueEditsInit, Influx
<1>2. \A q \in narrow : \E p \in points : q[1] = p[1] /\ q[2] = p[2] /\ q[3] = Mirrored(p[3])
  BY <1>1
<1>3. {q[1] : q \in narrow} \subseteq WideRows
  BY <1>2 DEF WideRows
<1>4. TablesAgree
  <2> SUFFICES ASSUME NEW p \in points, NEW q \in narrow, p[1] = q[1], p[2] = q[2]
               PROVE  q[3].n = p[3].n /\ q[3].type = (IF p[3].type = "string" THEN "string" ELSE "float")
    BY DEF TablesAgree
  <2>1. q[3] = Mirrored(p[3])
    BY <1>1, <1>2 DEF SoundValues, FittingStore, IsFunction
  <2> QED BY <2>1, MirrorsAgree
<1> QED BY <1>1, <1>3, <1>4 DEF TablesInv

LEMMA TablesStay ==
  ASSUME SoundValues, "v3" \notin Destinations, ValueShape, CellsInv, TablesInv, [EditNext]_valueVars
  PROVE  TablesInv'
<1>1. CASE EditNext
  <2>1. ASSUME NEW plan \in Plans, Preview(plan) \/ StageValueEdit(plan)
        PROVE  TablesInv'
    <3>1. UNCHANGED <<dest, points, narrow, nullRows, parted, editStep>> /\ (plans' = plans \/ editStep = "idle")
      BY <2>1 DEF Preview, StageValueEdit, elsewhere
    <3>2. editStep = "narrow" => First' = First
      BY <3>1 DEF First
    <3> QED BY <3>1, <3>2 DEF TablesInv, TablesAgree, WideRows, Within, WideNamed, WideValue
  <2>2. CASE FetchRows \/ RewriteRows \/ DeletePoints \/ RequestDeletion \/ CarryOutDeletion \/ EditNarrowValues
    <3>1. dest' # "wide"
      BY <2>2 DEF FetchRows, RewriteRows, DeletePoints, RequestDeletion, CarryOutDeletion, EditNarrowValues, elsewhere,
                  ValueShape, Influx
    <3> QED BY <3>1 DEF TablesInv
  <2> QED BY <1>1, <2>1, <2>2, LiveKeepsTables, WideEditKeepsTables, CompanionKeepsTables DEF EditNext
<1>2. CASE UNCHANGED valueVars
  BY <1>2 DEF valueVars, shiftVars, editVars, TablesInv, TablesAgree, WideRows, First, Within, WideNamed, WideValue
<1> QED BY <1>1, <1>2

----------------------------------------------------------------------------
(* What an edit changes, and what its preview told.                          *)

\* The steps that carry the first plan out, and what they do to the two tables.
LEMMA CarriedOut ==
  ASSUME ValueShape, CellsInv, "v3" \notin Destinations, [EditNext]_valueVars, Edited
  PROVE  /\ dest' = dest /\ plans # <<>>
         /\ \/ /\ dest = "v1" /\ editStep = "write" /\ narrow' = narrow
               /\ points' = {p \in points : \A q \in fetched : <<p[1], p[2]>> # <<q[1], q[2]>>} \cup fetched
            \/ /\ dest = "v1" /\ editStep = "idle" /\ First.action = "delete" /\ narrow' = narrow
               /\ points' = {p \in points : ~Within(First, p[1])}
            \/ /\ dest = "wide" /\ editStep = "idle" /\ narrow' = narrow
               /\ points' = WideValues(First) /\ Acceptable(First)
            \/ /\ dest = "wide" /\ editStep = "narrow" /\ points' = points
               /\ narrow' = NarrowValues(First, CHOOSE v \in Companions(First) : TRUE)
            \/ /\ dest = "narrow" /\ editStep = "idle" /\ points' = points /\ Acceptable(First)
               /\ narrow' = NarrowValues(First, NewValueOf(First, CHOOSE f \in First.fields : TRUE))
<1>1. plans # <<>> /\ (plans' = Tail(plans) \/ (editStep = "idle" /\ editStep' = "narrow"))
  BY DEF Edited
<1>2. Tail(plans) # plans
  BY <1>1, FirstPlan
<1>3. EditNext
  BY <1>1, <1>2 DEF valueVars, editVars
<1>4. \A plan \in Plans : ~(Preview(plan) \/ StageValueEdit(plan))
  <2> SUFFICES ASSUME NEW plan \in Plans, Preview(plan) \/ StageValueEdit(plan) PROVE FALSE
    OBVIOUS
  <2>1. editStep' = editStep /\ (plans' = plans \/ plans' = Append(plans, plan))
    BY DEF Preview, StageValueEdit
  <2>2. Len(Append(plans, plan)) = Len(plans) + 1 /\ Len(Tail(plans)) = Len(plans) - 1 /\ Len(plans) \in Nat
    BY <1>1, HeadTailProperties DEF ValueShape
  <2>3. Append(plans, plan) # Tail(plans)
    BY <2>2
  <2> QED BY <1>1, <1>2, <2>1, <2>3
<1>5. ~(\E t \in LiveTimes : WriteAmidEdits(t)) /\ ~FetchRows /\ ~CarryOutDeletion /\ ~RequestDeletion
  BY <1>1, <1>2 DEF WriteAmidEdits, editVars, FetchRows, CarryOutDeletion, RequestDeletion, ValueShape
<1>6. RewriteRows \/ DeletePoints \/ EditWideValues \/ EditCompanion \/ EditNarrowValues
  BY <1>3, <1>4, <1>5 DEF EditNext
<1>7. dest' = dest
  BY <1>6 DEF RewriteRows, DeletePoints, EditWideValues, EditCompanion, EditNarrowValues, elsewhere
<1>8. CASE RewriteRows
  <2>1. dest = "v1"
    BY <1>8, TimeShiftAssumption DEF RewriteRows, ValueShape, Influx
  <2> QED BY <1>1, <1>2, <1>7, <1>8, <2>1 DEF RewriteRows, LeaveEdit
<1>9. CASE DeletePoints
  BY <1>1, <1>7, <1>9 DEF DeletePoints
<1>10. CASE EditWideValues
  BY <1>1, <1>2, <1>7, <1>10 DEF EditWideValues, LeaveEdit
<1>11. CASE EditCompanion
  BY <1>1, <1>2, <1>7, <1>11 DEF EditCompanion, LeaveEdit, CellsInv
<1>12. CASE EditNarrowValues
  BY <1>1, <1>2, <1>7, <1>12 DEF EditNarrowValues, LeaveEdit
<1> QED BY <1>6, <1>8, <1>9, <1>10, <1>11, <1>12

\* The range of a plan, in the words of the property.
LEMMA RangeOfPlan ==
  ASSUME SoundValues, NEW plan, FitsTable(plan), NEW t \in Int, Within(plan, t)
  PROVE  t >= plan.from * Ticks /\ t <= plan.to * Ticks + Ticks - 1
<1>1. plan.from \in Int /\ plan.to \in Int /\ Ticks \in Int
  BY TimeShiftAssumption DEF SoundValues, FitsTable
<1> DEFINE from == plan.from * Ticks
           to == plan.to * Ticks
<1>2. (plan.to + 1) * Ticks = to + Ticks /\ to \in Int /\ from \in Int
  BY <1>1
<1>3. from <= t /\ t < to + Ticks
  BY <1>2 DEF Within
<1> HIDE DEF from, to
<1>4. t >= from /\ t <= to + Ticks - 1
  BY <1>1, <1>2, <1>3
<1> QED BY <1>4 DEF from, to

LEMMA EditsAreExact ==
  ASSUME SoundValues, "v3" \notin Destinations, ValueShape, CellsInv, CellsInv', FetchInv, ValueShape', [EditNext]_valueVars
  PROVE  EditIsExact
<1> SUFFICES ASSUME Edited PROVE EditIsExact
  BY DEF EditIsExact
<1>1. plans # <<>> /\ First \in ValuePlans /\ First \in Range(plans) /\ FitsTable(First) /\ dest' = dest
      /\ First.value \in [type : {"string"}, n : Int]
  BY CarriedOut, FirstPlan, PlansMove, TextEntered DEF CellsInv
<1> DEFINE Reached(p) == Within(First, p[1]) /\ (p[2] \in First.fields \/ (Influx /\ First.action = "delete"))
           AsSet == editStep # "narrow" => \A p \in Table' : Within(First, p[1]) /\ p[2] \in First.fields =>
                        /\ First.action = "set_value"
                        /\ p[3].n = First.value.n \/ p[3].type = "boolean"
                              \/ (Influx /\ \A q \in fetched : q[1] # p[1])
           Emptied == editStep = "narrow" /\ First.action = "delete" => ValuesIn(narrow', First) = {}
<1>2. ASSUME \A p \in (points \ points') \cup (points' \ points) \cup (narrow \ narrow') \cup (narrow' \ narrow) : Reached(p),
             AsSet, Emptied
      PROVE  EditIsExact
  <2>1. \A p \in points \cup points' \cup narrow \cup narrow' : p[1] \in Int
    BY DEF CellsInv, Triples
  <2>2. \A k \in ChangedKeys(points, points') \cup ChangedKeys(narrow, narrow') :
           k[1] \in Int /\ Within(First, k[1]) /\ (k[2] \in First.fields \/ (Influx /\ First.action = "delete"))
    <3>1. ASSUME NEW k \in ChangedKeys(points, points') \cup ChangedKeys(narrow, narrow')
          PROVE  \E p \in (points \ points') \cup (points' \ points) \cup (narrow \ narrow') \cup (narrow' \ narrow) : k = <<p[1], p[2]>>
      BY <3>1 DEF ChangedKeys, StoredKeys
    <3> HIDE DEF Reached
    <3>2. \A p \in (points \ points') \cup (points' \ points) \cup (narrow \ narrow') \cup (narrow' \ narrow) : p[1] \in Int /\ Reached(p)
      BY <1>2, <2>1
    <3> USE DEF Reached
    <3> QED BY <3>1, <3>2
  <2>3. \A k \in ChangedKeys(points, points') \cup ChangedKeys(narrow, narrow') :
           k[1] >= First.from * Ticks /\ k[1] <= First.to * Ticks + Ticks - 1
    BY <1>1, <2>2, RangeOfPlan
  <2> QED BY <1>2, <2>2, <2>3 DEF EditIsExact
<1>3. CASE /\ dest = "v1" /\ editStep = "write" /\ narrow' = narrow
           /\ points' = {p \in points : \A q \in fetched : <<p[1], p[2]>> # <<q[1], q[2]>>} \cup fetched
  <2>1. First.action = "set_value" /\ \A q \in fetched :
              /\ Within(First, q[1]) /\ q[2] \in First.fields
              /\ q[3].n = First.value.n \/ q[3].type = "boolean"
              /\ \A f \in First.fields : \E r \in fetched : r[1] = q[1] /\ r[2] = f
    BY <1>3 DEF FetchInv
  <2>2. \A p \in (points \ points') \cup (points' \ points) : Reached(p)
    BY <1>3, <2>1
  <2>3. AsSet
    <3>1. Table' = points' /\ Influx
      BY <1>1, <1>3 DEF Table, Influx
    <3>2. \A p \in points' : p[2] \in First.fields => p \in fetched \/ \A q \in fetched : q[1] # p[1]
      <4> SUFFICES ASSUME NEW p \in points, NEW q \in fetched, q[1] = p[1], p[2] \in First.fields,
                          \A r \in fetched : <<p[1], p[2]>> # <<r[1], r[2]>>
                   PROVE  FALSE
        BY <1>3
      <4>1. PICK r \in fetched : r[1] = q[1] /\ r[2] = p[2]
        BY <2>1
      <4>2. <<p[1], p[2]>> = <<r[1], r[2]>>
        BY <4>1
      <4> QED BY <4>2
    <3> QED BY <2>1, <3>1, <3>2
  <2> QED BY <1>2, <1>3, <2>2, <2>3
<1>4. CASE /\ dest = "v1" /\ editStep = "idle" /\ First.action = "delete" /\ narrow' = narrow
           /\ points' = {p \in points : ~Within(First, p[1])}
  <2>1. \A p \in (points \ points') \cup (points' \ points) : Reached(p)
    BY <1>4 DEF Influx
  <2>2. AsSet
    BY <1>1, <1>4 DEF Table
  <2> QED BY <1>2, <1>4, <2>1, <2>2
<1>5. CASE /\ dest = "wide" /\ editStep = "idle" /\ narrow' = narrow
           /\ points' = WideValues(First) /\ Acceptable(First)
  <2>1. /\ Named(First) = WideNamed(First) /\ (\A f : NewValueOf(First, f) = WideValue(First, f))
        /\ (Acceptable(First) <=> WideAccepts(First))
    BY <1>5, WideIs
  <2> DEFINE value == [f \in Named(First) |-> NewValueOf(First, f)]
             times == RowsIn(First)
             grid == {<<t, f, value[f]>> : t \in times, f \in DOMAIN value}
  <2>2. \A t : t \in times <=> t \in WideRows /\ Within(First, t)
    BY <1>5 DEF RowsIn
  <2>3. \A p \in points : p[1] \in WideRows
    BY DEF WideRows
  <2>4. \A p \in grid : Within(First, p[1]) /\ p[2] \in WideNamed(First) /\ p[3] = WideValue(First, p[2])
    BY <2>1, <2>2
  <2>5. CASE First.action = "delete"
    <3>1. \A p \in (points \ points') \cup (points' \ points) : Reached(p)
      BY <1>5, <2>1, <2>5 DEF WideValues, ValuesIn, WideNamed
    <3>2. \A p \in points' : ~(Within(First, p[1]) /\ p[2] \in First.fields)
      <4>1. \A p \in points' : p[2] \in DOMAIN ColumnType
        BY <1>1, <1>5 DEF ValueShape, FieldsOf
      <4> QED BY <1>5, <2>1, <2>5, <4>1 DEF WideValues, ValuesIn, WideNamed
    <3>3. Table' = points'
      BY <1>1, <1>5 DEF Table
    <3> QED BY <1>2, <1>5, <3>1, <3>2, <3>3
  <2>6. CASE First.action = "set_value"
    <3>1. points' = {p \in points : ~(p[1] \in times /\ p[2] \in WideNamed(First))} \cup grid
      BY <1>5, <2>1, <2>6 DEF WideValues, SetIn
    <3> HIDE DEF grid, value, times
    <3>2. \A p \in (points \ points') \cup (points' \ points) : Reached(p)
      BY <2>2, <2>4, <3>1 DEF WideNamed
    <3>3. \A p \in points' : Within(First, p[1]) /\ p[2] \in First.fields => p \in grid
      <4>1. \A p \in points' : p[2] \in DOMAIN ColumnType
        BY <1>1, <1>5 DEF ValueShape, FieldsOf
      <4> QED BY <2>2, <2>3, <3>1, <4>1 DEF WideNamed
    <3>4. \A f \in WideNamed(First) : WideValue(First, f).n = First.value.n \/ WideValue(First, f).type = "boolean"
      BY <1>1, <1>5, <2>1, <2>6, ColumnValues DEF WideAccepts, WideValue, WideNamed, SoundValues
    <3>5. Table' = points'
      BY <1>1, <1>5 DEF Table
    <3> QED BY <1>2, <1>5, <2>4, <2>6, <3>2, <3>3, <3>4, <3>5
  <2> QED BY <1>1, <2>5, <2>6 DEF ValuePlans
<1>6. CASE \/ /\ dest = "wide" /\ editStep = "narrow" /\ points' = points
              /\ narrow' = NarrowValues(First, CHOOSE v \in Companions(First) : TRUE)
           \/ /\ dest = "narrow" /\ editStep = "idle" /\ points' = points /\ Acceptable(First)
              /\ narrow' = NarrowValues(First, NewValueOf(First, CHOOSE f \in First.fields : TRUE))
  <2>1. PICK value : /\ narrow' = NarrowValues(First, value)
                     /\ dest = "narrow" => editStep = "idle" /\ Acceptable(First) /\ value = NewValueOf(First, CHOOSE f \in First.fields : TRUE)
                     /\ dest = "wide" => editStep = "narrow"
    BY <1>6
  <2> DEFINE old == ValuesIn(narrow, First)
  <2>2. \A p : p \in old <=> p \in narrow /\ Within(First, p[1]) /\ p[2] \in Named(First)
    BY DEF ValuesIn
  <2>3. Named(First) \subseteq First.fields /\ (dest = "narrow" => Named(First) = First.fields)
    BY DEF Named
  <2> HIDE DEF old
  <2>4. \A q \in narrow' : \/ q \in narrow /\ q \notin old
                           \/ First.action = "set_value" /\ q[3] = value /\ \E p \in old : q[1] = p[1] /\ q[2] = p[2]
    <3>1. CASE First.action = "delete"
      BY <2>1, <3>1 DEF NarrowValues, old
    <3>2. CASE First.action = "set_value"
      BY <2>1, <3>2 DEF NarrowValues, old
    <3> QED BY <1>1, <3>1, <3>2 DEF ValuePlans
  <2>5. \A p \in narrow \ narrow' : p \in old
    BY <2>1 DEF NarrowValues, old
  <2>6. \A p \in (narrow \ narrow') \cup (narrow' \ narrow) : Reached(p)
    BY <2>2, <2>3, <2>4, <2>5
  <2>7. Emptied
    <3>1. ASSUME First.action = "delete", NEW q \in ValuesIn(narrow', First)
          PROVE  FALSE
      <4>1. q \in narrow' /\ Within(First, q[1]) /\ q[2] \in Named(First)
        BY <3>1 DEF ValuesIn
      <4> QED BY <2>2, <2>4, <3>1, <4>1
    <3> QED BY <3>1
  <2>8. AsSet
    <3>1. CASE dest = "narrow"
      <4>1. Table' = narrow' /\ First.fields # {} /\ (CHOOSE f \in First.fields : TRUE) \in First.fields
        BY <1>1, <3>1 DEF Table, ValuePlans
      <4>2. First.action = "set_value" => value.n = First.value.n
        <5>1. First.action = "set_value" => value \in {First.value, V("float", First.value.n)}
          BY <1>1, <2>1, <3>1, <4>1, NarrowAccepts
        <5> QED BY <5>1 DEF V
      <4>3. \A q \in narrow' : Within(First, q[1]) /\ q[2] \in First.fields => First.action = "set_value" /\ q[3] = value
        BY <2>2, <2>3, <2>4, <3>1
      <4> QED BY <4>1, <4>2, <4>3
    <3>2. CASE dest = "wide"
      BY <2>1, <3>2
    <3> QED BY <1>6, <3>1, <3>2
  <2> QED BY <1>2, <1>6, <2>6, <2>7, <2>8
<1> QED BY <1>3, <1>4, <1>5, <1>6, CarriedOut

\* The fields of a measurement keep their types.
LEMMA TypesAreHeld ==
  ASSUME SoundValues, "v3" \notin Destinations, ValueShape, CellsInv, AcceptInv, AcceptInv', dest' = dest
  PROVE  TypesHold
<1> SUFFICES ASSUME Influx, NEW f \in FieldsOf(points)
             PROVE  TypesNow(f)' \subseteq TypesNow(f)
  BY DEF TypesHold
<1>1. dest = "v1" /\ f \in OwnFields
  BY DEF Influx, CellsInv, ValueShape
<1>2. TypesNow(f) = {TypeOfField(f)}
  BY <1>1, TypesFound
<1>3. \A p \in points' : p[3].type = TypeOfField(p[2])
  BY <1>1 DEF AcceptInv
<1> QED BY <1>2, <1>3 DEF TypesNow

\* A preview is of what the tables held when it was made.
RowsShown(shown) == {t \in {p[1] : p \in shown.among[1]} \cup shown.among[3] : Within(shown.of, t)}
ValuesShown(s, plan) == {p \in s : Within(plan, p[1]) /\ p[2] \in plan.fields}
PreviewInv ==
    \A shown \in preview :
        /\ dest = "wide" => shown.count = Cardinality(RowsShown(shown))
        /\ dest = "v1" => shown.count = Cardinality(ValuesShown(shown.among[1], shown.of))
        /\ dest = "narrow" => shown.count = Cardinality(ValuesShown(shown.among[2], shown.of))
        /\ shown.of.also => shown.beside = Cardinality(ValuesIn(shown.among[2], shown.of))

LEMMA PreviewStays ==
  ASSUME PreviewInv, [EditNext]_valueVars
  PROVE  PreviewInv'
<1>1. dest' = dest
  <2>1. CASE UNCHANGED valueVars
    BY <2>1 DEF valueVars, shiftVars
  <2>2. CASE \E plan \in Plans : Preview(plan) \/ StageValueEdit(plan)
    BY <2>2 DEF Preview, StageValueEdit, elsewhere
  <2>3. CASE \E t \in LiveTimes : WriteAmidEdits(t)
    BY <2>3 DEF WriteAmidEdits, LiveWrite
  <2>4. CASE FetchRows \/ RewriteRows \/ DeletePoints \/ RequestDeletion \/ CarryOutDeletion
             \/ EditWideValues \/ EditCompanion \/ EditNarrowValues
    BY <2>4 DEF FetchRows, RewriteRows, DeletePoints, RequestDeletion, CarryOutDeletion,
                EditWideValues, EditCompanion, EditNarrowValues, elsewhere
  <2> QED BY <2>1, <2>2, <2>3, <2>4 DEF EditNext
<1>2. preview' \subseteq preview \/ \E plan \in Plans : Preview(plan)
  <2>1. CASE UNCHANGED valueVars
    BY <2>1 DEF valueVars, editVars
  <2>2. CASE \E plan \in Plans : StageValueEdit(plan)
    BY <2>2 DEF StageValueEdit
  <2>3. CASE \E t \in LiveTimes : WriteAmidEdits(t)
    BY <2>3 DEF WriteAmidEdits, editVars
  <2>4. CASE FetchRows \/ RewriteRows \/ DeletePoints \/ RequestDeletion \/ CarryOutDeletion
             \/ EditWideValues \/ EditCompanion \/ EditNarrowValues
    BY <2>4 DEF FetchRows, RewriteRows, DeletePoints, RequestDeletion, CarryOutDeletion,
                EditWideValues, EditCompanion, EditNarrowValues
  <2> QED BY <2>1, <2>2, <2>3, <2>4 DEF EditNext
<1>3. CASE preview' \subseteq preview
  BY <1>1, <1>3 DEF PreviewInv, RowsShown, ValuesShown, ValuesIn, Named, Within
<1>4. ASSUME NEW plan \in Plans, Preview(plan)
      PROVE  PreviewInv'
  <2> DEFINE new == [of |-> plan, among |-> <<points, narrow, nullRows>>,
                     count |-> IF dest = "wide" THEN Cardinality(RowsIn(plan)) ELSE ValueCount(plan),
                     beside |-> IF plan.also THEN Cardinality(ValuesIn(narrow, plan)) ELSE 0]
  <2>1. preview' = {new}
    BY <1>4 DEF Preview
  <2>2. /\ new.of = plan /\ new.among[1] = points /\ new.among[2] = narrow /\ new.among[3] = nullRows
        /\ new.count = (IF dest = "wide" THEN Cardinality(RowsIn(plan)) ELSE ValueCount(plan))
        /\ new.beside = (IF plan.also THEN Cardinality(ValuesIn(narrow, plan)) ELSE 0)
    OBVIOUS
  <2> HIDE DEF new
  <2>3. dest = "wide" => RowsShown(new) = RowsIn(plan)
    BY <2>2 DEF RowsShown, RowsIn, WideRows
  <2>4. dest = "v1" => ValueCount(plan) = Cardinality(ValuesShown(points, plan))
    <3> SUFFICES ASSUME dest = "v1" PROVE ValueCount(plan) = Cardinality(ValuesShown(points, plan))
      OBVIOUS
    <3>1. {p \in InSlices(Table, plan) : p[2] \in plan.fields} = ValuesShown(points, plan)
      BY DEF InSlices, Table, ValuesShown
    <3> QED BY <3>1 DEF ValueCount
  <2>5. dest = "narrow" => ValueCount(plan) = Cardinality(ValuesShown(narrow, plan))
    <3> SUFFICES ASSUME dest = "narrow" PROVE ValueCount(plan) = Cardinality(ValuesShown(narrow, plan))
      OBVIOUS
    <3>1. {p \in InSlices(Table, plan) : p[2] \in plan.fields} = ValuesShown(narrow, plan)
      BY DEF InSlices, Table, ValuesShown
    <3> QED BY <3>1 DEF ValueCount
  <2>6. /\ dest = "wide" => new.count = Cardinality(RowsShown(new))
        /\ dest = "v1" => new.count = Cardinality(ValuesShown(new.among[1], new.of))
        /\ dest = "narrow" => new.count = Cardinality(ValuesShown(new.among[2], new.of))
        /\ new.of.also => new.beside = Cardinality(ValuesIn(new.among[2], new.of))
    BY <2>2, <2>3, <2>4, <2>5
  <2>7. PreviewInv' <=> (\A shown \in preview' :
            /\ dest = "wide" => shown.count = Cardinality(RowsShown(shown))
            /\ dest = "v1" => shown.count = Cardinality(ValuesShown(shown.among[1], shown.of))
            /\ dest = "narrow" => shown.count = Cardinality(ValuesShown(shown.among[2], shown.of))
            /\ shown.of.also => shown.beside = Cardinality(ValuesIn(shown.among[2], shown.of)))
    BY <1>1 DEF PreviewInv, RowsShown, ValuesShown, ValuesIn, Named, Within
  <2> QED BY <2>1, <2>6, <2>7
<1> QED BY <1>2, <1>3, <1>4

\* What an edit of the narrow values of a plan reaches.
LEMMA NarrowReached ==
  ASSUME Triples(narrow), IsFunction(narrow), IsFiniteSet(narrow), NEW plan, NEW value,
         plan.action \in {"delete", "set_value"}, narrow' = NarrowValues(plan, value), dest' = dest
  PROVE  /\ plan.action = "delete" => narrow \ narrow' = ValuesIn(narrow, plan)
         /\ plan.action = "set_value" =>
              Cardinality(ValuesIn(narrow', plan)) = Cardinality(ValuesIn(narrow, plan))
<1> DEFINE old == ValuesIn(narrow, plan)
           new == {<<p[1], p[2], value>> : p \in old}
           reached == ValuesIn(narrow', plan)
<1>1. old \subseteq narrow /\ \A p \in old : Within(plan, p[1]) /\ p[2] \in Named(plan)
  BY DEF ValuesIn
<1>2. plan.action = "delete" => narrow' = narrow \ old
  BY DEF NarrowValues
<1>3. plan.action = "set_value" => narrow' = (narrow \ old) \cup new
  BY DEF NarrowValues
<1>4. IsFiniteSet(old) /\ IsFunction(old) /\ \A p \in old : p = <<p[1], p[2], p[3]>>
  <2>1. IsFiniteSet(old)
    BY <1>1, FS_Subset
  <2>2. IsFunction(old) /\ \A p \in old : p = <<p[1], p[2], p[3]>>
    BY <1>1 DEF IsFunction, Triples
  <2> QED BY <2>1, <2>2
<1>5. plan.action = "set_value" => reached = new
  <2> SUFFICES ASSUME plan.action = "set_value" PROVE reached = new
    OBVIOUS
  <2>1. \A p \in narrow \ old : ~(Within(plan, p[1]) /\ p[2] \in Named(plan))
    BY DEF ValuesIn
  <2>0. \A q : q \in reached <=> q \in narrow' /\ Within(plan, q[1]) /\ q[2] \in Named(plan)
    BY DEF ValuesIn
  <2> HIDE DEF old, reached
  <2>2. \A q \in new : Within(plan, q[1]) /\ q[2] \in Named(plan)
    BY <1>1
  <2> QED BY <1>3, <2>0, <2>1, <2>2
<1>6. Cardinality(new) = Cardinality(old)
  <2> HIDE DEF old
  <2> QED BY <1>4, ReplacedAreAsMany
<1> HIDE DEF new, reached
<1>7. plan.action = "set_value" => Cardinality(reached) = Cardinality(old)
  BY <1>5, <1>6
<1>8. plan.action = "delete" => narrow \ narrow' = old
  BY <1>1, <1>2
<1> QED BY <1>7, <1>8 DEF reached

\* With nothing changed in between, an edit reaches what its preview counted.
LEMMA PreviewsTell ==
  ASSUME SoundValues, "v3" \notin Destinations, ValueShape, ValueShape', CellsInv, PreviewInv, [EditNext]_valueVars
  PROVE  PreviewTells
<1> SUFFICES ASSUME Edited, NEW shown \in preview, shown.of = First
             PROVE  LET left == {p \in Table' : Within(First, p[1]) /\ p[2] \in First.fields}
                        gone == {p[1] : p \in points \ points'}
                    IN CASE editStep = "narrow" -> shown.among[2] = narrow =>
                                shown.beside = Cardinality(IF First.action = "delete" THEN narrow \ narrow' ELSE ValuesIn(narrow', First))
                         [] OTHER -> shown.among = <<points, narrow, nullRows>> =>
                            CASE Influx -> First.action = "delete" \/ shown.count = Cardinality(ValuesIn(points, First))
                              [] dest = "wide" ->
                                    IF First.action = "delete" THEN shown.count >= Cardinality(gone)
                                    ELSE shown.count * Cardinality(Named(First)) = Cardinality(left)
                              [] dest = "narrow" ->
                                    shown.count = Cardinality(IF First.action = "delete" THEN narrow \ narrow' ELSE left)
  BY DEF PreviewTells
<1> DEFINE left == {p \in Table' : Within(First, p[1]) /\ p[2] \in First.fields}
           gone == {p[1] : p \in points \ points'}
<1>1. dest' = dest /\ plans # <<>> /\ First \in ValuePlans /\ First.action \in {"delete", "set_value"}
      /\ dest \in {"v1", "wide", "narrow"}
  BY CarriedOut, FirstPlan, TimeShiftAssumption DEF ValuePlans, ValueShape
<1>2. CASE editStep = "narrow"
  <2> SUFFICES ASSUME shown.among[2] = narrow
               PROVE  shown.beside = Cardinality(IF First.action = "delete" THEN narrow \ narrow' ELSE ValuesIn(narrow', First))
    BY <1>2
  <2>1. dest = "wide" /\ First.also /\ shown.beside = Cardinality(ValuesIn(narrow, First))
    BY <1>2 DEF CellsInv, PreviewInv
  <2>2. PICK value : narrow' = NarrowValues(First, value)
    BY <1>2, <2>1, CarriedOut
  <2>3. Triples(narrow) /\ IsFunction(narrow) /\ IsFiniteSet(narrow)
    BY <2>1 DEF CellsInv, ValueShape
  <2>5. /\ First.action = "delete" => narrow \ narrow' = ValuesIn(narrow, First)
        /\ First.action = "set_value" => Cardinality(ValuesIn(narrow', First)) = Cardinality(ValuesIn(narrow, First))
    BY <1>1, <2>2, <2>3, NarrowReached
  <2> QED BY <1>1, <2>1, <2>5
<1>3. CASE editStep # "narrow" /\ dest = "v1"
  <2> SUFFICES ASSUME shown.among = <<points, narrow, nullRows>>
               PROVE  shown.count = Cardinality(ValuesIn(points, First))
    BY <1>3 DEF Influx
  <2>1. shown.count = Cardinality(ValuesShown(points, First))
    BY <1>3 DEF PreviewInv
  <2>2. ValuesShown(points, First) = ValuesIn(points, First)
    BY <1>3 DEF ValuesShown, ValuesIn, Named
  <2> QED BY <2>1, <2>2
<1>4. CASE editStep # "narrow" /\ dest = "narrow"
  <2> SUFFICES ASSUME shown.among = <<points, narrow, nullRows>>
               PROVE  shown.count = Cardinality(IF First.action = "delete" THEN narrow \ narrow' ELSE left)
    BY <1>4 DEF Influx
  <2>1. shown.count = Cardinality(ValuesShown(narrow, First))
    BY <1>4 DEF PreviewInv
  <2>2. ValuesShown(narrow, First) = ValuesIn(narrow, First) /\ Named(First) = First.fields /\ Table' = narrow'
    BY <1>1, <1>4 DEF ValuesShown, ValuesIn, Named, Table
  <2>3. Triples(narrow) /\ IsFunction(narrow) /\ IsFiniteSet(narrow)
    BY <1>4 DEF CellsInv, ValueShape
  <2>4. PICK value : narrow' = NarrowValues(First, value)
    BY <1>4, CarriedOut
  <2>5. /\ First.action = "delete" => narrow \ narrow' = ValuesIn(narrow, First)
        /\ First.action = "set_value" => Cardinality(left) = Cardinality(ValuesIn(narrow, First))
    <3>1. /\ First.action = "delete" => narrow \ narrow' = ValuesIn(narrow, First)
          /\ First.action = "set_value" => Cardinality(ValuesIn(narrow', First)) = Cardinality(ValuesIn(narrow, First))
      BY <1>1, <2>3, <2>4, NarrowReached
    <3>2. ValuesIn(narrow', First) = left
      BY <2>2 DEF ValuesIn
    <3> QED BY <3>1, <3>2
  <2> QED BY <1>1, <2>1, <2>2, <2>5
<1>5. CASE editStep # "narrow" /\ dest = "wide"
  <2> SUFFICES ASSUME shown.among = <<points, narrow, nullRows>>
               PROVE  IF First.action = "delete" THEN shown.count >= Cardinality(gone)
                      ELSE shown.count * Cardinality(Named(First)) = Cardinality(left)
    BY <1>5 DEF Influx
  <2> DEFINE value == [f \in Named(First) |-> NewValueOf(First, f)]
             times == RowsIn(First)
             grid == {<<t, f, value[f]>> : t \in times, f \in DOMAIN value}
  <2>1. points' = WideValues(First)
    BY <1>5, CarriedOut
  <2>2. shown.count = Cardinality(times)
    <3>1. RowsShown(shown) = times
      BY <1>5 DEF RowsShown, RowsIn, WideRows
    <3> QED BY <1>5, <3>1 DEF PreviewInv
  <2>3. IsFiniteSet(times) /\ Cardinality(times) \in Nat
    <3>1. IsFiniteSet(WideRows)
      <4>1. IsFiniteSet({p[1] : p \in points}) /\ IsFiniteSet(nullRows)
        BY <1>5, TimesAreFinite DEF CellsInv
      <4> QED BY <4>1, FS_Union DEF WideRows
    <3>2. times \subseteq WideRows
      BY <1>5 DEF RowsIn
    <3> QED BY <3>1, <3>2, FS_Subset, FS_CardinalityType
  <2>4. DOMAIN value = Named(First) /\ IsFiniteSet(Named(First)) /\ Named(First) = WideNamed(First)
    <3>1. Named(First) = WideNamed(First)
      BY <1>5, WideIs
    <3>2. IsFiniteSet(WideNamed(First))
      BY FS_Subset DEF WideNamed, SoundValues
    <3> QED BY <3>1, <3>2
  <2>5. \A t : t \in times <=> t \in WideRows /\ Within(First, t)
    BY <1>5 DEF RowsIn
  <2>6. \A p \in points : p[1] \in WideRows
    BY DEF WideRows
  <2>7. CASE First.action = "delete"
    <3>1. \A p \in points \ points' : Within(First, p[1])
      BY <2>1, <2>7 DEF WideValues, ValuesIn
    <3> HIDE DEF times
    <3>2. gone \subseteq times
      BY <2>5, <2>6, <3>1
    <3>3. Cardinality(gone) <= Cardinality(times)
      BY <2>3, <3>2, FS_Subset
    <3>4. Cardinality(gone) \in Nat
      BY <2>3, <3>2, FS_Subset, FS_CardinalityType
    <3> QED BY <2>2, <2>3, <2>7, <3>3, <3>4
  <2>8. CASE First.action = "set_value"
    <3>1. points' = {p \in points : ~(p[1] \in times /\ p[2] \in DOMAIN value)} \cup grid
      BY <2>1, <2>8 DEF WideValues, SetIn
    <3> HIDE DEF value, times
    <3>2. \A p \in grid : p[1] \in times /\ p[2] \in Named(First)
      BY <2>4
    <3>3. IsFiniteSet(grid) /\ Cardinality(grid) = Cardinality(times) * Cardinality(DOMAIN value)
      BY <2>3, <2>4, GridIsFinite
    <3> HIDE DEF grid
    <3>4. left = grid
      <4>1. \A p \in points' : p[2] \in DOMAIN ColumnType
        BY <1>1, <1>5 DEF ValueShape, FieldsOf
      <4>2. Table' = points'
        BY <1>1, <1>5 DEF Table
      <4>3. \A p \in points' : Within(First, p[1]) /\ p[2] \in First.fields => p \in grid
        BY <2>4, <2>5, <2>6, <3>1, <4>1 DEF WideNamed
      <4>4. \A p \in grid : p \in points' /\ Within(First, p[1]) /\ p[2] \in First.fields
        BY <2>4, <2>5, <3>1, <3>2 DEF WideNamed
      <4> QED BY <4>2, <4>3, <4>4
    <3> HIDE DEF left
    <3> QED BY <2>2, <2>4, <2>8, <3>3, <3>4
  <2> QED BY <1>1, <2>7, <2>8
<1> QED BY <1>1, <1>2, <1>3, <1>4, <1>5

\* The types of the Metrics Edit screens, at every destination: a table has one value of a
\* field at a time, and an edit in progress is of a plan that is still staged.
THEOREM ValueEditsTyped == FittingStore => (ValueEditsSpec => [](TimeShiftTypeOK /\ ValueEditsTypeOK))
<1> SUFFICES ASSUME FittingStore PROVE ValueEditsSpec => [](TimeShiftTypeOK /\ ValueEditsTypeOK)
  OBVIOUS
<1>1. TimeShiftInit /\ ValueEditsInit => ValueShape
  BY ValueShapeAtFirst
<1>2. ValueShape /\ [EditNext]_valueVars => ValueShape'
  BY ValueShapeStays
<1>3. ValueShape => TimeShiftTypeOK /\ ValueEditsTypeOK
  BY DEF ValueShape, TimeShiftTypeOK, ValueEditsTypeOK, NotExporting, NotImporting
<1> QED BY <1>1, <1>2, <1>3, PTL DEF ValueEditsSpec

\* An edit changes what it was asked to and nothing else, whatever the bridge writes between
\* its steps; the wide and the narrow table go on agreeing; a preview counts what the edit
\* will reach.
THEOREM ValueEditsStayExact ==
  SoundValues /\ "v3" \notin Destinations
    => (ValueEditsSpec => [][EditIsExact /\ TablesAgree' /\ PreviewTells]_valueVars)
<1> SUFFICES ASSUME SoundValues, "v3" \notin Destinations
             PROVE  ValueEditsSpec => [][EditIsExact /\ TablesAgree' /\ PreviewTells]_valueVars
  OBVIOUS
<1> DEFINE Inv == ValueShape /\ CellsInv /\ FetchInv /\ TablesInv /\ PreviewInv
<1>1. TimeShiftInit /\ ValueEditsInit => Inv
  <2>1. TimeShiftInit /\ ValueEditsInit => PreviewInv /\ FetchInv
    BY DEF ValueEditsInit, PreviewInv, FetchInv
  <2> QED BY <2>1, ValueShapeAtFirst, CellsAtFirst, TablesAtFirst DEF SoundValues
<1>2. Inv /\ [EditNext]_valueVars => Inv'
  BY ValueShapeStays, CellsStay, FetchedStays, TablesStay, PreviewStays DEF SoundValues
<1>3. Inv /\ [EditNext]_valueVars => [EditIsExact /\ TablesAgree' /\ PreviewTells]_valueVars
  <2> SUFFICES ASSUME Inv, [EditNext]_valueVars
               PROVE  EditIsExact /\ TablesAgree' /\ PreviewTells
    OBVIOUS
  <2>1. Inv'
    BY <1>2
  <2>2. EditIsExact
    BY <2>1, EditsAreExact
  <2>3. TablesAgree'
    BY <2>1 DEF TablesInv, TablesAgree
  <2>4. PreviewTells
    BY <2>1, PreviewsTell
  <2> QED BY <2>2, <2>3, <2>4
<1> QED BY <1>1, <1>2, <1>3, PTL DEF ValueEditsSpec

\* Fields keep their types, and what was accepted when it was staged is accepted by the
\* commit: of the narrow table and the wide one always, of InfluxDB 1 as long as each field
\* has a value no edit reaches. With the theorem above, all that is promised.
THEOREM ValueEditsStayTrue ==
  SoundValues /\ "v3" \notin Destinations /\ ("v1" \in Destinations => Outlasting(Stored))
    => (ValueEditsSpec => ValueEditsAreTrue)
<1> SUFFICES ASSUME SoundValues, "v3" \notin Destinations, "v1" \in Destinations => Outlasting(Stored)
             PROVE  ValueEditsSpec => ValueEditsAreTrue
  OBVIOUS
<1> DEFINE Inv == ValueShape /\ CellsInv /\ FetchInv /\ AcceptInv
<1>1. TimeShiftInit /\ ValueEditsInit => Inv
  <2>1. TimeShiftInit /\ ValueEditsInit => FetchInv
    BY DEF ValueEditsInit, FetchInv
  <2> QED BY <2>1, ValueShapeAtFirst, CellsAtFirst, TypesAtFirst DEF SoundValues
<1>2. Inv /\ [EditNext]_valueVars => Inv'
  BY ValueShapeStays, CellsStay, FetchedStays, TypesStay DEF SoundValues
<1>3. Inv => StagedIsAccepted
  BY AcceptedStaysSo
<1>4. Inv /\ [EditNext]_valueVars => [TypesHold /\ StagedIsAccepted']_valueVars
  <2> SUFFICES ASSUME Inv, [EditNext]_valueVars PROVE TypesHold /\ StagedIsAccepted'
    OBVIOUS
  <2>1. Inv'
    BY <1>2
  <2>2. TypesHold
    BY <2>1, TypesAreHeld, CarriedOut DEF TypesHold
  <2>3. StagedIsAccepted'
    BY <2>1, <1>3, PTL
  <2> QED BY <2>2, <2>3
<1>5. [EditIsExact /\ TablesAgree' /\ PreviewTells]_valueVars /\ [TypesHold /\ StagedIsAccepted']_valueVars
        => [EditIsExact /\ TypesHold /\ TablesAgree' /\ StagedIsAccepted' /\ PreviewTells]_valueVars
  OBVIOUS
<1>6. ValueEditsSpec => [][EditIsExact /\ TablesAgree' /\ PreviewTells]_valueVars
  BY ValueEditsStayExact
<1> QED BY <1>1, <1>2, <1>4, <1>5, <1>6, PTL DEF ValueEditsSpec, ValueEditsAreTrue
=============================================================================
