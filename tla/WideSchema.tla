---------------------------- MODULE WideSchema ----------------------------
(***************************************************************************)
(* The wide table of one protocol and what a TimescaleDB bridge believes   *)
(* of it: registration creates the table and its columns, metric_catalog   *)
(* names them, the flush worker maps each reading onto them, an admin      *)
(* deletes columns, and a reconnect restores all of it from the database.  *)
(*                                                                         *)
(* declared is what the transport reports, a metric and its type; ColumnOf *)
(* is _clean_column_name(), which may give two metrics one column. A       *)
(* reading is the set of declared metrics; values are left out.            *)
(***************************************************************************)
EXTENDS Naturals, FiniteSets, Sequences, SequencesExt

CONSTANTS
    Metrics,       \* variable names
    ColumnOf,      \* metric -> column
    ColumnTypes,   \* Postgres types
    WideLimit,     \* WIDE_TABLE_COLUMN_LIMIT
    MaxSchemaStarts, MaxSchemaOutages, MaxDeletions  \* bounds

ASSUME WideSchemaAssumption ==
    /\ IsFiniteSet(Metrics) /\ ColumnTypes # {} /\ Metrics \subseteq DOMAIN ColumnOf
    /\ {WideLimit, MaxSchemaStarts, MaxSchemaOutages, MaxDeletions} \subseteq Nat

Cols == {ColumnOf[m] : m \in Metrics}
Entries == [col : Cols, type : ColumnTypes]
Partial(S, T) == UNION {[D -> T] : D \in SUBSET S}

VARIABLES
    declared,    \* metric -> type, as _extract_metric_names() gives them
    registry,    \* protocol_registry has the protocol's row
    wideTable,   \* the wide table exists
    columns,     \* its columns: name -> type
    catalog,     \* metric_catalog: metric -> [col, type]
    reachable,   \* the database answers
    step,        \* of the registration under way, "none" without one
    outcome,     \* of the last registration: "none", "wide", "narrow", "failed"
    route,       \* _protocol_wide_table_map: "unset", "wide" or "narrow" (None)
    mapping,     \* protocol_metric_mappings: metric -> [col, type]
    cache,       \* _wide_columns_cache, the column names of the wide table
    reflected,   \* Base.metadata has the wide table
    device,      \* device_info_id resolved and verified
    inFlush,     \* the reading in the worker's hands
    deleting,    \* delete_fields(): [at, cols]
    restore,     \* _rediscover_protocols(): [at, cols, catalog, sound], what it has read
    gate,        \* claims on migration_in_progress
    deleted,     \* history: a declared metric lost its column to an admin
    uprooted,    \* history: a reconnect put the protocol on a table that
                 \* registration had not given it
    misfit,      \* history: a reading was dropped for its columns
    unsynced,    \* history: columns went, and the table was not reflected again
    blurred,     \* history: columns went between the reads and the writes of a restore, or
                 \* were not read back; a restore no deletion overlaps mends it
    lives, outages, deletions  \* bounded by the constants

dbVars == <<registry, wideTable, columns, catalog>>
memVars == <<step, outcome, route, mapping, cache, reflected, device>>
wideHistory == <<deleted, uprooted, misfit, unsynced, blurred>>
wideBounds == <<lives, outages, deletions>>
wideVars == <<declared, dbVars, reachable, memVars, inFlush, deleting, restore, gate, wideHistory,
              wideBounds>>

NoDeletion == [at |-> "none", cols |-> {}]
NoRestore == [at |-> "none", cols |-> {}, catalog |-> <<>>, sound |-> FALSE]
NoReading == [at |-> "none", wide |-> FALSE, keys |-> {}]

\* A started process: nothing is known but what the transport declares.
Forgotten ==
    /\ step' = "upsert" /\ outcome' = "none" /\ route' = "unset"
    /\ mapping' = <<>> /\ cache' = {} /\ reflected' = FALSE /\ device' = FALSE
    /\ inFlush' = NoReading /\ deleting' = NoDeletion /\ restore' = NoRestore /\ gate' = 0
    /\ deleted' = FALSE /\ uprooted' = FALSE /\ misfit' = FALSE /\ unsynced' = FALSE
    /\ blurred' = FALSE

Declarations == {d \in Partial(Metrics, ColumnTypes) : d # <<>>}

WideInit ==
    /\ declared \in Declarations
    /\ registry = FALSE /\ wideTable = FALSE /\ columns = <<>> /\ catalog = <<>>
    /\ reachable = TRUE
    /\ step = "upsert" /\ outcome = "none" /\ route = "unset"
    /\ mapping = <<>> /\ cache = {} /\ reflected = FALSE /\ device = FALSE
    /\ inFlush = NoReading /\ deleting = NoDeletion /\ restore = NoRestore /\ gate = 0
    /\ deleted = FALSE /\ uprooted = FALSE /\ misfit = FALSE /\ unsynced = FALSE /\ blurred = FALSE
    /\ lives = 1 /\ outages = 0 /\ deletions = 0
----------------------------------------------------------------------------
(* Registration: _register_protocol_schema(), one transaction per step.    *)

Stops(result, where) ==
    /\ step' = "none" /\ outcome' = result /\ route' = where

\* An exception on the way: init_bridge() remembers the protocol for the next
\* reconnect. (Not in the columns step, whose exceptions are caught.)
RegistrationRaises ==
    /\ step \in {"upsert", "table"} /\ ~reachable
    /\ Stops("failed", route)
    /\ UNCHANGED <<declared, dbVars, reachable, mapping, cache, reflected, device, inFlush, deleting,
                   restore, gate, wideHistory, wideBounds>>

\* _upsert_protocol_registry(), always with the name of the wide table.
UpsertRegistry ==
    /\ step = "upsert" /\ reachable
    /\ registry' = TRUE
    /\ IF Cardinality(DOMAIN declared) >= WideLimit
         THEN Stops("narrow", "narrow")
         ELSE step' = "table" /\ UNCHANGED <<outcome, route>>
    /\ UNCHANGED <<declared, wideTable, columns, catalog, reachable, mapping, cache, reflected, device,
                   inFlush, deleting, restore, gate, wideHistory, wideBounds>>

\* _ensure_wide_table_exists(): CREATE TABLE IF NOT EXISTS.
EnsureWideTable ==
    /\ step = "table" /\ reachable
    /\ wideTable' = TRUE /\ reflected' = TRUE /\ step' = "columns"
    /\ UNCHANGED <<declared, registry, columns, catalog, reachable, outcome, route, mapping, cache,
                   device, inFlush, deleting, restore, gate, wideHistory, wideBounds>>

\* Mutant of Known: the catalog believes the declaration.
KnownAsDeclared(db, m, casts) ==
    LET col == db.catalog[m].col
    IN [columns |-> IF col \in DOMAIN db.columns /\ col \in casts
                    THEN [db.columns EXCEPT ![col] = declared[m]] ELSE db.columns,
        catalog |-> [db.catalog EXCEPT ![m].type = declared[m]]]

\* One metric of _ensure_columns_for_metrics(). A column whose type has drifted
\* from the declared one is migrated if its data casts, otherwise the catalog
\* keeps the type it has. A column that is there already is not looked at when
\* the catalog does not know the metric.
Known(db, m, casts) ==
    LET col == db.catalog[m].col
        drifted == col \in DOMAIN db.columns /\ db.columns[col] # declared[m]
        type == IF drifted /\ col \notin casts THEN db.columns[col] ELSE declared[m]
    IN [columns |-> IF col \in DOMAIN db.columns THEN [db.columns EXCEPT ![col] = type]
                    ELSE db.columns,
        catalog |-> [db.catalog EXCEPT ![m].type = type]]

New(db, m) ==
    LET col == ColumnOf[m]
    IN [columns |-> IF col \in DOMAIN db.columns THEN db.columns
                    ELSE [c \in DOMAIN db.columns \cup {col} |->
                             IF c = col THEN declared[m] ELSE db.columns[c]],
        catalog |-> [n \in DOMAIN db.catalog \cup {m} |->
                        IF n = m THEN [col |-> col, type |-> declared[m]] ELSE db.catalog[n]]]

Ensured(casts) ==
    FoldLeft(LAMBDA db, m : IF m \in DOMAIN db.catalog THEN Known(db, m, casts) ELSE New(db, m),
             [columns |-> columns, catalog |-> catalog], SetToSeq(DOMAIN declared))

\* The transaction commits and the column cache and the ORM table are read back.
EnsureColumns(casts) ==
    LET db == Ensured(casts)
    IN /\ step = "columns" /\ reachable
       /\ columns' = db.columns /\ catalog' = db.catalog
       /\ mapping' = [m \in DOMAIN mapping \cup DOMAIN declared |->
                         IF m \in DOMAIN declared THEN db.catalog[m] ELSE mapping[m]]
       /\ cache' = DOMAIN db.columns /\ reflected' = TRUE
       /\ Stops("wide", "wide")
       /\ UNCHANGED <<declared, registry, wideTable, reachable, device, inFlush, deleting, restore, gate,
                      wideHistory, wideBounds>>

\* It rolls back: "Wide table will not be used". What was mapped before the
\* failure stays mapped, and the protocol counts as registered.
ColumnsFail ==
    /\ step = "columns" /\ ~reachable
    /\ \E done \in SUBSET DOMAIN declared :
          mapping' = [m \in DOMAIN mapping \cup done |->
                        IF m \in done THEN Ensured({}).catalog[m] ELSE mapping[m]]
    /\ Stops("narrow", "narrow")
    /\ UNCHANGED <<declared, dbVars, reachable, cache, reflected, device, inFlush, deleting, restore,
                   gate, wideHistory, wideBounds>>

\* The columns are committed and the database goes before the table is reflected again: the
\* message says "rolled back".
ColumnsUnread(casts) ==
    LET db == Ensured(casts)
    IN /\ step = "columns" /\ reachable /\ outages < MaxSchemaOutages
       /\ columns' = db.columns /\ catalog' = db.catalog
       /\ mapping' = [m \in DOMAIN mapping \cup DOMAIN declared |->
                         IF m \in DOMAIN declared THEN db.catalog[m] ELSE mapping[m]]
       /\ cache' \in {cache, DOMAIN db.columns} /\ reflected' = FALSE
       /\ Stops("narrow", "narrow")
       /\ reachable' = FALSE /\ outages' = outages + 1
       /\ UNCHANGED <<declared, registry, wideTable, device, inFlush, deleting, restore, gate,
                      wideHistory, lives, deletions>>
----------------------------------------------------------------------------
(* A reconnect: _rediscover_protocols(), after the failed registration has *)
(* been retried.                                                           *)

RetryFailedRegistration ==
    /\ outcome = "failed" /\ step = "none" /\ reachable
    /\ step' = "upsert" /\ outcome' = "none"
    /\ UNCHANGED <<declared, dbVars, reachable, route, mapping, cache, reflected, device, inFlush,
                   deleting, restore, gate, wideHistory, wideBounds>>

\* The protocol goes to the table its registry row names; a table that is not there leaves
\* the cache and the mapping as they were.
RestoreRoute ==
    /\ step = "none" /\ outcome # "failed" /\ reachable /\ registry /\ outages > 0
    /\ restore = NoRestore /\ route' = "wide"
    /\ uprooted' = (uprooted \/ route # "wide")
    /\ restore' = IF wideTable THEN [NoRestore EXCEPT !.at = "routed", !.sound = TRUE] ELSE restore
    /\ UNCHANGED <<declared, dbVars, reachable, step, outcome, mapping, cache, reflected, device, inFlush,
                   deleting, gate, deleted, misfit, unsynced, blurred, wideBounds>>

\* What it restores is read and stored in two steps, without schema_lock: the columns in
\* _cache_wide_table_columns(), after the table is reflected, the catalog in
\* _restore_metric_mapping().
ReadColumns ==
    /\ restore.at = "routed" /\ reachable /\ reflected' = TRUE
    /\ restore' = [restore EXCEPT !.at = "columns", !.cols = DOMAIN columns]
    /\ UNCHANGED <<declared, dbVars, reachable, step, outcome, route, mapping, cache, device, inFlush,
                   deleting, gate, wideHistory, wideBounds>>

RestoreCache ==
    /\ restore.at = "columns" /\ cache' = restore.cols
    /\ restore' = [restore EXCEPT !.at = "cached", !.cols = {}]
    /\ UNCHANGED <<declared, dbVars, reachable, step, outcome, route, mapping, reflected, device, inFlush,
                   deleting, gate, wideHistory, wideBounds>>

ReadCatalog ==
    /\ restore.at = "cached" /\ reachable
    /\ restore' = [restore EXCEPT !.at = "catalog", !.catalog = catalog]
    /\ UNCHANGED <<declared, dbVars, reachable, memVars, inFlush, deleting, gate, wideHistory, wideBounds>>

RestoreMapping ==
    /\ restore.at = "catalog" /\ mapping' = restore.catalog
    /\ restore' = NoRestore /\ blurred' = (blurred /\ ~restore.sound)
    /\ UNCHANGED <<declared, dbVars, reachable, step, outcome, route, cache, reflected, device, inFlush,
                   deleting, gate, deleted, uprooted, misfit, unsynced, wideBounds>>

\* A connection that is lost again ends it; while the columns are read this is only logged.
RestoreFails ==
    /\ ~reachable
    /\ \/ restore.at \in {"routed", "cached"} /\ restore' = NoRestore /\ UNCHANGED reflected
       \/ /\ restore.at = "routed" /\ reflected' = TRUE
          /\ restore' = [restore EXCEPT !.at = "cached", !.sound = FALSE]
    /\ UNCHANGED <<declared, dbVars, reachable, step, outcome, route, mapping, cache, device, inFlush,
                   deleting, gate, wideHistory, wideBounds>>
----------------------------------------------------------------------------
(* A reading: write_data(), then the flush worker.                         *)

\* _get_or_create_device(): the id is looked up once per process; a packet whose
\* device cannot be resolved is dropped.
ResolveDevice ==
    /\ ~device /\ reachable /\ device' = TRUE
    /\ UNCHANGED <<declared, dbVars, reachable, step, outcome, route, mapping, cache, reflected, inFlush,
                   deleting, restore, gate, wideHistory, wideBounds>>

\* write_data(): the payload carries the route of this moment.
TakeReading ==
    /\ device /\ inFlush = NoReading /\ step = "none"
    /\ inFlush' = [at |-> "queued", wide |-> route = "wide", keys |-> {}]
    /\ UNCHANGED <<declared, dbVars, reachable, memVars, deleting, restore, gate, wideHistory, wideBounds>>

\* _process_raw_metrics(): the columns of the reading. A metric nobody mapped goes
\* by its own name, a column only if it is one as it stands.
KeyOf(m) == IF m \in DOMAIN mapping THEN mapping[m].col ELSE m
KeysOf == {KeyOf(m) : m \in DOMAIN declared}

Dropped == inFlush' = NoReading /\ misfit' = TRUE
Handled == inFlush' = NoReading /\ UNCHANGED misfit

\* _validate_wide_row(): keys without a column drop the reading, unless a look at
\* the table finds them.
PrepareReading ==
    /\ inFlush.at = "queued" /\ gate = 0 /\ reachable
    /\ IF ~inFlush.wide
         THEN /\ inFlush' = [inFlush EXCEPT !.at = "ready"]
              /\ UNCHANGED <<cache, reflected, misfit>>
         ELSE LET known == KeysOf \subseteq cache \/ ~wideTable
              IN /\ cache' = IF known THEN cache ELSE DOMAIN columns
                 /\ reflected' = (reflected \/ ~known)
                 /\ IF KeysOf \subseteq cache'
                      THEN /\ inFlush' = [inFlush EXCEPT !.at = "ready", !.keys = KeysOf]
                           /\ UNCHANGED misfit
                      ELSE Dropped
    /\ UNCHANGED <<declared, dbVars, reachable, step, outcome, route, mapping, device, deleting, restore,
                   gate, deleted, uprooted, unsynced, blurred, wideBounds>>

\* The insert into both tables, in one transaction, under schema_lock. Without the ORM table
\* it is a KeyError.
WriteReading ==
    /\ inFlush.at = "ready" /\ gate = 0 /\ reachable
    /\ IF inFlush.wide /\ ~(reflected /\ inFlush.keys \subseteq DOMAIN columns) THEN Dropped ELSE Handled
    /\ UNCHANGED <<declared, dbVars, reachable, memVars, deleting, restore, gate, deleted, uprooted,
                   unsynced, blurred, wideBounds>>

\* The database cannot be reached. A reading that is about to be written is kept (FlushPipeline);
\* one whose columns have to be looked for is dropped, and the ORM table may go with it.
Unmatched == inFlush.at = "queued" /\ inFlush.wide /\ ~(KeysOf \subseteq cache)

KeepReading ==
    /\ inFlush.at \in {"queued", "ready"} /\ gate = 0 /\ ~reachable
    /\ IF Unmatched THEN Dropped /\ reflected' \in {FALSE, wideTable} ELSE Handled /\ UNCHANGED reflected
    /\ UNCHANGED <<declared, dbVars, reachable, step, outcome, route, mapping, cache, device, deleting,
                   restore, gate, deleted, uprooted, unsynced, blurred, wideBounds>>
----------------------------------------------------------------------------
(* delete_fields(): the gate is claimed first.                             *)

StartDeleting(cols) ==
    /\ deleting = NoDeletion /\ step = "none" /\ route = "wide" /\ wideTable /\ reachable
    /\ deletions < MaxDeletions /\ deletions' = deletions + 1
    /\ LET shown == {catalog[m].col : m \in DOMAIN catalog}
       IN cols \subseteq shown /\ cols # {} /\ cols # shown
    /\ deleting' = [at |-> "planned", cols |-> cols] /\ gate' = gate + 1
    /\ UNCHANGED <<declared, dbVars, reachable, memVars, inFlush, restore, wideHistory, lives, outages>>

\* One catalog row per deleted column is deleted with it: {column: id} keeps one
\* of the rows that share a column.
CatalogAfter(cols) ==
    {left \in SUBSET DOMAIN catalog :
        /\ \A m \in DOMAIN catalog : catalog[m].col \notin cols => m \in left
        /\ \A c \in cols :
              Cardinality({m \in DOMAIN catalog \ left : catalog[m].col = c}) = 1}

\* Columns and catalog rows go in one transaction.
DropWideColumns ==
    /\ deleting.at = "planned" /\ reachable
    /\ columns' = [c \in DOMAIN columns \ deleting.cols |-> columns[c]]
    /\ \E left \in CatalogAfter(deleting.cols) : catalog' = [m \in left |-> catalog[m]]
    /\ deleting' = [deleting EXCEPT !.at = "dropped"]
    /\ restore' = [restore EXCEPT !.sound = FALSE]
    /\ deleted' = (deleted \/ \E m \in DOMAIN declared : KeyOf(m) \in deleting.cols)
    /\ blurred' = (blurred \/ restore.at \in {"columns", "catalog"})
    /\ UNCHANGED <<declared, registry, wideTable, reachable, memVars, inFlush, gate, uprooted, misfit,
                   unsynced, wideBounds>>

\* sync_single_table_schema(): the ORM table and the cache follow.
SyncColumns ==
    /\ deleting.at = "dropped" /\ reachable
    /\ cache' = DOMAIN columns /\ reflected' = TRUE
    /\ deleting' = [deleting EXCEPT !.at = "synced"]
    /\ UNCHANGED <<declared, dbVars, reachable, step, outcome, route, mapping, device, inFlush, restore,
                   gate, wideHistory, wideBounds>>

\* The columns are gone, and the table cannot be reflected again: the deletion ends there, with
\* its mapping. A cache that cannot be read is only logged.
SyncFails ==
    /\ deleting.at = "dropped" /\ ~reachable /\ blurred' = TRUE
    /\ \/ /\ reflected' = FALSE /\ unsynced' = TRUE
          /\ deleting' = NoDeletion /\ gate' = gate - 1
       \/ /\ reflected' = TRUE /\ deleting' = [deleting EXCEPT !.at = "synced"]
          /\ UNCHANGED <<unsynced, gate>>
    /\ UNCHANGED <<declared, dbVars, reachable, step, outcome, route, mapping, cache, device, inFlush,
                   restore, deleted, uprooted, misfit, wideBounds>>

\* Mutant of ForgetColumns: the mapping is left for the next start.
ForgetColumnsNever ==
    /\ deleting.at = "synced"
    /\ deleting' = NoDeletion /\ gate' = gate - 1
    /\ UNCHANGED <<declared, dbVars, reachable, memVars, inFlush, restore, wideHistory, wideBounds>>

\* The mapping of the deleted columns goes, then the rollups are rebuilt (Rollups).
ForgetColumns ==
    /\ deleting.at = "synced"
    /\ mapping' = [m \in {n \in DOMAIN mapping : mapping[n].col \notin deleting.cols} |-> mapping[m]]
    /\ deleting' = NoDeletion /\ gate' = gate - 1
    /\ UNCHANGED <<declared, dbVars, reachable, step, outcome, route, cache, reflected, device, inFlush,
                   restore, wideHistory, wideBounds>>

\* A deletion that cannot go on gives the gate back (its finally block).
DeletingFails ==
    /\ deleting.at = "planned" /\ ~reachable
    /\ deleting' = NoDeletion /\ gate' = gate - 1
    /\ UNCHANGED <<declared, dbVars, reachable, memVars, inFlush, restore, wideHistory, wideBounds>>
----------------------------------------------------------------------------
(* The world.                                                              *)

LoseDatabase ==
    /\ reachable /\ outages < MaxSchemaOutages
    /\ reachable' = FALSE /\ outages' = outages + 1
    /\ UNCHANGED <<declared, dbVars, memVars, inFlush, deleting, restore, gate, wideHistory, lives, deletions>>

DatabaseReturns ==
    /\ ~reachable /\ reachable' = TRUE
    /\ UNCHANGED <<declared, dbVars, memVars, inFlush, deleting, restore, gate, wideHistory, wideBounds>>

\* A restart, with the registers or the mask changed or not, at any moment.
RestartWide ==
    /\ lives < MaxSchemaStarts /\ lives' = lives + 1
    /\ declared' \in Declarations
    /\ Forgotten
    /\ UNCHANGED <<dbVars, reachable, outages, deletions>>

WideNext ==
    \/ RegistrationRaises \/ UpsertRegistry \/ EnsureWideTable
    \/ \E casts \in SUBSET Cols : EnsureColumns(casts) \/ ColumnsUnread(casts)
    \/ ColumnsFail \/ RetryFailedRegistration
    \/ RestoreRoute \/ ReadColumns \/ RestoreCache \/ ReadCatalog \/ RestoreMapping \/ RestoreFails
    \/ ResolveDevice \/ TakeReading \/ PrepareReading \/ WriteReading \/ KeepReading
    \/ \E cols \in SUBSET Cols : StartDeleting(cols)
    \/ DropWideColumns \/ SyncColumns \/ SyncFails \/ ForgetColumns \/ DeletingFails
    \/ LoseDatabase \/ DatabaseReturns \/ RestartWide

WideSpec == WideInit /\ [][WideNext]_wideVars
----------------------------------------------------------------------------
(* Properties. *)

WideTypeOK ==
    /\ declared \in Declarations /\ columns \in Partial(Cols, ColumnTypes)
    /\ catalog \in Partial(Metrics, Entries) /\ mapping \in Partial(Metrics, Entries)
    /\ {registry, wideTable, reachable, reflected, device} \subseteq BOOLEAN
    /\ {deleted, uprooted, misfit, unsynced, blurred} \subseteq BOOLEAN
    /\ step \in {"none", "upsert", "table", "columns"}
    /\ outcome \in {"none", "wide", "narrow", "failed"} /\ route \in {"unset", "wide", "narrow"}
    /\ cache \subseteq Cols /\ gate = IF deleting = NoDeletion THEN 0 ELSE 1
    /\ restore.cols \subseteq Cols /\ restore.catalog \in Partial(Metrics, Entries)
    /\ columns # <<>> => wideTable

\* metric_catalog "never claims a type the physical column doesn't actually have"
\* (_ensure_columns_for_metrics()): through declarations that change, casts that
\* fail, deletions and restarts. Each metric has a column to itself.
CatalogIsTrue ==
    \A m \in DOMAIN catalog :
        /\ catalog[m].col \in DOMAIN columns
        /\ catalog[m].type = columns[catalog[m].col]

\* The worker's picture of the table is the table, while nobody is changing it and the
\* protocol is on the table that registration gave it: unless a deletion met a reconnect that
\* had already read what it restores, or could not read the table back. The next reconnect
\* mends it.
PictureIsTrue ==
    route = "wide" /\ ~uprooted /\ ~blurred /\ deleting = NoDeletion /\ step = "none" =>
        /\ cache = DOMAIN columns
        /\ \A m \in DOMAIN mapping : m \in DOMAIN catalog /\ mapping[m] = catalog[m]

\* A reading is dropped for its columns only when an admin deleted a column the transport
\* still reports (the comment at timescaledb.py:2695), after a reconnect moved the protocol, or
\* after a deletion that left the table without its ORM counterpart.
MisfitsAreOwed == misfit => deleted \/ uprooted \/ unsynced

\* "So in-flight/next writes see the new shape immediately" (timescaledb.py:9512), of any reconnect
\* and any failure: a picture that is behind the table, as PictureIsTrue excuses it.
PictureStaysTrue ==
    route = "wide" /\ ~uprooted /\ deleting = NoDeletion /\ restore = NoRestore => cache = DOMAIN columns

\* The comment at timescaledb.py:1787 and "Wide table will not be used" (2327): a protocol
\* registered for the narrow table stays there.
NarrowStaysNarrow == ~uprooted

\* The three together: what the catalog, the worker and the dropped readings say of the table.
WideTableIsTrue == CatalogIsTrue /\ PictureIsTrue /\ MisfitsAreOwed
=============================================================================
