----------------------------- MODULE AdminEdits -----------------------------
(***************************************************************************)
(* Staged column deletions and value edits of the bridges' databases: how  *)
(* they are staged, taken back and discarded, and how "Commit All Changes" *)
(* applies them, one store after the other, each under its own lock.       *)
(***************************************************************************)
EXTENDS Naturals, Sequences, SequencesExt

CONSTANTS
    Committers,    \* requests that may commit at the same time
    Columns,       \* metric columns of the wide table
    EditedColumn,  \* the one the value edits are about
    MaxStaged,     \* bound: edits and column toggles
    MaxRefusals    \* bound: steps the databases fail

ASSUME AdminAssumption ==
    EditedColumn \in Columns /\ {MaxStaged, MaxRefusals} \subseteq Nat

VARIABLES
    staged,        \* what waits in each store: [columns, timescale, influx]
    holder,        \* who holds each store's lock, <<>> for nobody
    commit,        \* how far each request's commit has come
    wideColumns,   \* columns the wide table has
    rollups,       \* the protocol's rollups are there
    range,         \* what the edited range holds in the wide, the narrow and the influx table
    finished,      \* history: edits of each store removed as applied, in that order
    unstaged,      \* history: edits the admin took back, one by one or all of them
    changes, refusals  \* count what the bounds bound

adminVars == <<staged, holder, commit, wideColumns, rollups, range, finished, unstaged,
               changes, refusals>>

EditStores == {"timescale", "influx"}
Stores == EditStores \cup {"columns"}
EditIds == 1..MaxStaged
Tables == {"wide", "narrow", "influx"}

\* An edit's value is its id; of a wide edit, whether its narrow companion is to follow.
Edits == [id : EditIds, narrow : BOOLEAN]
Order == <<"columns", "timescale", "influx">>
Resting == [at |-> "rest"]

AdminInit ==
    /\ staged = [columns |-> {}, timescale |-> <<>>, influx |-> <<>>]
    /\ holder = [s \in Stores |-> <<>>] /\ commit = [c \in Committers |-> Resting]
    /\ wideColumns = Columns /\ rollups = TRUE
    /\ range = [t \in Tables |-> 0]
    /\ finished = [s \in EditStores |-> <<>>] /\ unstaged = {}
    /\ changes = 0 /\ refusals = 0

----------------------------------------------------------------------------
(* Staging. Each call takes its store's lock.                              *)

StagedIds(s) == IF s = "columns" THEN {} ELSE {staged[s][i].id : i \in DOMAIN staged[s]}

AdminActs == changes < MaxStaged /\ changes' = changes + 1

\* stage_field_deletion(): one checkbox.
StageColumn ==
    /\ AdminActs /\ holder["columns"] = <<>>
    /\ \E c \in wideColumns :
          staged' = [staged EXCEPT !["columns"] = IF c \in @ THEN @ \ {c} ELSE @ \cup {c}]
    /\ UNCHANGED <<holder, commit, wideColumns, rollups, range, finished, unstaged, refusals>>

\* stage_metric_edit(), which checks the column first.
StageEdit(s) ==
    /\ AdminActs /\ holder[s] = <<>>
    /\ s = "timescale" => EditedColumn \in wideColumns
    /\ \E both \in IF s = "timescale" THEN BOOLEAN ELSE {FALSE} :
          staged' = [staged EXCEPT ![s] = Append(@, [id |-> changes', narrow |-> both])]
    /\ UNCHANGED <<holder, commit, wideColumns, rollups, range, finished, unstaged, refusals>>

\* unstage_metric_edit()
Unstage(s) ==
    /\ holder[s] = <<>>
    /\ \E i \in DOMAIN staged[s] :
          /\ staged' = [staged EXCEPT ![s] = RemoveAt(@, i)]
          /\ unstaged' = unstaged \cup {staged[s][i].id}
    /\ UNCHANGED <<holder, commit, wideColumns, rollups, range, finished, changes, refusals>>

\* discard_changes() clears one store after the other; nothing depends on their order.
DiscardStore(s) ==
    /\ holder[s] = <<>>
    /\ staged' = [staged EXCEPT ![s] = IF s = "columns" THEN {} ELSE <<>>]
    /\ unstaged' = unstaged \cup StagedIds(s)
    /\ UNCHANGED <<holder, commit, wideColumns, rollups, range, finished, changes, refusals>>

----------------------------------------------------------------------------
(* do_commit(): the stores in turn                                         *)

Waits(s) == IF s = "columns" THEN staged[s] # {} ELSE staged[s] # <<>>

\* The next store with something staged is copied before its lock is taken.
NextPlan(i) ==
    LET later == {k \in i..Len(Order) : Waits(Order[k])}
    IN IF later = {} THEN Resting
       ELSE LET k == CHOOSE n \in later : \A m \in later : n <= m
            IN [at |-> "planned", store |-> k, plan |-> staged[Order[k]]]

StartCommit(c) ==
    /\ commit[c] = Resting /\ NextPlan(1) # Resting
    /\ commit' = [commit EXCEPT ![c] = NextPlan(1)]
    /\ UNCHANGED <<staged, holder, wideColumns, rollups, range, finished, unstaged, changes, refusals>>

Lock(c) ==
    /\ commit[c].at = "planned" /\ holder[Order[commit[c].store]] = <<>>
    /\ holder' = [holder EXCEPT ![Order[commit[c].store]] = <<c>>]
    /\ commit' = [commit EXCEPT ![c].at = "apply"]
    /\ UNCHANGED <<staged, wideColumns, rollups, range, finished, unstaged, changes, refusals>>

Applies(c, store) == commit[c].at \in {"apply", "narrow"} /\ Order[commit[c].store] = store

\* Mutant of Through: the lock is kept.
ThroughLocked(c) ==
    /\ holder' = holder
    /\ commit' = [commit EXCEPT ![c] = [at |-> "next", store |-> commit[c].store + 1]]

\* The store is through: on to the next one.
Through(c) ==
    /\ holder' = [holder EXCEPT ![Order[commit[c].store]] = <<>>]
    /\ commit' = [commit EXCEPT ![c] = [at |-> "next", store |-> commit[c].store + 1]]

\* An exception ends the commit with a 500: what is staged stays so.
Abort(c) ==
    /\ refusals < MaxRefusals /\ refusals' = refusals + 1
    /\ holder' = [holder EXCEPT ![Order[commit[c].store]] = <<>>]
    /\ commit' = [commit EXCEPT ![c] = Resting]
    /\ UNCHANGED <<staged, finished, unstaged, changes>>

\* delete_fields(): drop the rollups, drop the columns, build the rollups; nothing to drop, nothing done.
DropColumns(c) ==
    /\ Applies(c, "columns")
    /\ LET gone == commit[c].plan \cap wideColumns
       IN /\ gone # wideColumns
          /\ wideColumns' = wideColumns \ gone
          /\ rollups' = (rollups \/ gone # {})
    /\ staged' = [staged EXCEPT !["columns"] = {}]
    /\ Through(c)
    /\ UNCHANGED <<range, finished, unstaged, changes, refusals>>

\* It fails with nothing dropped, over the columns, or once they are gone over the rollups.
DropFails(c) ==
    /\ Applies(c, "columns")
    /\ LET gone == commit[c].plan \cap wideColumns
       IN \/ UNCHANGED <<wideColumns, rollups>>
          \/ gone \notin {{}, wideColumns} /\ wideColumns' \in {wideColumns, wideColumns \ gone}
             /\ rollups' = FALSE
    /\ Abort(c) /\ UNCHANGED range

\* store.pop(edit_id, None): one entry, if it is still there.
Popped(edits, id) ==
    LET at == {i \in DOMAIN edits : edits[i].id = id}
    IN IF at = {} THEN edits ELSE RemoveAt(edits, CHOOSE i \in at : TRUE)

\* An edit is through: it leaves its store.
Done(c, s) ==
    /\ finished' = [finished EXCEPT ![s] = Append(@, Head(commit[c].plan))]
    /\ staged' = [staged EXCEPT ![s] = Popped(@, Head(commit[c].plan).id)]
    /\ IF Len(commit[c].plan) = 1 THEN Through(c)
       ELSE /\ commit' = [commit EXCEPT ![c] = [at |-> "apply", store |-> @.store, plan |-> Tail(@.plan)]]
            /\ UNCHANGED holder

\* Mutant of WideDone: the edit leaves its store before its companion ran.
WideDoneEarly(c) == Done(c, "timescale")

\* The wide table is edited; the narrow companion is a transaction of its own.
WideDone(c) ==
    IF Head(commit[c].plan).narrow
    THEN commit' = [commit EXCEPT ![c].at = "narrow"] /\ UNCHANGED <<holder, staged, finished>>
    ELSE Done(c, "timescale")

\* edit_metric_values() of the wide table; a column that is gone is refused (EditFails).
EditWide(c) ==
    /\ Applies(c, "timescale") /\ commit[c].at = "apply" /\ EditedColumn \in wideColumns
    /\ range' = [range EXCEPT !["wide"] = Head(commit[c].plan).id]
    /\ WideDone(c)
    /\ UNCHANGED <<wideColumns, rollups, unstaged, changes, refusals>>

EditNarrow(c) ==
    /\ Applies(c, "timescale") /\ commit[c].at = "narrow"
    /\ range' = [range EXCEPT !["narrow"] = Head(commit[c].plan).id]
    /\ Done(c, "timescale")
    /\ UNCHANGED <<wideColumns, rollups, unstaged, changes, refusals>>

EditInflux(c) ==
    /\ Applies(c, "influx")
    /\ range' = [range EXCEPT !["influx"] = Head(commit[c].plan).id]
    /\ Done(c, "influx")
    /\ UNCHANGED <<wideColumns, rollups, unstaged, changes, refusals>>

EditFails(c) ==
    /\ Applies(c, "timescale") \/ Applies(c, "influx")
    /\ Abort(c) /\ UNCHANGED <<wideColumns, rollups, range>>

NextStore(c) ==
    /\ commit[c].at = "next"
    /\ commit' = [commit EXCEPT ![c] = NextPlan(commit[c].store)]
    /\ UNCHANGED <<staged, holder, wideColumns, rollups, range, finished, unstaged, changes, refusals>>

AdminNext ==
    \/ StageColumn
    \/ \E s \in EditStores : StageEdit(s) \/ Unstage(s)
    \/ \E s \in Stores : DiscardStore(s)
    \/ \E c \in Committers :
          \/ StartCommit(c) \/ Lock(c) \/ DropColumns(c) \/ DropFails(c) \/ EditWide(c)
          \/ EditNarrow(c) \/ EditInflux(c) \/ EditFails(c) \/ NextStore(c)

AdminSpec == AdminInit /\ [][AdminNext]_adminVars

----------------------------------------------------------------------------
(* What should hold                                                        *)

\* The types; a lock is held by the request that applies its store, and by that one only.
AdminTypeOK ==
    /\ staged["columns"] \subseteq Columns
    /\ \A s \in EditStores : \A i \in DOMAIN staged[s] : staged[s][i] \in Edits
    /\ wideColumns \subseteq Columns /\ wideColumns # {} /\ rollups \in BOOLEAN
    /\ range \in [Tables -> 0..MaxStaged] /\ unstaged \subseteq EditIds
    /\ \A c \in Committers : commit[c].at \in {"rest", "planned", "apply", "narrow", "next"}
    /\ \A s \in Stores : holder[s] \in {<<>>} \cup {<<c>> : c \in Committers}
    /\ \A s \in Stores, c \in Committers : holder[s] = <<c>> <=> Applies(c, s)

\* Whatever fails and is tried again, each edit is finished once and in the order in which the
\* edits were staged: "they are not applied a second time" (timescaledb.md).
FinishedOnceInOrder ==
    \A s \in EditStores : \A i, j \in DOMAIN finished[s] : i < j => finished[s][i].id < finished[s][j].id

\* n is what the last of these edits was to give, of those with a narrow companion or
\* without as narrows says; 0 if there is none.
IsLast(n, did, narrows) ==
    LET some == {i \in DOMAIN did : did[i].narrow \in narrows}
    IN \/ some = {} /\ n = 0
       \/ \E i \in some : n = did[i].id /\ \A j \in some : j <= i

\* The range holds in each table what the last finished edit made of it, the narrow companion
\* included; a wide value that is of no finished edit is of one that is still staged, so that
\* "retrying re-runs both" steps, or that the admin took back half-applied.
EditsReachTheirTables ==
    /\ IsLast(range["influx"], finished["influx"], BOOLEAN)
    /\ IsLast(range["narrow"], finished["timescale"], {TRUE})
    /\ \/ IsLast(range["wide"], finished["timescale"], BOOLEAN)
       \/ range["wide"] \in StagedIds("timescale") \cup unstaged

\* What the admin was told was unstaged is not applied afterwards.
UnstagedIsNotApplied ==
    [][\A s \in EditStores : finished'[s] # finished[s] => Last(finished'[s]).id \notin unstaged]_adminVars

\* A deletion that was reported done has its rollups rebuilt.
DeletionRebuilds ==
    [][\A c \in Committers : DropColumns(c) => rollups']_adminVars

\* Staged columns leave the store by being dropped, unstaged or discarded.
StagedColumnIsNotLost ==
    [][\A c \in Committers : DropColumns(c) => staged["columns"] \cap wideColumns' = {}]_adminVars

\* "Commit All Changes" does each staged edit once, in order and in every table it is for, through
\* failures between the wide transaction and its narrow companion (do_commit()).
EditsAreDoneOnce == FinishedOnceInOrder /\ EditsReachTheirTables
=============================================================================
