------------------------------ MODULE Rollups ------------------------------
(***************************************************************************)
(* The continuous aggregates of a TimescaleDB bridge (RollupManager). Each *)
(* raw table, the shared narrow one and the wide one of each protocol, has *)
(* a stack of views: hourly, daily, weekly, monthly. A view aggregates the *)
(* tier below it, the first and the last tier the raw table. A stack is    *)
(* set up by the registration of the protocol, by a reconnect, by the      *)
(* retune of the raw table, by the admin who rebuilds it, and after a      *)
(* column deletion: threads that share the database and the list of views  *)
(* to refresh. Every database step is a transaction of its own.            *)
(***************************************************************************)
EXTENDS Naturals, FiniteSets, Sequences, SequencesExt

CONSTANTS
    Wides,         \* protocols with a wide table
    Shared,        \* the key of the narrow stack, "shared_narrow"
    Tiers,         \* 4 in the code
    RollupActors,  \* a subset of {"main", "web", "retune"}
    MaxRollupStarts, MaxRollupErrors, MaxRollupTasks  \* bounds

ASSUME RollupsAssumption ==
    /\ IsFiniteSet(Wides) /\ Shared \notin Wides
    /\ Tiers \in Nat \ {0, 1} /\ "main" \in RollupActors
    /\ RollupActors \subseteq {"main", "web", "retune"}
    /\ {MaxRollupStarts, MaxRollupErrors, MaxRollupTasks} \subseteq Nat

Stacks == Wides \cup {Shared}
Views == [stack : Stacks, tier : 1..Tiers]
ViewOf(s, t) == [stack |-> s, tier |-> t]
StackViews(s) == {ViewOf(s, t) : t \in 1..Tiers}

FromRaw(v) == v.tier \in {1, Tiers}
SourceOf(v) == ViewOf(v.stack, v.tier - 1)

VARIABLES
    views,     \* the views that exist: view -> [fits, full], whether its bucket is the
               \* configured one and whether it aggregates every column of the catalog
    stale,     \* views that lack the newest readings
    known,     \* known_rollup_views, in the order of insertion
    complete,  \* protocols with rollup_setup_complete
    tasks,     \* actor -> the set-up it is in
    robbed,    \* history: stacks that lost views to the purge of another
    broken,    \* history: stacks whose last set-up raised
    uncertain, \* history: two set-ups overlapped in this process
    failed,    \* history: a set-up raised in this process
    rollupStarts, rollupErrors, rollupTasks  \* bounded by the constants

rollupHistory == <<robbed, broken, uncertain, failed>>
rollupBounds == <<rollupStarts, rollupErrors, rollupTasks>>
rollupVars == <<views, stale, known, complete, tasks, rollupHistory, rollupBounds>>

NoTask == [kind |-> "none", at |-> "idle", todo |-> <<>>, force |-> FALSE, left |-> <<>>, tier |-> 1]
Setup(kind, todo, force) ==
    [kind |-> kind, at |-> "scan", todo |-> todo, force |-> force, left |-> <<>>, tier |-> 1]

\* The narrow stack comes first.
InOrder(S) == (IF Shared \in S THEN <<Shared>> ELSE <<>>) \o SetToSeq(S \cap Wides)

\* The first protocol sets the narrow stack up, and every protocol its own.
Startup == Setup("setup", InOrder(Stacks), FALSE)
AtStart == [a \in RollupActors |-> IF a = "main" THEN Startup ELSE NoTask]

RollupInit ==
    /\ views = <<>> /\ stale = {} /\ known = <<>> /\ complete = {}
    /\ tasks = AtStart
    /\ robbed = {} /\ broken = {} /\ uncertain = FALSE /\ failed = FALSE
    /\ rollupStarts = 1 /\ rollupErrors = 0 /\ rollupTasks = 0

AllIdle == \A a \in RollupActors : tasks[a] = NoTask
Stack(a) == Head(tasks[a].todo)
Missing(s) == StackViews(s) \ DOMAIN views
----------------------------------------------------------------------------
(* What starts a set-up.                                                   *)

Begins(a, task) ==
    /\ tasks[a] = NoTask /\ rollupTasks < MaxRollupTasks
    /\ rollupTasks' = rollupTasks + 1
    /\ tasks' = [tasks EXCEPT ![a] = task]
    /\ uncertain' = (uncertain \/ ~AllIdle)
    /\ UNCHANGED <<views, stale, known, complete, robbed, broken, failed, rollupStarts, rollupErrors>>

\* rebuild_all_rollups(): the selected stacks.
Rebuild(S, force) == S # {} /\ Begins("web", Setup("rebuild", InOrder(S), force))

\* _do_retune_work().
Retune(s) == Begins("retune", Setup("retune", <<s>>, FALSE))

\* The views to drop, dependents first: all there are for the narrow stack
\* (_drop_all_continuous_aggregates()), the protocol's for a wide one.
DropList(s) ==
    IF s = Shared THEN FlattenSeq([i \in 1..Tiers |-> SetToSeq({v \in DOMAIN views : v.tier = Tiers + 1 - i})])
    ELSE [i \in 1..Tiers |-> ViewOf(s, Tiers + 1 - i)]

\* _rediscover_protocols(): the incomplete ones; the list of views is renewed after them.
RollupReconnect == Begins("main", Setup("reconnect", InOrder(Wides \ complete), FALSE))

\* delete_fields(): it drops the stack of the protocol before it drops columns.
DeleteColumns(p) ==
    Begins("web", [Setup("edit", <<p>>, FALSE) EXCEPT
                      !.at = "drop", !.left = DropList(p)])
----------------------------------------------------------------------------
(* A step of a set-up.                                                     *)

InTask(a, task) == tasks' = [tasks EXCEPT ![a] = task]

\* rebuild_all_rollups() and the registrations go on with the next stack.
NextStack(a) ==
    LET rest == Tail(tasks[a].todo)
    IN IF rest = <<>> /\ tasks[a].kind # "reconnect" THEN NoTask
       ELSE [tasks[a] EXCEPT !.at = "scan", !.todo = rest, !.tier = 1, !.left = <<>>]

\* Mutant of Raises: the failure is swallowed and the protocol marked complete.
RaisesUnnoticed(a) ==
    /\ InTask(a, NextStack(a))
    /\ complete' = complete \cup ({Stack(a)} \cap Wides)
    /\ UNCHANGED <<broken, failed>>

\* An exception: it is logged, and the protocol stays as complete as it was.
Raises(a) ==
    /\ InTask(a, NextStack(a))
    /\ broken' = broken \cup {Stack(a)} /\ failed' = TRUE
    /\ UNCHANGED complete

\* rollup_needs_rebuild() of each view: the bucket decides, and what is missing is
\* created without a purge.
ScanViews(a) ==
    /\ tasks[a].at = "scan" /\ tasks[a].todo # <<>>
    /\ LET s == Stack(a)
           purge == /\ DropList(s) # <<>>
                    /\ tasks[a].force \/ \E v \in StackViews(s) \cap DOMAIN views : ~views[v].fits
       IN InTask(a, IF purge THEN [tasks[a] EXCEPT !.at = "drop", !.left = DropList(s)]
                             ELSE [tasks[a] EXCEPT !.at = "create"])
    /\ UNCHANGED <<views, stale, known, complete, rollupHistory, rollupBounds>>

\* DROP ... CASCADE takes what is built on the view along.
OnTopOf(v) == {w \in DOMAIN views : w.stack = v.stack /\ w.tier > v.tier /\ w.tier < Tiers}
Fallen(v) == {v} \cup (IF v.tier = Tiers THEN {} ELSE OnTopOf(v))

Gone(S) ==
    /\ views' = [v \in DOMAIN views \ S |-> views[v]]
    /\ stale' = stale \ S

Without(list, v) ==
    IF v \in ToSet(list) THEN RemoveAt(list, CHOOSE i \in DOMAIN list : list[i] = v) ELSE list

\* One view of the purge. The narrow purge works from its list and raises on a view
\* that is gone; the wide one looks again, and takes the view off the refresh list.
DropView(a) ==
    /\ tasks[a].at = "drop" /\ tasks[a].left # <<>>
    /\ LET v == Head(tasks[a].left)
           there == v \in DOMAIN views
           goesOn == InTask(a, [tasks[a] EXCEPT !.left = Tail(@)])
       IN /\ IF ~there /\ Stack(a) = Shared
               THEN Raises(a)
               ELSE goesOn /\ UNCHANGED <<complete, broken, failed>>
          /\ IF there
               THEN /\ Gone(Fallen(v))
                    /\ known' = IF Stack(a) = Shared THEN known ELSE Without(known, v)
               ELSE UNCHANGED <<views, stale, known>>
          /\ robbed' = robbed \cup ({v.stack} \cap (Wides \ {Stack(a)}))
    /\ UNCHANGED <<uncertain, rollupBounds>>

\* The end of the purge: the narrow one forgets every view.
Purged(a) ==
    /\ tasks[a].at = "drop" /\ tasks[a].left = <<>> /\ tasks[a].kind # "edit"
    /\ known' = IF Stack(a) = Shared THEN <<>> ELSE known
    /\ InTask(a, [tasks[a] EXCEPT !.at = "create"])
    /\ UNCHANGED <<views, stale, complete, rollupHistory, rollupBounds>>

\* delete_fields(), after the views: "complete" is taken back, the columns go, and the
\* set-up follows.
ColumnsDeleted(a) ==
    /\ tasks[a].at = "drop" /\ tasks[a].left = <<>> /\ tasks[a].kind = "edit"
    /\ complete' = complete \ {Stack(a)}
    /\ InTask(a, [tasks[a] EXCEPT !.at = "scan", !.kind = "rebuild"])
    /\ UNCHANGED <<views, stale, known, rollupHistory, rollupBounds>>

\* Mutant of Listed: only a view that was just created is listed.
ListedWhenCreated(v) == IF v \in DOMAIN views THEN known ELSE Append(known, v)

\* A view is put on the refresh list once it is there.
Listed(v) == IF v \in ToSet(known) THEN known ELSE Append(known, v)

\* The columns of the catalog that a view selects have to be in its source.
Creatable(v) == FromRaw(v) \/ (SourceOf(v) \in DOMAIN views /\ views[SourceOf(v)].full)

\* _ensure_single_cagg_view_helper(): the policies of a view that exists are applied
\* again; another is created empty, with its policies, in one transaction.
CreateView(a) ==
    /\ tasks[a].at = "create" /\ tasks[a].tier <= Tiers
    /\ LET v == ViewOf(Stack(a), tasks[a].tier)
           goesOn == InTask(a, [tasks[a] EXCEPT !.tier = @ + 1])
       IN IF v \in DOMAIN views \/ Creatable(v)
            THEN /\ views' = IF v \in DOMAIN views THEN views
                             ELSE [w \in DOMAIN views \cup {v} |->
                                      IF w = v THEN [fits |-> TRUE, full |-> TRUE] ELSE views[w]]
                 /\ stale' = IF v \in DOMAIN views THEN stale ELSE stale \cup {v}
                 /\ known' = Listed(v)
                 /\ goesOn /\ UNCHANGED <<complete, broken, failed>>
            ELSE Raises(a) /\ UNCHANGED <<views, stale, known>>
    /\ UNCHANGED <<robbed, uncertain, rollupBounds>>

\* A lock timeout or a lost connection in a drop or a create. The narrow set-up may
\* start over, if setup_with_retry() takes the error for a lock timeout.
SetupStumbles(a) ==
    /\ tasks[a].at \in {"drop", "create"} /\ rollupErrors < MaxRollupErrors
    /\ rollupErrors' = rollupErrors + 1
    /\ \/ Raises(a)
       \/ /\ Stack(a) = Shared
          /\ InTask(a, [tasks[a] EXCEPT !.at = "scan", !.tier = 1, !.left = <<>>])
          /\ UNCHANGED <<complete, broken, failed>>
    /\ UNCHANGED <<views, stale, known, robbed, uncertain, rollupStarts, rollupTasks>>

\* A refresh of the views of a list, one after the other: a view is as fresh as its source.
Refreshed(list) ==
    FoldLeft(LAMBDA lagging, v :
                 IF v \in DOMAIN views /\ (FromRaw(v) \/ SourceOf(v) \notin lagging)
                 THEN lagging \ {v} ELSE lagging,
             stale, list)

\* The stack stands: it is refreshed and a protocol is marked complete.
Finish(a) ==
    /\ tasks[a].at = "create" /\ tasks[a].tier > Tiers
    /\ complete' = complete \cup ({Stack(a)} \cap Wides)
    /\ stale' = Refreshed(IF Stack(a) = Shared THEN known
                          ELSE [t \in 1..Tiers |-> ViewOf(Stack(a), t)])
    /\ robbed' = IF Missing(Stack(a)) = {} THEN robbed \ {Stack(a)} ELSE robbed
    /\ broken' = broken \ {Stack(a)}
    /\ InTask(a, NextStack(a))
    /\ UNCHANGED <<views, known, uncertain, failed, rollupBounds>>

\* repopulate_known_rollup_views(), after the protocols of a reconnect.
Repopulate ==
    /\ tasks["main"].kind = "reconnect" /\ tasks["main"].todo = <<>>
    /\ known' = FlattenSeq([i \in 1..(1 + Cardinality(Wides)) |->
                   [t \in 1..Tiers |-> ViewOf(InOrder(Stacks)[i], t)]])
    /\ InTask("main", NoTask)
    /\ UNCHANGED <<views, stale, complete, rollupHistory, rollupBounds>>
----------------------------------------------------------------------------
\* _refresh_rollup_loop_helper(): a pass over the list, not while a set-up has the
\* migration gate. An error ends the pass.
RefreshPass ==
    /\ AllIdle /\ stale' = Refreshed(known)
    /\ UNCHANGED <<views, known, complete, tasks, rollupHistory, rollupBounds>>

RefreshPassFails ==
    /\ AllIdle /\ rollupErrors < MaxRollupErrors /\ rollupErrors' = rollupErrors + 1
    /\ \E done \in 0..Len(known) : stale' = Refreshed(SubSeq(known, 1, done))
    /\ UNCHANGED <<views, known, complete, tasks, rollupHistory, rollupStarts, rollupTasks>>

\* Not while a set-up has the gate: the flush worker waits.
NewReadings ==
    /\ AllIdle /\ stale # DOMAIN views /\ stale' = DOMAIN views
    /\ UNCHANGED <<views, known, complete, tasks, rollupHistory, rollupBounds>>

\* A restart at any moment. The configuration may have changed: buckets that differ,
\* registers that are new.
RestartRollups(drifted, grown) ==
    /\ rollupStarts < MaxRollupStarts /\ rollupStarts' = rollupStarts + 1
    /\ views' = [v \in DOMAIN views |->
                    [fits |-> views[v].fits /\ ~drifted,
                     full |-> views[v].full /\ ~(grown /\ v.stack \in Wides)]]
    /\ known' = <<>> /\ tasks' = AtStart /\ uncertain' = FALSE /\ failed' = FALSE
    /\ UNCHANGED <<stale, complete, robbed, broken, rollupErrors, rollupTasks>>

SetupStep(a) ==
    \/ ScanViews(a) \/ DropView(a) \/ Purged(a) \/ ColumnsDeleted(a) \/ CreateView(a) \/ Finish(a)

RollupNext ==
    \/ \E a \in RollupActors : SetupStep(a) \/ SetupStumbles(a)
    \/ Repopulate
    \/ "web" \in RollupActors /\ \E S \in SUBSET Stacks, force \in BOOLEAN : Rebuild(S, force)
    \/ "web" \in RollupActors /\ \E p \in Wides : DeleteColumns(p)
    \/ "retune" \in RollupActors /\ \E s \in Stacks : Retune(s)
    \/ RollupReconnect
    \/ RefreshPass \/ RefreshPassFails \/ NewReadings
    \/ \E drifted \in BOOLEAN, grown \in BOOLEAN : RestartRollups(drifted, grown)

RollupSpec == RollupInit /\ [][RollupNext]_rollupVars
----------------------------------------------------------------------------
(* Properties. *)

RollupTypeOK ==
    /\ DOMAIN views \subseteq Views /\ stale \subseteq DOMAIN views
    /\ \A v \in DOMAIN views : views[v] \in [fits : BOOLEAN, full : BOOLEAN]
    /\ ToSet(known) \subseteq Views /\ Len(known) = Cardinality(ToSet(known))
    /\ complete \subseteq Wides /\ DOMAIN tasks = RollupActors
    /\ robbed \subseteq Wides /\ broken \subseteq Stacks /\ uncertain \in BOOLEAN

\* rollup_setup_complete "stops the retry" (setup_rollup()): a protocol that carries it has
\* its stack, through restarts, failures, and set-ups that overlap if none of them fails, except
\* when the purge of another stack or a later set-up that failed took views from it.
CompleteIsBuilt ==
    AllIdle /\ ~(uncertain /\ rollupErrors > 0) => \A p \in complete \ (robbed \cup broken) : Missing(p) = {}

\* No view is left out of the refresh: between set-ups each view that exists is on the list,
\* unless two of them overlapped, or the last one of a stack failed.
BuiltIsRefreshed ==
    AllIdle /\ ~uncertain /\ broken = {} => DOMAIN views \subseteq ToSet(known)

\* "Bottom-Up order ... ensures parent views have data available" (refresh_rollups()): in the
\* refresh list every view comes after its source.
BottomUp ==
    \A i, j \in 1..Len(known) : ~FromRaw(known[i]) /\ known[j] = SourceOf(known[i]) => j < i

\* Through rebuilds, deletions and restarts, as long as no set-up fails and none overlap.
RefreshIsBottomUp == ~uncertain /\ ~failed => BottomUp

\* The same after a failure: a purge that broke off leaves views on the list that are gone; the
\* next one passes over them (drop_protocol_rollup(), line 7127), and they keep their place.
OrderSurvivesFailure == ~uncertain => BottomUp

\* timescaledb.md:666, "A lower first number means a protocol's rollup setup has not finished":
\* complete is not taken back when views go.
CompleteIsWhole == AllIdle => \A p \in complete : Missing(p) = {}

\* rebuild_all_rollups(): "Which rollup groups to act on". A purge of the narrow stack takes
\* the views of every protocol.
OthersAreLeftAlone == robbed = {}

\* The comment at timescaledb.py:1821: a schema change resets the flag, so that the views are
\* rebuilt. New registers never do.
ViewsCoverCatalog ==
    AllIdle => \A p \in complete, t \in 1..Tiers :
        ViewOf(p, t) \in DOMAIN views => views[ViewOf(p, t)].full

\* timescaledb.md:520: "Rebuild Rollups" mends a group with a missing view. It creates what is
\* missing on the views that are there, which fails when those lack a column.
RebuildMends ==
    [][\A a \in RollupActors : tasks[a].kind = "rebuild" /\ rollupErrors = 0 /\ ~uncertain
          /\ tasks[a].todo # <<>> /\ tasks'[a] = NextStack(a) => Missing(Stack(a)) = {}]_rollupVars

\* The three together: views are built, on the refresh list, and refreshed after their sources.
RollupsAreTrue == CompleteIsBuilt /\ BuiltIsRefreshed /\ RefreshIsBottomUp
=============================================================================
