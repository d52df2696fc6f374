--------------------------- MODULE GatewayManager ---------------------------
(***************************************************************************)
(* GatewayManager (protocol_gateway.py) with everything that writes        *)
(* config.cfg or asks for a reload: the web UI's commit, rollback and      *)
(* reload handlers and the FileWatcher's debounce timer. It owns the       *)
(* current Protocol_Gateway (module GatewayLifecycle) and replaces it:     *)
(* stop the old one, build the new one, or fall back to the last backup.   *)
(*                                                                         *)
(* A configuration is a model value; what the code does with its text is   *)
(* kept as the sets below. Two files hash alike iff they are the same      *)
(* configuration. A step is what runs between two reads of shared state.   *)
(***************************************************************************)
EXTENDS GatewayLifecycle, Sequences, Naturals

CONSTANTS
    Configs,        \* contents config.cfg may have
    Unbuildable,    \* __init__ raises before it connects anything
    Leaky,          \* __init__ raises after some transports connected
    Malformed,      \* configparser cannot parse the file
    PooledConfigs,  \* read_mode is concurrent or interleaved
    DynamicOff,     \* enable_dynamic_configuration is not true
    NoConfig, NoGateway, NoCaller,
    WebThreads,     \* threads serving commit, rollback and reload requests
    WatchThreads,   \* FileWatcher debounce timer threads
    MaxEdits,       \* bound: writes of config.cfg
    MaxBackups,     \* bound: ConfigBackup rows
    EditsWhileBusy, \* TRUE: config.cfg may be written during a (re)build
    MayOverrun,     \* TRUE: a read may outlast stop()'s timeout
    MayLoseBackups  \* TRUE: a recorded backup file may be gone from disk

Buildable == Configs \ (Unbuildable \cup Leaky \cup Malformed)
Callers   == WebThreads \cup WatchThreads

ASSUME ManagerAssumption ==
    /\ Unbuildable \cup Leaky \cup Malformed \cup PooledConfigs \cup DynamicOff \subseteq Configs
    /\ NoConfig \notin Configs /\ NoGateway \notin Gateways /\ NoCaller \notin Callers
    /\ WebThreads \cap WatchThreads = {}
    /\ MaxEdits \in Nat /\ MaxBackups \in Nat
    /\ {EditsWhileBusy, MayOverrun, MayLoseBackups} \subseteq BOOLEAN

VARIABLES
    config,     \* the configuration each instance was built from
    current,    \* GatewayManager._current
    fresh,      \* the instance reload() or start() has just built
    loaded,     \* _loaded_config_hash
    status,     \* the outcome _status reports
    pc,         \* how far start(), reload() or stop() has got
    holder,     \* the thread holding _lock
    seen,       \* reload()'s local current_hash
    disk,       \* config.cfg
    backups,    \* ConfigBackup rows, oldest first, with the contents archived
    draft,      \* a commit's flushed but uncommitted ConfigBackup row
    timer,      \* the FileWatcher's debounce timer is pending
    call,       \* what each web or timer thread is doing
    shown,      \* app.state.gateway
    taken,      \* what each caller has read from manager.current and not yet stored
    overtaken,  \* history: callers another reload launched an instance past since they read
    late,       \* history: the last store of app.state.gateway had been overtaken
    edits,      \* writes of config.cfg so far (bounds the model)
    worked,     \* history: configurations a gateway was built from
    outcome     \* history: status of the last reload that did something

\* What the web routes talk to, and who is about to change it.
view == <<shown, taken, overtaken, late>>

managerVars == <<config, current, fresh, loaded, status, pc, holder, seen, disk,
                 backups, draft, timer, call, view, edits, worked, outcome>>
managerVarsButPc == <<config, current, fresh, loaded, status, holder, seen, disk,
                      backups, draft, timer, call, view, edits, worked, outcome>>
vars == <<lifeVars, managerVars>>

Trigger(c) == IF c \in WatchThreads THEN "file_watch" ELSE "manual"
Booting    == pc \in {"boot_build", "boot_launch", "boot_hash"}
BuildPhases == {"build", "launch", "archive", "fallback", "fallback_launch"}
Latest     == backups[Len(backups)]
\* SQLite admits one writing transaction at a time.
NoDraft    == \A w \in WebThreads : draft[w] = NoConfig
MayWrite   == edits < MaxEdits /\ (EditsWhileBusy \/ pc = "idle")

Statuses == {"none", "started", "disabled", "skipped", "aborted", "reloaded",
             "fallback", "fatal"}
Phases == {"boot_build", "boot_launch", "boot_hash", "idle", "enabled", "unchanged",
           "signal", "wait", "build", "launch", "archive", "fallback",
           "fallback_launch", "exit_signal", "exit_wait", "down"}
CallStates == {"idle", "committing", "waiting", "inside", "publishing", "storing"}

\* Every variable holds a value of the kind its Python counterpart holds.
TypeOK ==
    /\ LifeTypeOK
    /\ config \in [Gateways -> Configs \cup {NoConfig}]
    /\ {current, fresh, shown} \subseteq Gateways \cup {NoGateway}
    /\ {loaded, seen} \subseteq Configs \cup {NoConfig}
    /\ {status, outcome} \subseteq Statuses
    /\ pc \in Phases
    /\ holder \in Callers \cup {NoCaller}
    /\ disk \in Configs
    /\ backups \in Seq(Configs)
    /\ draft \in [WebThreads -> Configs \cup {NoConfig}]
    /\ timer \in BOOLEAN
    /\ call \in [Callers -> CallStates]
    /\ taken \in [Callers -> Gateways \cup {NoGateway}]
    /\ overtaken \subseteq Callers /\ late \in BOOLEAN
    /\ edits \in Nat
    /\ worked \subseteq Configs

\* The process starts with a configuration it can build (it exits otherwise).
Init ==
    /\ LifeInit
    /\ config = [g \in Gateways |-> NoConfig]
    /\ current = NoGateway /\ fresh = NoGateway /\ shown = NoGateway
    /\ loaded = NoConfig /\ seen = NoConfig
    /\ status = "none" /\ outcome = "none"
    /\ pc = "boot_build" /\ holder = NoCaller
    /\ disk \in Buildable
    /\ backups = <<>>
    /\ draft = [w \in WebThreads |-> NoConfig]
    /\ timer = FALSE
    /\ call = [c \in Callers |-> "idle"]
    /\ taken = [c \in Callers |-> NoGateway]
    /\ overtaken = {} /\ late = FALSE
    /\ edits = 0 /\ worked = {}

-----------------------------------------------------------------------------
(* start(): build, start the thread, and only then hash the file. *)

BootBuild ==
    /\ pc = "boot_build" /\ disk \in Buildable
    /\ \E g \in Gateways :
        /\ Construct(g, disk \in PooledConfigs)
        /\ config' = [config EXCEPT ![g] = disk]
        /\ fresh' = g
    /\ worked' = worked \cup {disk}
    /\ pc' = "boot_launch"
    /\ UNCHANGED <<current, loaded, status, holder, seen, disk, backups, draft,
                   timer, call, view, edits, outcome>>

BootLaunch ==
    /\ pc = "boot_launch"
    /\ Launch(fresh)
    /\ current' = fresh /\ fresh' = NoGateway
    /\ pc' = "boot_hash"
    /\ UNCHANGED <<config, loaded, status, holder, seen, disk, backups, draft,
                   timer, call, view, edits, worked, outcome>>

\* start_webserver() follows and takes the instance start() returned.
BootHash ==
    /\ pc = "boot_hash"
    /\ loaded' = disk
    /\ status' = "started" /\ outcome' = "started"
    /\ shown' = current
    /\ pc' = "idle"
    /\ UNCHANGED <<lifeVars, config, current, fresh, holder, seen, disk, backups,
                   draft, timer, call, taken, overtaken, late, edits, worked>>

-----------------------------------------------------------------------------
(* Writers of config.cfg. Every write restarts the debounce timer, once the *)
(* web server (and so the watcher) is up.                                   *)

\* An operator edits the file outside the web UI.
HandEdit(c) ==
    /\ MayWrite /\ c # disk
    /\ disk' = c /\ timer' = ~Booting
    /\ edits' = edits + 1
    /\ UNCHANGED <<lifeVars, config, current, fresh, loaded, status, pc, holder, seen,
                   backups, draft, call, view, worked, outcome>>

\* Mutant of CommitWrite: the watcher ignores the web UI's own writes.
CommitWriteUnwatched(w, c) ==
    /\ ~Booting /\ call[w] = "idle"
    /\ MayWrite /\ NoDraft
    /\ c # disk /\ c \notin Malformed
    /\ Len(backups) < MaxBackups
    /\ draft' = [draft EXCEPT ![w] = disk]
    /\ disk' = c
    /\ call' = [call EXCEPT ![w] = "committing"]
    /\ edits' = edits + 1
    /\ UNCHANGED <<lifeVars, config, current, fresh, loaded, status, pc, holder, seen,
                   backups, timer, view, worked, outcome>>

\* commit_all(): back up the file as it is (flush, not yet commit), overwrite it.
CommitWrite(w, c) ==
    /\ ~Booting /\ call[w] = "idle"
    /\ MayWrite /\ NoDraft
    /\ c # disk /\ c \notin Malformed
    /\ Len(backups) < MaxBackups
    /\ draft' = [draft EXCEPT ![w] = disk]
    /\ disk' = c /\ timer' = TRUE
    /\ call' = [call EXCEPT ![w] = "committing"]
    /\ edits' = edits + 1
    /\ UNCHANGED <<lifeVars, config, current, fresh, loaded, status, pc, holder, seen,
                   backups, view, worked, outcome>>

\* Mutant of CommitDone: the row is read after it was reset.
CommitDoneReset(w) ==
    /\ call[w] = "committing"
    /\ draft' = [draft EXCEPT ![w] = NoConfig]
    /\ backups' = Append(backups, draft'[w])
    /\ call' = [call EXCEPT ![w] = "waiting"]
    /\ UNCHANGED <<lifeVars, config, current, fresh, loaded, status, pc, holder, seen,
                   disk, timer, view, edits, worked, outcome>>

\* The rest of commit_all() and do_commit() went through: reload() is next.
CommitDone(w) ==
    /\ call[w] = "committing"
    /\ backups' = Append(backups, draft[w])
    /\ draft' = [draft EXCEPT ![w] = NoConfig]
    /\ call' = [call EXCEPT ![w] = "waiting"]
    /\ UNCHANGED <<lifeVars, config, current, fresh, loaded, status, pc, holder, seen,
                   disk, timer, view, edits, worked, outcome>>

\* A later commit step raised: HTTP 500, config.cfg stays overwritten and this
\* thread calls no reload(). commit_all() commits the session itself: the backup
\* row is gone if the step before that commit raised, and stays after it.
CommitFail(w) ==
    /\ call[w] = "committing"
    /\ UNCHANGED backups \/ backups' = Append(backups, draft[w])
    /\ draft' = [draft EXCEPT ![w] = NoConfig]
    /\ call' = [call EXCEPT ![w] = "idle"]
    /\ UNCHANGED <<lifeVars, config, current, fresh, loaded, status, pc, holder, seen,
                   disk, timer, view, edits, worked, outcome>>

\* rollback_to(): archive the file being replaced, restore the chosen backup.
\* No reload() here: the watcher notices the write.
Rollback(w) ==
    /\ ~Booting /\ call[w] = "idle" /\ MayWrite /\ NoDraft
    /\ Len(backups) \in 1..(MaxBackups - 1)
    /\ \E i \in 1..Len(backups) : disk' = backups[i]
    /\ backups' = Append(backups, disk)
    /\ timer' = TRUE /\ edits' = edits + 1
    /\ UNCHANGED <<lifeVars, config, current, fresh, loaded, status, pc, holder, seen,
                   draft, call, view, worked, outcome>>

\* POST /api/gateway/reload and /api/scan.
RequestReload(w) ==
    /\ ~Booting /\ call[w] = "idle"
    /\ call' = [call EXCEPT ![w] = "waiting"]
    /\ UNCHANGED <<lifeVars, config, current, fresh, loaded, status, pc, holder, seen,
                   disk, backups, draft, timer, view, edits, worked, outcome>>

\* The debounce timer runs out: _do_config_reload() on the timer's own thread.
TimerFire(t) ==
    /\ timer /\ call[t] = "idle"
    /\ timer' = FALSE
    /\ call' = [call EXCEPT ![t] = "waiting"]
    /\ UNCHANGED <<lifeVars, config, current, fresh, loaded, status, pc, holder, seen,
                   disk, backups, draft, view, edits, worked, outcome>>

\* reload() returned to its caller, which reads manager.current: outside the
\* lock, so another reload may replace the instance before it is stored.
Take(c) ==
    /\ call[c] = "publishing"
    /\ taken' = [taken EXCEPT ![c] = current]
    /\ call' = [call EXCEPT ![c] = "storing"]
    /\ UNCHANGED <<lifeVars, config, current, fresh, loaded, status, pc, holder, seen, disk,
                   backups, draft, timer, shown, overtaken, late, edits, worked, outcome>>

\* Mutant of Store: the instance is stored only after a successful reload.
StoreIfOk(c) ==
    /\ call[c] = "storing"
    /\ shown' = IF status \in {"aborted", "fallback", "fatal"} THEN shown ELSE taken[c]
    /\ late' = (c \in overtaken)
    /\ overtaken' = overtaken \ {c}
    /\ taken' = [taken EXCEPT ![c] = NoGateway]
    /\ call' = [call EXCEPT ![c] = "idle"]
    /\ UNCHANGED <<lifeVars, config, current, fresh, loaded, status, pc, holder, seen,
                   disk, backups, draft, timer, edits, worked, outcome>>

\* ... and stores it in app.state.gateway.
Store(c) ==
    /\ call[c] = "storing"
    /\ shown' = taken[c]
    /\ late' = (c \in overtaken)
    /\ overtaken' = overtaken \ {c}
    /\ taken' = [taken EXCEPT ![c] = NoGateway]
    /\ call' = [call EXCEPT ![c] = "idle"]
    /\ UNCHANGED <<lifeVars, config, current, fresh, loaded, status, pc, holder, seen,
                   disk, backups, draft, timer, edits, worked, outcome>>

-----------------------------------------------------------------------------
(* reload(). The lock is held from Acquire to Finish. *)

Acquire(c) ==
    /\ pc = "idle" /\ call[c] = "waiting"
    /\ pc' = "enabled" /\ holder' = c
    /\ call' = [call EXCEPT ![c] = "inside"]
    /\ UNCHANGED <<lifeVars, config, current, fresh, loaded, status, seen, disk, backups,
                   draft, timer, view, edits, worked, outcome>>

\* A new instance overtakes the callers that have read the old one.
Overtake ==
    /\ overtaken' = overtaken \cup {c \in Callers : call[c] = "storing"}
    /\ UNCHANGED <<shown, taken, late>>

\* Leave reload() with a status; the caller reads manager.current next.
Finish(s) ==
    /\ pc' = "idle" /\ holder' = NoCaller /\ seen' = NoConfig
    /\ status' = s
    /\ outcome' = IF s \in {"disabled", "skipped"} THEN outcome ELSE s
    /\ call' = [call EXCEPT ![holder] = "publishing"]

\* _dynamic_reload_enabled(): the parser only guards against OSError, so a file
\* it cannot parse makes reload() raise to its caller with the lock released.
CheckEnabled ==
    /\ pc = "enabled"
    /\ CASE disk \in Malformed ->
              /\ pc' = "idle" /\ holder' = NoCaller
              /\ call' = [call EXCEPT ![holder] = "idle"]
              /\ UNCHANGED <<seen, status, outcome>>
         [] disk \in DynamicOff \ Malformed -> Finish("disabled")
         [] OTHER -> pc' = "unchanged" /\ UNCHANGED <<holder, seen, status, outcome, call>>
    /\ UNCHANGED <<lifeVars, config, current, fresh, loaded, disk, backups, draft,
                   timer, view, edits, worked>>

\* The file hashes to what is loaded already: nothing to do.
Skip ==
    /\ pc = "unchanged"
    /\ current # NoGateway /\ disk = loaded
    /\ Finish("skipped")
    /\ UNCHANGED <<lifeVars, config, current, fresh, loaded, disk, backups, draft,
                   timer, view, edits, worked>>

Proceed ==
    /\ pc = "unchanged"
    /\ ~(current # NoGateway /\ disk = loaded)
    /\ seen' = disk
    /\ pc' = "signal"
    /\ UNCHANGED <<lifeVars, config, current, fresh, loaded, status, holder, disk, backups,
                   draft, timer, call, view, edits, worked, outcome>>

\* old.stop(): the flag, then the wait with its two outcomes.
StopSignal ==
    /\ pc \in {"signal", "exit_signal"}
    /\ Signal(current)
    /\ pc' = IF pc = "signal" THEN "wait" ELSE "exit_wait"
    /\ UNCHANGED managerVarsButPc

StopDone ==
    /\ pc \in {"wait", "exit_wait"}
    /\ CleanUp(current)
    /\ pc' = IF pc = "wait" THEN "build" ELSE "down"
    /\ UNCHANGED managerVarsButPc

\* Mutant of StopTimeout: the replacement is built all the same.
StopTimeoutBuilds ==
    /\ pc = "wait" /\ MayOverrun
    /\ Overruns(current)
    /\ pc' = "build"
    /\ UNCHANGED managerVarsButPc

StopTimeout ==
    /\ pc = "wait" /\ MayOverrun
    /\ Overruns(current)
    /\ Finish("aborted")
    /\ UNCHANGED <<config, current, fresh, loaded, disk, backups, draft, timer, view,
                   edits, worked>>

ExitTimeout ==
    /\ pc = "exit_wait" /\ MayOverrun
    /\ Overruns(current)
    /\ pc' = "down"
    /\ UNCHANGED managerVarsButPc

\* Protocol_Gateway(config_file, is_reload=True) reads the file anew.
Build ==
    /\ pc = "build"
    /\ disk \in Buildable
    /\ \E g \in Gateways \ {current} :
        /\ Construct(g, disk \in PooledConfigs)
        /\ fresh' = g
        /\ config' = [config EXCEPT ![g] = disk]
    /\ worked' = worked \cup {disk}
    /\ pc' = "launch"
    /\ UNCHANGED <<current, loaded, status, holder, seen, disk, backups, draft, timer,
                   call, view, edits, outcome>>

\* What an __init__ that raises on configuration c leaves behind.
ConstructRaises(c) ==
    /\ c \notin Buildable
    /\ \/ c \in Leaky /\ \E g \in Gateways \ {current} : ConstructLeaking(g)
       \/ c \notin Leaky /\ UNCHANGED lifeVars

BuildFails ==
    /\ pc = "build"
    /\ ConstructRaises(disk)
    /\ pc' = "fallback"
    /\ UNCHANGED managerVarsButPc

\* Mutant of LaunchNew: the hash of the old configuration stays.
LaunchNewOldHash ==
    /\ pc = "launch"
    /\ Launch(fresh)
    /\ current' = fresh /\ fresh' = NoGateway
    /\ IF Trigger(holder) = "file_watch"
         THEN pc' = "archive" /\ UNCHANGED <<holder, seen, status, outcome, call>>
         ELSE Finish("reloaded")
    /\ Overtake
    /\ UNCHANGED <<config, loaded, disk, backups, draft, timer, edits, worked>>

\* The hash stored is the one read before the old gateway was stopped.
LaunchNew ==
    /\ pc = "launch"
    /\ Launch(fresh)
    /\ current' = fresh /\ fresh' = NoGateway
    /\ loaded' = seen
    /\ IF Trigger(holder) = "file_watch"
         THEN pc' = "archive" /\ UNCHANGED <<holder, seen, status, outcome, call>>
         ELSE Finish("reloaded")
    /\ Overtake
    /\ UNCHANGED <<config, disk, backups, draft, timer, edits, worked>>

\* create_backup(trigger="file_watch") copies config.cfg as it is now; a failure
\* (a commit in another session holds the database) is logged and ignored.
Archive ==
    /\ pc = "archive"
    /\ \/ NoDraft /\ Len(backups) < MaxBackups /\ backups' = Append(backups, disk)
       \/ (~NoDraft \/ Len(backups) = MaxBackups) /\ UNCHANGED backups
    /\ Finish("reloaded")
    /\ UNCHANGED <<lifeVars, config, current, fresh, loaded, disk, draft, timer, view,
                   edits, worked>>

-----------------------------------------------------------------------------
(* _fallback() *)

\* Mutant of FallbackOffline: the missing backup is not reported as fatal.
FallbackOfflineQuiet ==
    /\ pc = "fallback"
    /\ \/ (Len(backups) = 0 \/ MayLoseBackups) /\ UNCHANGED lifeVars
       \/ Len(backups) > 0 /\ ConstructRaises(Latest)
    /\ Finish("fallback")
    /\ UNCHANGED <<config, current, fresh, loaded, disk, backups, draft, timer, view,
                   edits, worked>>

FallbackOffline ==
    /\ pc = "fallback"
    /\ \/ (Len(backups) = 0 \/ MayLoseBackups) /\ UNCHANGED lifeVars
       \/ Len(backups) > 0 /\ ConstructRaises(Latest)
    /\ Finish("fatal")
    /\ UNCHANGED <<config, current, fresh, loaded, disk, backups, draft, timer, view,
                   edits, worked>>

FallbackBuild ==
    /\ pc = "fallback"
    /\ Len(backups) > 0 /\ Latest \in Buildable
    /\ \E g \in Gateways \ {current} :
        /\ Construct(g, Latest \in PooledConfigs)
        /\ fresh' = g
        /\ config' = [config EXCEPT ![g] = Latest]
    /\ worked' = worked \cup {Latest}
    /\ pc' = "fallback_launch"
    /\ UNCHANGED <<current, loaded, status, holder, seen, disk, backups, draft, timer,
                   call, view, edits, outcome>>

FallbackLaunch ==
    /\ pc = "fallback_launch"
    /\ Launch(fresh)
    /\ current' = fresh /\ fresh' = NoGateway
    /\ loaded' = config[fresh]
    /\ Finish("fallback")
    /\ Overtake
    /\ UNCHANGED <<config, disk, backups, draft, timer, edits, worked>>

\* GatewayManager.stop() on Ctrl+C; main() returns and the daemon threads die.
Shutdown ==
    /\ pc = "idle"
    /\ pc' = "exit_signal"
    /\ UNCHANGED <<lifeVars, managerVarsButPc>>

-----------------------------------------------------------------------------
Reload ==
    \/ CheckEnabled \/ Skip \/ Proceed
    \/ StopSignal \/ StopDone \/ StopTimeout \/ ExitTimeout
    \/ Build \/ BuildFails \/ LaunchNew \/ Archive
    \/ FallbackOffline \/ FallbackBuild \/ FallbackLaunch

Boot == BootBuild \/ BootLaunch \/ BootHash

GatewayStep(g) == RunStep(g) /\ UNCHANGED managerVars

\* When the process dies after "down" the daemon threads stop wherever they are.
Next ==
    \/ Boot
    \/ \E g \in Gateways : GatewayStep(g)
    \/ \E c \in Configs : HandEdit(c)
    \/ \E w \in WebThreads, c \in Configs : CommitWrite(w, c)
    \/ \E w \in WebThreads :
         CommitDone(w) \/ CommitFail(w) \/ Rollback(w) \/ RequestReload(w)
    \/ \E t \in WatchThreads : TimerFire(t)
    \/ \E c \in Callers : Acquire(c) \/ Take(c) \/ Store(c)
    \/ Reload
    \/ Shutdown

Spec == Init /\ [][Next]_vars

-----------------------------------------------------------------------------
(* Fairness: threads the operating system runs take their next step. Nothing *)
(* is fair about users (edits, commits, requests, Ctrl+C), and the lock may  *)
(* starve one caller as long as it serves some caller.                       *)
Fairness ==
    /\ WF_vars(Boot)
    /\ \A g \in Gateways : WF_vars(GatewayStep(g))
    /\ \A w \in WebThreads : WF_vars((CommitDone(w) \/ CommitFail(w)))
    /\ WF_vars(\E t \in WatchThreads : TimerFire(t))
    /\ WF_vars(\E c \in Callers : Acquire(c))
    /\ \A c \in Callers : WF_vars((Take(c) \/ Store(c)))
    /\ WF_vars(Reload)

FairSpec == Spec /\ Fairness

-----------------------------------------------------------------------------
(* Properties *)

\* At most one gateway holds field-bus connections: the constraint that decides
\* the order stop-old, build-new in reload().
SingleBus == \A g, h \in Gateways : links[g] /\ links[h] => g = h

\* The one gateway whose transports are connected.
busOwner == IF \E g \in Gateways : links[g]
              THEN CHOOSE g \in Gateways : links[g] ELSE NoGateway
Bus == INSTANCE BusOwner WITH owner <- busOwner

\* Connections pass from one gateway to the next only through "nobody holds
\* them": reload() and _fallback() implement the abstract hand-over.
BusHandover == Bus!Spec

\* No gateway is polling only after a reload that said so: every path of
\* reload() that leaves the process without a working gateway reports "fatal"
\* or "aborted" (and not success, fallback or nothing).
OfflineWasReported ==
    pc = "idle" /\ ~Serving(current) => outcome \in {"fatal", "aborted"}

\* "Config unchanged since last reload - skipped" is said only of a gateway
\* that is polling with exactly this configuration.
SkipOnlyWhenServing ==
    [][Skip => Serving(current) /\ config[current] = disk]_vars

\* The same, as far as it goes when nobody writes config.cfg during a rebuild:
\* unless the last reload failed, a skip leaves the right gateway running.
SkipAfterSuccess ==
    [][Skip /\ outcome \notin {"fatal", "aborted"}
         => Serving(current) /\ config[current] = disk]_vars

\* An aborted reload leaves the previous gateway's loop running, as its message
\* says ("Still running the previous config").
AbortedStillRuns ==
    pc = "idle" /\ outcome = "aborted" => thread[current] # "exited"

\* The newest ConfigBackup, the one _fallback() restores, is a configuration a
\* gateway was built from.
LatestBackupWorked ==
    pc = "idle" /\ Len(backups) > 0 => Latest \in worked

\* What a file_watch reload archives is the configuration it has just loaded.
ArchivedWasServed ==
    [][Archive /\ backups' # backups => disk = config[current]]_vars

\* Every reload() returns a status to its caller.
ReloadReturns ==
    [][\A c \in Callers : call[c] = "inside" => call'[c] \in {"inside", "publishing"}]_vars

\* Between reloads the web routes (app.state.gateway) talk to the manager's
\* current gateway, however many callers reloaded and whatever came of it; the
\* one exception is a caller that read manager.current, was overtaken by another
\* caller's reload, and stored what it had read last of all: nothing holds the
\* lock across the read and the store.
ShownIsCurrent ==
    pc = "idle" /\ (\A c \in Callers : call[c] \notin {"publishing", "storing"})
        => shown = current \/ late

\* Once the writes stop, the file on disk gets served: whoever wrote it
\* (commit, failed commit, rollback, editor), some reload picks it up.
EventuallyServesDisk ==
    <>[](\/ disk \in DynamicOff \/ disk \notin Buildable
         \/ pc \in {"exit_signal", "exit_wait", "down"}
         \/ current # NoGateway /\ Serving(current) /\ config[current] = disk)
=============================================================================
