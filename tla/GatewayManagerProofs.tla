------------------------ MODULE GatewayManagerProofs ------------------------
(***************************************************************************)
(* Theorems about GatewayManager, for any sets of instances, threads and   *)
(* configurations.                                                         *)
(***************************************************************************)
EXTENDS GatewayManager, TLAPS

Launching == {"boot_launch", "launch", "fallback_launch"}

\* What the step that uses a value needs to know of it.
TypeInv ==
    /\ TypeOK
    /\ pc \in Launching => fresh \in Gateways
    /\ \A w \in WebThreads : call[w] = "committing" => draft[w] \in Configs

\* A row is added to ConfigBackup, or none.
LEMMA Archived ==
  ASSUME backups \in Seq(Configs), NEW c \in Configs,
         backups' = backups \/ backups' = Append(backups, c)
  PROVE  backups' \in Seq(Configs)
  OBVIOUS

USE ManagerAssumption DEF Buildable, Callers, Statuses, Phases, CallStates, Launching,
        ThreadStates, TaskStates, view, Overtake

LEMMA TypeInit == Init => TypeInv
<1> SUFFICES ASSUME Init PROVE TypeInv
  OBVIOUS
<1>1. LifeTypeOK
  BY DEF Init, LifeInit, LifeTypeOK
<1>2. backups \in Seq(Configs) /\ edits \in Nat /\ disk \in Configs
  BY DEF Init
<1>3. /\ config \in [Gateways -> Configs \cup {NoConfig}]
      /\ draft \in [WebThreads -> Configs \cup {NoConfig}]
      /\ call \in [Callers -> CallStates]
      /\ taken \in [Callers -> Gateways \cup {NoGateway}]
  BY DEF Init
<1>4. \A w \in WebThreads : call[w] # "committing"
  BY DEF Init
<1> QED BY <1>1, <1>2, <1>3, <1>4 DEF Init, TypeInv, TypeOK

LEMMA TypeRun ==
  ASSUME TypeInv, NEW g \in Gateways, GatewayStep(g)
  PROVE  TypeInv'
<1>1. LifeTypeOK
  BY DEF TypeInv, TypeOK
<1>2. LifeTypeOK'
  <2> USE <1>1 DEF LifeTypeOK
  <2>1. CASE RunEnter(g)    BY <2>1 DEF RunEnter
  <2>2. CASE RunClear(g)    BY <2>2 DEF RunClear
  <2>3. CASE ReadGroup(g)   BY <2>3 DEF ReadGroup
  <2>4. CASE ReadDone(g)    BY <2>4 DEF ReadDone
  <2>5. CASE SubmitRead(g)  BY <2>5 DEF SubmitRead
  <2>6. CASE TaskStart(g)   BY <2>6 DEF TaskStart
  <2>7. CASE TaskConnect(g) BY <2>7 DEF TaskConnect
  <2>8. CASE TaskDone(g)    BY <2>8 DEF TaskDone
  <2>9. CASE RunExit(g)     BY <2>9 DEF RunExit
  <2> QED
    BY <2>1, <2>2, <2>3, <2>4, <2>5, <2>6, <2>7, <2>8, <2>9 DEF GatewayStep, RunStep
<1> QED BY <1>2 DEF TypeInv, TypeOK, GatewayStep, managerVars

LEMMA TypeBoot == TypeInv /\ Boot => TypeInv'
<1> SUFFICES ASSUME TypeInv, Boot PROVE TypeInv'
  OBVIOUS
<1> USE DEF TypeInv, TypeOK, LifeTypeOK
<1>1. CASE BootBuild  BY <1>1 DEF BootBuild, Construct
<1>2. CASE BootLaunch BY <1>2 DEF BootLaunch, Launch
<1>3. CASE BootHash   BY <1>3 DEF BootHash, lifeVars
<1> QED BY <1>1, <1>2, <1>3 DEF Boot

LEMMA TypeWriters ==
  ASSUME TypeInv,
         \/ \E c \in Configs : HandEdit(c)
         \/ \E w \in WebThreads, c \in Configs : CommitWrite(w, c)
         \/ \E w \in WebThreads :
              CommitDone(w) \/ CommitFail(w) \/ Rollback(w) \/ RequestReload(w)
         \/ \E t \in WatchThreads : TimerFire(t)
         \/ \E c \in Callers : Acquire(c) \/ Take(c) \/ Store(c)
  PROVE  TypeInv'
<1> USE DEF TypeInv, TypeOK, LifeTypeOK, lifeVars
<1>1. ASSUME NEW c \in Configs, HandEdit(c) PROVE TypeInv'
  BY <1>1 DEF HandEdit, Booting
<1>2. ASSUME NEW w \in WebThreads, NEW c \in Configs, CommitWrite(w, c) PROVE TypeInv'
  BY <1>2 DEF CommitWrite
<1>3. ASSUME NEW w \in WebThreads, CommitDone(w) PROVE TypeInv'
  <2>1. backups' \in Seq(Configs)
    BY <1>3 DEF CommitDone
  <2> QED BY <1>3, <2>1 DEF CommitDone
<1>4. ASSUME NEW w \in WebThreads, CommitFail(w) PROVE TypeInv'
  <2>0. backups \in Seq(Configs) /\ draft[w] \in Configs
    BY <1>4 DEF CommitFail
  <2>1. backups' = backups \/ backups' = Append(backups, draft[w])
    BY <1>4 DEF CommitFail
  <2>2. backups' \in Seq(Configs)
    BY <2>0, <2>1, Archived
  <2> QED BY <1>4, <2>2 DEF CommitFail
<1>5. ASSUME NEW w \in WebThreads, Rollback(w) PROVE TypeInv'
  <2>1. backups' \in Seq(Configs) /\ disk' \in Configs
    BY <1>5 DEF Rollback
  <2> QED BY <1>5, <2>1 DEF Rollback
<1>6. ASSUME NEW w \in WebThreads, RequestReload(w) PROVE TypeInv'
  BY <1>6 DEF RequestReload
<1>7. ASSUME NEW t \in WatchThreads, TimerFire(t) PROVE TypeInv'
  BY <1>7 DEF TimerFire
<1>8. ASSUME NEW c \in Callers, Acquire(c) PROVE TypeInv'
  BY <1>8 DEF Acquire
<1>9. ASSUME NEW c \in Callers, Take(c) PROVE TypeInv'
  BY <1>9 DEF Take
<1>10. ASSUME NEW c \in Callers, Store(c) PROVE TypeInv'
  BY <1>10 DEF Store
<1> QED BY <1>1, <1>2, <1>3, <1>4, <1>5, <1>6, <1>7, <1>8, <1>9, <1>10

LEMMA TypeReload == TypeInv /\ (Reload \/ Shutdown) => TypeInv'
<1> SUFFICES ASSUME TypeInv, Reload \/ Shutdown PROVE TypeInv'
  OBVIOUS
<1> USE DEF TypeInv, TypeOK, LifeTypeOK, lifeVars
<1>1. CASE CheckEnabled    BY <1>1 DEF CheckEnabled, Finish
<1>2. CASE Skip            BY <1>2 DEF Skip, Finish
<1>3. CASE Proceed         BY <1>3 DEF Proceed
<1>4. CASE StopSignal      BY <1>4 DEF StopSignal, Signal, managerVarsButPc
<1>5. CASE StopDone        BY <1>5 DEF StopDone, CleanUp, managerVarsButPc
<1>6. CASE StopTimeout     BY <1>6 DEF StopTimeout, Overruns, Finish
<1>7. CASE ExitTimeout     BY <1>7 DEF ExitTimeout, Overruns, managerVarsButPc
<1>8. CASE Build           BY <1>8 DEF Build, Construct
<1>9. CASE BuildFails      BY <1>9 DEF BuildFails, ConstructRaises, ConstructLeaking, managerVarsButPc
<1>10. CASE LaunchNew      BY <1>10 DEF LaunchNew, Launch, Finish
<1>11. CASE Archive
  <2>0. backups \in Seq(Configs) /\ disk \in Configs
    OBVIOUS
  <2>1. backups' = backups \/ backups' = Append(backups, disk)
    BY <1>11 DEF Archive
  <2>2. backups' \in Seq(Configs)
    BY <2>0, <2>1, Archived
  <2> QED BY <1>11, <2>2 DEF Archive, Finish
<1>12. CASE FallbackOffline BY <1>12 DEF FallbackOffline, ConstructRaises, ConstructLeaking, Finish
<1>13. CASE FallbackBuild
  <2>1. Latest \in Configs
    BY <1>13 DEF FallbackBuild, Latest
  <2> QED BY <1>13, <2>1 DEF FallbackBuild, Construct
<1>14. CASE FallbackLaunch BY <1>14 DEF FallbackLaunch, Launch, Finish
<1>15. CASE Shutdown       BY <1>15 DEF Shutdown, managerVarsButPc
<1> QED
  BY <1>1, <1>2, <1>3, <1>4, <1>5, <1>6, <1>7, <1>8, <1>9, <1>10, <1>11, <1>12, <1>13,
     <1>14, <1>15 DEF Reload

LEMMA TypeStep == TypeInv /\ [Next]_vars => TypeInv'
<1> SUFFICES ASSUME TypeInv, [Next]_vars PROVE TypeInv'
  OBVIOUS
<1>1. CASE UNCHANGED vars
  BY <1>1 DEF TypeInv, TypeOK, LifeTypeOK, vars, lifeVars, managerVars
<1>2. CASE Next
  BY <1>2, TypeRun, TypeBoot, TypeWriters, TypeReload DEF Next
<1> QED BY <1>1, <1>2

LEMMA TypeInvariance == Spec => []TypeInv
  BY TypeInit, TypeStep, PTL DEF Spec

\* Every variable keeps the kind of value its Python counterpart holds, for any
\* number of instances, threads, edits and backups.
THEOREM TypeCorrect == Spec => []TypeOK
<1>1. TypeInv => TypeOK
  BY DEF TypeInv
<1> QED BY <1>1, TypeInvariance, PTL

-----------------------------------------------------------------------------
(***************************************************************************)
(* One bus owner. The argument: a reload holds the lock until the loop of  *)
(* the old instance has exited and its transports are closed, so while     *)
(* the manager builds, nobody is connected; in sequential mode only the    *)
(* loop's own thread reconnects, and only the current instance has a loop. *)
(***************************************************************************)

\* Threads that have a loop, or will.
Looping == {"started", "entering", "polling", "reading"}

\* Where the connections may be, and what each phase knows of the current one.
BusInv ==
    /\ \A g \in Gateways : ~pooled[g] /\ task[g] = "none"
    /\ \A g \in Gateways : thread[g] \in Looping => g = current
    /\ \A g \in Gateways : thread[g] = "built" => g = fresh /\ pc \in Launching
    /\ \A g \in Gateways :
         links[g] => g = current \/ (g = fresh /\ pc \in Launching)
    /\ \A g \in Gateways :
         stopped[g] => thread[g] \notin {"polling", "reading"}
    /\ pc \in {"boot_build", "boot_launch"} => current = NoGateway
    /\ pc \notin {"boot_build", "boot_launch"} =>
         current \in Gateways /\ thread[current] \notin {"unborn", "built"}
    /\ pc \in {"wait", "exit_wait"} => thread[current] \notin {"started", "entering"}
    /\ pc \in {"build", "fallback", "launch", "fallback_launch"} =>
         thread[current] = "exited" /\ ~links[current]
    /\ pc \in Launching => fresh # current

\* The deployments the guarantee is about: sequential read mode, builds that
\* fail before they connect, threads that get to run before the next stop().
Tame == PooledConfigs = {} /\ Leaky = {} /\ PromptStart

LEMMA BusInit == Init => BusInv
  BY DEF Init, LifeInit, BusInv, Looping

LEMMA BusRun ==
  ASSUME TypeInv, BusInv, NEW g \in Gateways, GatewayStep(g)
  PROVE  BusInv'
<1>0. LifeTypeOK /\ UNCHANGED <<current, fresh, pc>>
  BY DEF TypeInv, TypeOK, GatewayStep, managerVars
<1> USE <1>0 DEF LifeTypeOK, BusInv, Looping
<1>1. CASE RunEnter(g)    BY <1>1 DEF RunEnter
<1>2. CASE RunClear(g)    BY <1>2 DEF RunClear
<1>3. CASE ReadGroup(g)   BY <1>3 DEF ReadGroup
<1>4. CASE ReadDone(g)    BY <1>4 DEF ReadDone
<1>5. CASE SubmitRead(g)  BY <1>5 DEF SubmitRead
<1>6. CASE TaskStart(g)   BY <1>6 DEF TaskStart
<1>7. CASE TaskConnect(g) BY <1>7 DEF TaskConnect
<1>8. CASE TaskDone(g)    BY <1>8 DEF TaskDone
<1>9. CASE RunExit(g)     BY <1>9 DEF RunExit
<1> QED
  BY <1>1, <1>2, <1>3, <1>4, <1>5, <1>6, <1>7, <1>8, <1>9 DEF GatewayStep, RunStep

\* Steps that touch neither an instance nor the manager's choice of one.
LEMMA BusFrame ==
  ASSUME BusInv, UNCHANGED <<lifeVars, current, fresh>>,
         \/ pc' = pc
         \/ pc' \notin {"boot_build", "boot_launch", "wait", "exit_wait", "build",
                        "fallback", "launch", "fallback_launch"}
            /\ pc \notin {"boot_build", "boot_launch", "launch", "fallback_launch"}
  PROVE  BusInv'
  BY DEF BusInv, lifeVars, Looping

LEMMA BusReload ==
  ASSUME Tame, TypeInv, BusInv, Boot \/ Reload \/ Shutdown
  PROVE  BusInv'
<1>0. LifeTypeOK /\ pc \in Phases /\ (pc \in Launching => fresh \in Gateways)
  BY DEF TypeInv, TypeOK
<1>1. CASE BootBuild
  BY <1>0, <1>1 DEF BootBuild, Construct, BusInv, Looping, LifeTypeOK, Tame, Fresh
<1>2. CASE BootLaunch
  BY <1>0, <1>2 DEF BootLaunch, Launch, BusInv, Looping, LifeTypeOK
<1>3. CASE BootHash
  BY <1>3, BusFrame DEF BootHash
<1>4. CASE CheckEnabled
  BY <1>4, BusFrame DEF CheckEnabled, Finish
<1>5. CASE Skip
  BY <1>5, BusFrame DEF Skip, Finish
<1>6. CASE Proceed
  BY <1>6, BusFrame DEF Proceed
<1>7. CASE StopSignal
  BY <1>0, <1>7 DEF StopSignal, Signal, BusInv, Looping, LifeTypeOK, managerVarsButPc, Tame
<1>8. CASE StopDone
  BY <1>0, <1>8 DEF StopDone, CleanUp, BusInv, Looping, LifeTypeOK, managerVarsButPc
<1>9. CASE StopTimeout
  BY <1>9, BusFrame DEF StopTimeout, Finish, Overruns
<1>10. CASE ExitTimeout
  BY <1>10, BusFrame DEF ExitTimeout, Overruns, managerVarsButPc
<1>11. CASE Build
  BY <1>0, <1>11 DEF Build, Construct, BusInv, Looping, LifeTypeOK, Tame, Fresh
<1>12. CASE BuildFails
  BY <1>0, <1>12 DEF BuildFails, ConstructRaises, BusInv, Looping, LifeTypeOK, Tame, lifeVars, managerVarsButPc
<1>13. CASE LaunchNew
  BY <1>0, <1>13 DEF LaunchNew, Launch, Finish, BusInv, Looping, LifeTypeOK
<1>14. CASE Archive
  BY <1>14, BusFrame DEF Archive, Finish
<1>15. CASE FallbackOffline
  BY <1>15, BusFrame DEF FallbackOffline, ConstructRaises, Finish, Tame
<1>16. CASE FallbackBuild
  BY <1>0, <1>16 DEF FallbackBuild, Construct, BusInv, Looping, LifeTypeOK, Tame, Fresh
<1>17. CASE FallbackLaunch
  BY <1>0, <1>17 DEF FallbackLaunch, Launch, Finish, BusInv, Looping, LifeTypeOK
<1>18. CASE Shutdown
  BY <1>18, BusFrame DEF Shutdown, managerVarsButPc
<1> QED
  BY <1>1, <1>2, <1>3, <1>4, <1>5, <1>6, <1>7, <1>8, <1>9, <1>10, <1>11, <1>12, <1>13,
     <1>14, <1>15, <1>16, <1>17, <1>18 DEF Boot, Reload

LEMMA BusStep == Tame /\ TypeInv /\ BusInv /\ [Next]_vars => BusInv'
<1> SUFFICES ASSUME Tame, TypeInv, BusInv, [Next]_vars PROVE BusInv'
  OBVIOUS
<1>1. CASE UNCHANGED vars
  BY <1>1, BusFrame DEF vars, managerVars
<1>2. CASE \E c \in Configs : HandEdit(c)
  BY <1>2, BusFrame DEF HandEdit
<1>3. CASE \E w \in WebThreads, c \in Configs : CommitWrite(w, c)
  BY <1>3, BusFrame DEF CommitWrite
<1>4. CASE \E w \in WebThreads :
             CommitDone(w) \/ CommitFail(w) \/ Rollback(w) \/ RequestReload(w)
  BY <1>4, BusFrame DEF CommitDone, CommitFail, Rollback, RequestReload
<1>5. CASE \E t \in WatchThreads : TimerFire(t)
  BY <1>5, BusFrame DEF TimerFire
<1>6. CASE \E c \in Callers : Acquire(c) \/ Take(c) \/ Store(c)
  BY <1>6, BusFrame DEF Acquire, Take, Store
<1> QED BY <1>1, <1>2, <1>3, <1>4, <1>5, <1>6, BusRun, BusReload DEF Next

LEMMA BusInvGivesSingleBus ==
  ASSUME TypeInv, BusInv
  PROVE  SingleBus
<1>1. ASSUME NEW g \in Gateways, links[g], fresh # current
      PROVE  \/ pc \in Launching /\ g = fresh
             \/ pc \notin Launching /\ g = current
  BY <1>1 DEF BusInv
<1> QED BY <1>1 DEF BusInv, SingleBus, TypeInv

\* At most one gateway holds field-bus connections (GatewayManager's physical
\* constraint), for any number of instances, threads, configurations, edits
\* and backups, wherever reads overrun, backups are lost or builds fail.
THEOREM SingleBusHolds == Tame => (Spec => []SingleBus)
<1> SUFFICES ASSUME Tame PROVE Spec => []SingleBus
  OBVIOUS
<1>1. TypeInv /\ BusInv /\ [Next]_vars => BusInv'
  BY BusStep
<1>2. TypeInv /\ BusInv => SingleBus
  BY BusInvGivesSingleBus
<1> QED BY <1>1, <1>2, BusInit, TypeInvariance, PTL DEF Spec

-----------------------------------------------------------------------------
(* The hand-over: every step takes the bus from nobody, gives it up, or     *)
(* leaves the owner alone.                                                  *)

LEMMA OwnerIsLinked ==
  ASSUME SingleBus, NEW g \in Gateways, links[g]
  PROVE  busOwner = g
  BY DEF SingleBus, busOwner

LEMMA NoOwner ==
  ASSUME \A g \in Gateways : ~links[g]
  PROVE  busOwner = NoGateway
  BY DEF busOwner

LEMMA SameLinks ==
  ASSUME links' = links
  PROVE  busOwner' = busOwner
  BY DEF busOwner

\* An instance that connects finds the bus free or already its own.
LEMMA Connecting ==
  ASSUME TypeInv, SingleBus, SingleBus', NEW g \in Gateways,
         links' = [links EXCEPT ![g] = TRUE]
  PROVE  [Bus!Next]_busOwner
<1>0. links \in [Gateways -> BOOLEAN]
  BY DEF TypeInv, TypeOK, LifeTypeOK
<1>1. busOwner' = g
  BY <1>0 DEF SingleBus, busOwner
<1>2. CASE links[g]
  BY <1>1, <1>2, OwnerIsLinked
<1>3. CASE ~links[g]
  <2>1. \A h \in Gateways : ~links[h]
    BY <1>0, <1>3 DEF SingleBus
  <2>2. busOwner = NoGateway
    BY <2>1, NoOwner
  <2> QED BY <1>1, <2>2 DEF Bus!Next, Bus!Take
<1> QED BY <1>2, <1>3

LEMMA Disconnecting ==
  ASSUME TypeInv, SingleBus, NEW g \in Gateways,
         links' = [links EXCEPT ![g] = FALSE],
         \A h \in Gateways : links[h] => h = g
  PROVE  [Bus!Next]_busOwner
<1>0. links \in [Gateways -> BOOLEAN]
  BY DEF TypeInv, TypeOK, LifeTypeOK
<1>1. busOwner' = NoGateway
  BY <1>0 DEF busOwner
<1>2. CASE links[g]
  BY <1>1, <1>2, OwnerIsLinked DEF Bus!Next, Bus!Release
<1>3. CASE ~links[g]
  BY <1>1, <1>3, NoOwner
<1> QED BY <1>2, <1>3

LEMMA BusRefines ==
  ASSUME Tame, TypeInv, BusInv, SingleBus, SingleBus', [Next]_vars
  PROVE  [Bus!Next]_busOwner
<1>1. ASSUME NEW g \in Gateways, GatewayStep(g) PROVE [Bus!Next]_busOwner
  <2>1. CASE ReadGroup(g)
    <3>1. PICK up \in {links[g], TRUE} : links' = [links EXCEPT ![g] = up]
      BY <2>1 DEF ReadGroup
    <3>2. links' = links \/ links' = [links EXCEPT ![g] = TRUE]
      BY <3>1 DEF TypeInv, TypeOK, LifeTypeOK
    <3> QED BY <3>2, Connecting, SameLinks
  <2>2. CASE TaskConnect(g)
    BY <2>2 DEF TaskConnect, BusInv
  <2>3. CASE ~ReadGroup(g) /\ ~TaskConnect(g)
    BY <1>1, <2>3, SameLinks DEF GatewayStep, RunStep, RunEnter, RunClear, ReadDone,
       SubmitRead, TaskStart, TaskDone, RunExit
  <2> QED BY <2>1, <2>2, <2>3
<1>2. CASE BootBuild
  BY <1>2, Connecting DEF BootBuild, Construct
<1>3. CASE Build
  BY <1>3, Connecting DEF Build, Construct
<1>4. CASE FallbackBuild
  BY <1>4, Connecting DEF FallbackBuild, Construct
<1>5. CASE StopDone
  <2>1. current \in Gateways /\ \A h \in Gateways : links[h] => h = current
    BY <1>5 DEF StopDone, BusInv
  <2> QED BY <1>5, <2>1, Disconnecting DEF StopDone, CleanUp
<1>6. CASE BuildFails
  BY <1>6, SameLinks DEF BuildFails, ConstructRaises, Tame, lifeVars
<1>7. CASE \/ BootLaunch \/ BootHash \/ CheckEnabled \/ Skip \/ Proceed \/ StopSignal
           \/ StopTimeout \/ ExitTimeout \/ LaunchNew \/ Archive \/ FallbackOffline
           \/ FallbackLaunch \/ Shutdown \/ UNCHANGED vars
  BY <1>7, SameLinks DEF BootLaunch, BootHash, CheckEnabled, Skip, Proceed, StopSignal,
     StopTimeout, ExitTimeout, LaunchNew, Archive, FallbackOffline, ConstructRaises, Tame, FallbackLaunch,
     Shutdown, Launch, Signal, Overruns, lifeVars, vars
<1>8. CASE \/ \E c \in Configs : HandEdit(c)
           \/ \E w \in WebThreads, c \in Configs : CommitWrite(w, c)
           \/ \E w \in WebThreads :
                CommitDone(w) \/ CommitFail(w) \/ Rollback(w) \/ RequestReload(w)
           \/ \E t \in WatchThreads : TimerFire(t)
           \/ \E c \in Callers : Acquire(c) \/ Take(c) \/ Store(c)
  BY <1>8, SameLinks DEF HandEdit, CommitWrite, CommitDone, CommitFail, Rollback,
     RequestReload, TimerFire, Acquire, Take, Store, lifeVars
<1> QED
  BY <1>1, <1>2, <1>3, <1>4, <1>5, <1>6, <1>7, <1>8 DEF Next, Boot, Reload

\* The manager implements the abstract hand-over: a new gateway takes the buses
\* only after the old one let go of them.
THEOREM HandsOver == Tame => (Spec => BusHandover)
<1> SUFFICES ASSUME Tame PROVE Spec => BusHandover
  OBVIOUS
<1>1. Init => Bus!Init
  BY NoOwner DEF Init, LifeInit, Bus!Init
<1>2. TypeInv /\ BusInv /\ SingleBus /\ SingleBus' /\ [Next]_vars => [Bus!Next]_busOwner
  BY BusRefines
<1>3. TypeInv /\ BusInv /\ [Next]_vars => BusInv'
  BY BusStep
<1> QED
  BY <1>1, <1>2, <1>3, BusInit, TypeInvariance, SingleBusHolds, PTL
     DEF Spec, BusHandover, Bus!Spec

-----------------------------------------------------------------------------
(***************************************************************************)
(* What reload() says and what is there. Nothing is assumed of the         *)
(* deployment: pools, leaking builds, early stops, overlong reads, lost    *)
(* backups and edits at any moment are all included.                       *)
(***************************************************************************)

\* Where the outcome of the last reload still describes the current instance.
AtRest == {"idle", "enabled", "unchanged", "signal"}
Holding == {"enabled", "unchanged", "signal", "wait", "build", "launch", "archive", "fallback",
            "fallback_launch"}
Offline == {"fatal", "aborted"}

\* Once the manager is up it has an instance, and one that does not serve was
\* announced; while it archives, it has just started one.
OutcomeInv ==
    /\ pc \in {"boot_build", "boot_launch"} => current = NoGateway
    /\ pc \notin {"boot_build", "boot_launch"} => current \in Gateways
    /\ pc \in AtRest \cup {"boot_hash", "archive"} =>
         Serving(current) \/ (pc \in AtRest /\ outcome \in Offline)

\* An instance that serves goes on doing so until it is told to stop.
LEMMA ServingLasts ==
  ASSUME TypeInv, NEW g \in Gateways, NEW h \in Gateways, RunStep(h), Serving(g)
  PROVE  Serving(g)'
<1>0. LifeTypeOK
  BY DEF TypeInv, TypeOK
<1> USE <1>0 DEF LifeTypeOK, Serving
<1>1. CASE RunEnter(h)    BY <1>1 DEF RunEnter
<1>2. CASE RunClear(h)    BY <1>2 DEF RunClear
<1>3. CASE ReadGroup(h)   BY <1>3 DEF ReadGroup
<1>4. CASE ReadDone(h)    BY <1>4 DEF ReadDone
<1>5. CASE SubmitRead(h)  BY <1>5 DEF SubmitRead
<1>6. CASE TaskStart(h)   BY <1>6 DEF TaskStart
<1>7. CASE TaskConnect(h) BY <1>7 DEF TaskConnect
<1>8. CASE TaskDone(h)    BY <1>8 DEF TaskDone
<1>9. CASE RunExit(h)     BY <1>9 DEF RunExit
<1> QED
  BY <1>1, <1>2, <1>3, <1>4, <1>5, <1>6, <1>7, <1>8, <1>9 DEF RunStep

\* A launched instance serves.
LEMMA LaunchServes ==
  ASSUME TypeInv, NEW g \in Gateways, Launch(g)
  PROVE  Serving(g)'
  BY DEF TypeInv, TypeOK, LifeTypeOK, Launch, Serving

\* Steps that leave instances, their threads and the outcome alone.
LEMMA OutcomeFrame ==
  ASSUME OutcomeInv, UNCHANGED <<thread, running, current, outcome>>,
         \/ pc' = pc
         \/ pc \in AtRest /\ pc' \in Phases \ {"boot_build", "boot_launch", "boot_hash", "archive"}
  PROVE  OutcomeInv'
  BY DEF OutcomeInv, AtRest, Serving

LEMMA OutcomeReload ==
  ASSUME TypeInv, OutcomeInv, Boot \/ Reload \/ Shutdown
  PROVE  OutcomeInv'
<1> USE DEF AtRest, Offline
<1>0. LifeTypeOK /\ pc \in Phases /\ (pc \in Launching => fresh \in Gateways)
  BY DEF TypeInv, TypeOK
<1>1. CASE BootBuild
  BY <1>1 DEF BootBuild, OutcomeInv
<1>2. CASE BootLaunch
  BY <1>0, <1>2, LaunchServes DEF BootLaunch, OutcomeInv
<1>3. CASE BootHash
  BY <1>3 DEF BootHash, OutcomeInv, lifeVars, Serving
<1>4. CASE CheckEnabled
  BY <1>4, OutcomeFrame DEF CheckEnabled, Finish, lifeVars
<1>5. CASE Skip
  BY <1>5, OutcomeFrame DEF Skip, Finish, lifeVars
<1>6. CASE Proceed
  BY <1>6, OutcomeFrame DEF Proceed, lifeVars
<1>7. CASE StopSignal
  BY <1>7 DEF StopSignal, OutcomeInv, managerVarsButPc
<1>8. CASE StopDone
  BY <1>8 DEF StopDone, OutcomeInv, managerVarsButPc
<1>9. CASE StopTimeout
  BY <1>9 DEF StopTimeout, Finish, OutcomeInv
<1>10. CASE ExitTimeout
  BY <1>10 DEF ExitTimeout, OutcomeInv, managerVarsButPc
<1>11. CASE Build
  BY <1>11 DEF Build, OutcomeInv
<1>12. CASE BuildFails
  BY <1>12 DEF BuildFails, OutcomeInv, managerVarsButPc
<1>13. CASE LaunchNew
  BY <1>0, <1>13, LaunchServes DEF LaunchNew, Finish, OutcomeInv
<1>14. CASE Archive
  BY <1>14 DEF Archive, Finish, OutcomeInv, lifeVars, Serving
<1>15. CASE FallbackOffline
  BY <1>15 DEF FallbackOffline, Finish, OutcomeInv
<1>16. CASE FallbackBuild
  BY <1>16 DEF FallbackBuild, OutcomeInv
<1>17. CASE FallbackLaunch
  BY <1>0, <1>17, LaunchServes DEF FallbackLaunch, Finish, OutcomeInv
<1>18. CASE Shutdown
  BY <1>18, OutcomeFrame DEF Shutdown, managerVarsButPc, lifeVars
<1> QED
  BY <1>1, <1>2, <1>3, <1>4, <1>5, <1>6, <1>7, <1>8, <1>9, <1>10, <1>11, <1>12, <1>13,
     <1>14, <1>15, <1>16, <1>17, <1>18 DEF Boot, Reload

LEMMA OutcomeStep == TypeInv /\ OutcomeInv /\ [Next]_vars => OutcomeInv'
<1> SUFFICES ASSUME TypeInv, OutcomeInv, [Next]_vars PROVE OutcomeInv'
  OBVIOUS
<1>1. CASE UNCHANGED vars
  BY <1>1, OutcomeFrame DEF vars, lifeVars, managerVars
<1>2. ASSUME NEW h \in Gateways, GatewayStep(h) PROVE OutcomeInv'
  <2>1. UNCHANGED <<pc, current, outcome>> /\ RunStep(h)
    BY <1>2 DEF GatewayStep, managerVars
  <2>2. current \in Gateways /\ Serving(current) => Serving(current)'
    BY <2>1, ServingLasts
  <2> QED BY <2>1, <2>2 DEF OutcomeInv, AtRest
<1>3. CASE \/ \E c \in Configs : HandEdit(c)
           \/ \E w \in WebThreads, c \in Configs : CommitWrite(w, c)
           \/ \E w \in WebThreads :
                CommitDone(w) \/ CommitFail(w) \/ Rollback(w) \/ RequestReload(w)
           \/ \E t \in WatchThreads : TimerFire(t)
           \/ \E c \in Callers : Take(c) \/ Store(c)
  BY <1>3, OutcomeFrame DEF HandEdit, CommitWrite, CommitDone, CommitFail, Rollback,
     RequestReload, TimerFire, Take, Store, lifeVars
<1>4. ASSUME NEW c \in Callers, Acquire(c) PROVE OutcomeInv'
  BY <1>4, OutcomeFrame DEF Acquire, lifeVars, AtRest
<1> QED BY <1>1, <1>2, <1>3, <1>4, OutcomeReload DEF Next

LEMMA OutcomeInvariance == Spec => []OutcomeInv
<1>1. Init => OutcomeInv
  BY DEF Init, OutcomeInv, AtRest
<1> QED BY <1>1, OutcomeStep, TypeInvariance, PTL DEF Spec

\* The process is without a polling gateway only after a reload that reported
\* "fatal" or "aborted".
THEOREM OfflineIsReported == Spec => []OfflineWasReported
<1>1. OutcomeInv => OfflineWasReported
  BY DEF OutcomeInv, OfflineWasReported, AtRest, Offline
<1> QED BY <1>1, OutcomeInvariance, PTL

-----------------------------------------------------------------------------
(* What the web routes talk to: the thread in reload() is inside it. A       *)
(* caller holds the manager's instance unless a later one overtook it, and   *)
(* while none is about to store the manager's instance it is stored already, *)
(* or an overtaken caller stored last.                                       *)

ShownInv ==
    /\ pc \in Holding => holder \in Callers /\ call[holder] = "inside"
    /\ \A c \in Callers : call[c] = "inside" => pc \in Holding /\ c = holder
    /\ \A c \in Callers : call[c] = "storing" => c \in overtaken \/ taken[c] = current
    /\ \A c \in overtaken : call[c] = "storing"
    /\ Booting => \A c \in Callers : call[c] \notin {"publishing", "storing"}
    /\ \/ Booting \/ pc = "archive" \/ late \/ shown = current
       \/ \E c \in Callers : call[c] = "publishing"
       \/ \E c \in Callers : call[c] = "storing" /\ c \notin overtaken

\* The caller that leaves reload() has the instance to store, and overtook those
\* that are storing if it launched one.
LEMMA ShownFinish ==
  ASSUME TypeInv, ShownInv, pc \in Holding, NEW s, Finish(s),
         UNCHANGED <<current, view>> \/ Overtake
  PROVE  ShownInv'
<1> USE DEF Booting, Holding, ShownInv
<1>1. /\ call \in [Callers -> CallStates] /\ holder \in Callers /\ call[holder] = "inside"
      /\ pc' = "idle" /\ call' = [call EXCEPT ![holder] = "publishing"]
  BY DEF TypeInv, TypeOK, Finish
<1>2. /\ call'[holder] = "publishing"
      /\ \A d \in Callers : d # holder => call'[d] = call[d] /\ call[d] # "inside"
  BY <1>1
<1>3. \A d \in Callers : call'[d] # "inside"
  BY <1>2
<1>4. \A d \in Callers : call'[d] = "storing" => call[d] = "storing"
  BY <1>2
<1>5. \A d \in overtaken : d \in Callers /\ d # holder
  BY <1>1 DEF TypeInv, TypeOK
<1>6. \A d \in Callers : call'[d] = "storing" => d \in overtaken' \/ taken'[d] = current'
  BY <1>4
<1>7. \A d \in overtaken' : call'[d] = "storing"
  BY <1>1, <1>2, <1>5
<1> QED BY <1>1, <1>2, <1>3, <1>6, <1>7

\* A caller that has nothing to store goes on to something else.
LEMMA ShownFrame ==
  ASSUME TypeInv, ShownInv, NEW c \in Callers, NEW s \in {"idle", "waiting", "committing"},
         call[c] \notin {"publishing", "storing"},
         call' = [call EXCEPT ![c] = s], UNCHANGED <<current, view>>,
         \/ call[c] # "inside" /\ UNCHANGED <<pc, holder>>
         \/ call[c] = "inside" /\ pc \in Holding \ {"archive"} /\ pc' = "idle"
  PROVE  ShownInv'
<1> USE DEF Booting, Holding, ShownInv
<1>1. /\ call'[c] = s
      /\ \A d \in Callers : d # c => call'[d] = call[d]
  BY DEF TypeInv, TypeOK
<1>2. \A d \in Callers : call'[d] = "inside" => call[d] = "inside" /\ d # c
  BY <1>1
<1>3. \A d \in Callers : call'[d] \in {"publishing", "storing"} <=> call[d] \in {"publishing", "storing"}
  BY <1>1
<1>4. \A d \in Callers : call[d] \in {"publishing", "storing"} => call'[d] = call[d]
  BY <1>1
<1>5. \A d \in overtaken : d \in Callers
  BY DEF TypeInv, TypeOK
<1>6. /\ pc' \in Holding => holder' \in Callers /\ call'[holder'] = "inside"
      /\ \A d \in Callers : call'[d] = "inside" => pc' \in Holding /\ d = holder'
  BY <1>1, <1>2
<1>7. /\ \A d \in Callers : call'[d] = "storing" => d \in overtaken' \/ taken'[d] = current'
      /\ \A d \in overtaken' : call'[d] = "storing"
  BY <1>3, <1>4, <1>5
<1>8. Booting' => \A d \in Callers : call'[d] \notin {"publishing", "storing"}
  BY <1>3
<1>9. \/ Booting' \/ pc' = "archive" \/ late' \/ shown' = current'
      \/ \E d \in Callers : call'[d] = "publishing"
      \/ \E d \in Callers : call'[d] = "storing" /\ d \notin overtaken'
  BY <1>4
<1> QED BY <1>6, <1>7, <1>8, <1>9

LEMMA ShownReload ==
  ASSUME TypeInv, ShownInv, Boot \/ Reload \/ Shutdown
  PROVE  ShownInv'
<1> USE DEF Booting, Holding, ShownInv
<1>0. call \in [Callers -> CallStates] /\ pc \in Phases
  BY DEF TypeInv, TypeOK
<1>1. CASE Boot
  BY <1>1 DEF Boot, BootBuild, BootLaunch, BootHash
<1>2. CASE CheckEnabled
  <2>1. CASE disk \in Malformed
    BY <1>2, <2>1, ShownFrame DEF CheckEnabled
  <2>2. CASE disk \in DynamicOff \ Malformed
    BY <1>2, <2>2, ShownFinish DEF CheckEnabled
  <2>3. CASE disk \notin DynamicOff /\ disk \notin Malformed
    BY <1>2, <2>3 DEF CheckEnabled
  <2> QED BY <2>1, <2>2, <2>3
<1>3. CASE Skip \/ StopTimeout \/ FallbackOffline \/ Archive
  BY <1>3, ShownFinish DEF Skip, StopTimeout, FallbackOffline, Archive
<1>4. CASE Proceed \/ Build \/ FallbackBuild
  BY <1>4 DEF Proceed, Build, FallbackBuild
<1>5. CASE StopSignal \/ StopDone \/ ExitTimeout \/ BuildFails \/ Shutdown
  BY <1>5 DEF StopSignal, StopDone, ExitTimeout, BuildFails, Shutdown, managerVarsButPc
<1>6. CASE LaunchNew
  <2>1. CASE Trigger(holder) = "file_watch"
    BY <1>6, <2>1 DEF LaunchNew
  <2>2. CASE Trigger(holder) # "file_watch"
    BY <1>6, <2>2, ShownFinish DEF LaunchNew
  <2> QED BY <2>1, <2>2
<1>7. CASE FallbackLaunch
  BY <1>7, ShownFinish DEF FallbackLaunch
<1> QED BY <1>1, <1>2, <1>3, <1>4, <1>5, <1>6, <1>7 DEF Reload

LEMMA ShownStep == TypeInv /\ ShownInv /\ [Next]_vars => ShownInv'
<1> SUFFICES ASSUME TypeInv, ShownInv, [Next]_vars PROVE ShownInv'
  OBVIOUS
<1> USE DEF Booting, Holding, ShownInv
<1>0. call \in [Callers -> CallStates] /\ taken \in [Callers -> Gateways \cup {NoGateway}]
  BY DEF TypeInv, TypeOK
<1>1. CASE UNCHANGED vars \/ \E g \in Gateways : GatewayStep(g)
  BY <1>1 DEF vars, GatewayStep, managerVars
<1>2. CASE \E c \in Configs : HandEdit(c)
  BY <1>2 DEF HandEdit
<1>3. ASSUME NEW w \in WebThreads, NEW c \in Configs, CommitWrite(w, c) PROVE ShownInv'
  BY <1>0, <1>3 DEF CommitWrite
<1>4. ASSUME NEW w \in WebThreads,
             CommitDone(w) \/ CommitFail(w) \/ RequestReload(w)
      PROVE ShownInv'
  <2>1. w \in Callers /\ call[w] \in {"idle", "committing"}
    BY <1>4 DEF CommitDone, CommitFail, RequestReload
  <2> QED BY <1>4, <2>1, ShownFrame DEF CommitDone, CommitFail, RequestReload
<1>9. ASSUME NEW w \in WebThreads, Rollback(w) PROVE ShownInv'
  BY <1>9 DEF Rollback
<1>5. ASSUME NEW t \in WatchThreads, TimerFire(t) PROVE ShownInv'
  BY <1>0, <1>5 DEF TimerFire
<1>6. ASSUME NEW c \in Callers, Acquire(c) PROVE ShownInv'
  BY <1>0, <1>6 DEF Acquire
<1>7. ASSUME NEW c \in Callers, Take(c) PROVE ShownInv'
  <2>0. /\ call[c] = "publishing" /\ call' = [call EXCEPT ![c] = "storing"]
        /\ taken' = [taken EXCEPT ![c] = current]
        /\ UNCHANGED <<pc, holder, current, shown, overtaken, late>>
    BY <1>7 DEF Take
  <2>1. \A d \in Callers : d # c => call'[d] = call[d] /\ taken'[d] = taken[d]
    BY <1>0, <2>0
  <2>2. call'[c] = "storing" /\ taken'[c] = current
    BY <1>0, <2>0
  <2>3. c \notin overtaken
    BY <2>0
  <2> QED BY <1>0, <2>0, <2>1, <2>2, <2>3
<1>8. ASSUME NEW c \in Callers, Store(c) PROVE ShownInv'
  <2>0. call' = [call EXCEPT ![c] = "idle"] /\ shown' = taken[c] /\ UNCHANGED <<pc, holder, current>>
    BY <1>8 DEF Store
  <2>1. \A d \in Callers : d # c => call'[d] = call[d] /\ taken'[d] = taken[d]
    BY <1>0, <1>8 DEF Store
  <2>2. call'[c] = "idle" /\ overtaken' = overtaken \ {c} /\ late' = (c \in overtaken)
    BY <1>0, <1>8 DEF Store
  <2>3. \A d \in Callers : call'[d] = "storing" => d \in overtaken' \/ taken'[d] = current'
    BY <2>0, <2>1, <2>2
  <2>4. late' \/ shown' = current'
    BY <1>8, <2>0, <2>2 DEF Store
  <2>5. ~Booting
    BY <1>8 DEF Store
  <2>6. \A d \in Callers : call'[d] = "inside" => call[d] = "inside"
    BY <2>0, <2>1, <2>2
  <2>7. pc \in Holding => holder # c
    BY <1>8 DEF Store
  <2> QED BY <1>0, <2>0, <2>1, <2>2, <2>3, <2>4, <2>5, <2>6, <2>7
<1> QED BY <1>1, <1>2, <1>3, <1>4, <1>5, <1>6, <1>7, <1>8, <1>9, ShownReload DEF Next

LEMMA ShownInvariance == Spec => []ShownInv
<1>1. Init => ShownInv
  BY DEF Init, ShownInv, Holding, Booting
<1> QED BY <1>1, ShownStep, TypeInvariance, PTL DEF Spec

\* Between reloads the web routes talk to the manager's current gateway,
\* however many callers reloaded and whatever came of it, unless the last store
\* of app.state.gateway was made by a caller that another reload had overtaken
\* between its read of manager.current and that store.
THEOREM ShownStaysCurrent == Spec => []ShownIsCurrent
<1>1. ShownInv => ShownIsCurrent
  BY DEF ShownInv, ShownIsCurrent, Booting
<1> QED BY <1>1, ShownInvariance, PTL

LEMMA ReturnStep ==
  ASSUME Malformed = {}, TypeInv, ShownInv, [Next]_vars,
         NEW c \in Callers, call[c] = "inside"
  PROVE  call'[c] \in {"inside", "publishing"}
<1>0. call \in [Callers -> CallStates] /\ pc \in Holding /\ c = holder
  BY DEF TypeInv, TypeOK, ShownInv
<1> USE <1>0 DEF Holding
<1>1. CASE UNCHANGED vars \/ \E g \in Gateways : GatewayStep(g)
  BY <1>1 DEF vars, GatewayStep, managerVars
<1>2. CASE \/ \E d \in Configs : HandEdit(d)
           \/ \E w \in WebThreads, d \in Configs : CommitWrite(w, d)
           \/ \E w \in WebThreads :
                CommitDone(w) \/ CommitFail(w) \/ Rollback(w) \/ RequestReload(w)
           \/ \E t \in WatchThreads : TimerFire(t)
           \/ \E d \in Callers : Acquire(d) \/ Take(d) \/ Store(d)
  BY <1>2 DEF HandEdit, CommitWrite, CommitDone, CommitFail, Rollback, RequestReload,
     TimerFire, Acquire, Take, Store
<1>3. CASE Boot \/ Shutdown
  BY <1>3 DEF Boot, BootBuild, BootLaunch, BootHash, Shutdown, managerVarsButPc
<1>4. CASE CheckEnabled
  BY <1>4 DEF CheckEnabled, Finish
<1>5. CASE Skip \/ StopTimeout \/ FallbackOffline \/ Archive \/ LaunchNew \/ FallbackLaunch
  BY <1>5 DEF Skip, StopTimeout, FallbackOffline, Archive, LaunchNew, FallbackLaunch, Finish
<1>6. CASE Proceed \/ Build \/ FallbackBuild
  BY <1>6 DEF Proceed, Build, FallbackBuild
<1>7. CASE StopSignal \/ StopDone \/ ExitTimeout \/ BuildFails
  BY <1>7 DEF StopSignal, StopDone, ExitTimeout, BuildFails, managerVarsButPc
<1> QED BY <1>1, <1>2, <1>3, <1>4, <1>5, <1>6, <1>7 DEF Next, Reload

\* reload() returns a status to every caller (protocol_gateway.py:2074), as long
\* as configparser can parse what the file holds.
THEOREM EveryReloadReturns == Malformed = {} => (Spec => ReloadReturns)
<1> SUFFICES ASSUME Malformed = {} PROVE Spec => ReloadReturns
  OBVIOUS
<1>1. TypeInv /\ ShownInv /\ [Next]_vars =>
        [\A c \in Callers : call[c] = "inside" => call'[c] \in {"inside", "publishing"}]_vars
  BY ReturnStep
<1> QED BY <1>1, TypeInvariance, ShownInvariance, PTL DEF Spec, ReloadReturns

-----------------------------------------------------------------------------
(* The hash: where config.cfg is not written during a rebuild, what the      *)
(* manager says is loaded is what the current instance was built from.       *)

HashInv ==
    /\ ~Booting => loaded = config[current]
    /\ pc \in {"boot_launch", "launch"} => config[fresh] = disk
    /\ pc = "boot_hash" => config[current] = disk
    /\ pc \in {"signal", "wait", "build", "launch"} => seen = disk
    /\ pc = "archive" => loaded = disk

LEMMA HashReload ==
  ASSUME TypeInv, OutcomeInv, HashInv, Boot \/ Reload \/ Shutdown
  PROVE  HashInv'
<1> USE DEF Booting, HashInv
<1>0. /\ config \in [Gateways -> Configs \cup {NoConfig}] /\ pc \in Phases
      /\ pc \in Launching => fresh \in Gateways
      /\ pc \notin {"boot_build", "boot_launch"} => current \in Gateways
  BY DEF TypeInv, TypeOK, OutcomeInv
<1>1. CASE Boot
  BY <1>0, <1>1 DEF Boot, BootBuild, BootLaunch, BootHash
<1>2. CASE CheckEnabled
  BY <1>0, <1>2 DEF CheckEnabled, Finish
<1>3. CASE Skip \/ StopTimeout \/ FallbackOffline \/ Archive
  BY <1>0, <1>3 DEF Skip, StopTimeout, FallbackOffline, Archive, Finish
<1>4. CASE Proceed
  BY <1>4 DEF Proceed
<1>5. CASE Build \/ FallbackBuild
  BY <1>0, <1>5 DEF Build, FallbackBuild
<1>6. CASE StopSignal \/ StopDone \/ ExitTimeout \/ BuildFails \/ Shutdown
  BY <1>0, <1>6 DEF StopSignal, StopDone, ExitTimeout, BuildFails, Shutdown, managerVarsButPc
<1>7. CASE LaunchNew
  BY <1>0, <1>7 DEF LaunchNew, Finish
<1>8. CASE FallbackLaunch
  BY <1>0, <1>8 DEF FallbackLaunch, Finish
<1> QED BY <1>1, <1>2, <1>3, <1>4, <1>5, <1>6, <1>7, <1>8 DEF Reload

LEMMA HashStep ==
  ~EditsWhileBusy /\ TypeInv /\ OutcomeInv /\ HashInv /\ [Next]_vars => HashInv'
<1> SUFFICES ASSUME ~EditsWhileBusy, TypeInv, OutcomeInv, HashInv, [Next]_vars PROVE HashInv'
  OBVIOUS
<1> USE DEF Booting, HashInv
<1>1. CASE UNCHANGED vars \/ \E g \in Gateways : GatewayStep(g)
  BY <1>1 DEF vars, GatewayStep, managerVars
<1>2. CASE \/ \E c \in Configs : HandEdit(c)
           \/ \E w \in WebThreads, c \in Configs : CommitWrite(w, c)
           \/ \E w \in WebThreads : Rollback(w)
  BY <1>2 DEF HandEdit, CommitWrite, Rollback, MayWrite
<1>3. CASE \/ \E w \in WebThreads : CommitDone(w) \/ CommitFail(w) \/ RequestReload(w)
           \/ \E t \in WatchThreads : TimerFire(t)
           \/ \E c \in Callers : Acquire(c) \/ Take(c) \/ Store(c)
  BY <1>3 DEF CommitDone, CommitFail, RequestReload, TimerFire, Acquire, Take, Store
<1> QED BY <1>1, <1>2, <1>3, HashReload DEF Next

LEMMA HashInvariance == ~EditsWhileBusy => (Spec => []HashInv)
<1> SUFFICES ASSUME ~EditsWhileBusy PROVE Spec => []HashInv
  OBVIOUS
<1>1. Init => HashInv
  BY DEF Init, HashInv, Booting
<1>2. TypeInv /\ OutcomeInv /\ HashInv /\ [Next]_vars => HashInv'
  BY HashStep
<1> QED BY <1>1, <1>2, TypeInvariance, OutcomeInvariance, PTL DEF Spec

\* Where nobody writes config.cfg during a rebuild, a reload that is skipped as
\* "unchanged" leaves a gateway polling with exactly this configuration, unless
\* the last reload failed.
THEOREM SkipIsSafe == ~EditsWhileBusy => (Spec => SkipAfterSuccess)
<1> SUFFICES ASSUME ~EditsWhileBusy PROVE Spec => SkipAfterSuccess
  OBVIOUS
<1>1. OutcomeInv /\ HashInv =>
        [Skip /\ outcome \notin {"fatal", "aborted"}
           => Serving(current) /\ config[current] = disk]_vars
  BY DEF OutcomeInv, HashInv, Skip, AtRest, Offline, Booting
<1>2. Spec => []HashInv
  BY HashInvariance
<1> QED BY <1>1, <1>2, OutcomeInvariance, PTL DEF Spec, SkipAfterSuccess

\* There too, what a file_watch reload archives as proven to load is the
\* configuration its new gateway was built from (protocol_gateway.py:2169).
THEOREM ArchiveIsOfTheServed == ~EditsWhileBusy => (Spec => ArchivedWasServed)
<1> SUFFICES ASSUME ~EditsWhileBusy PROVE Spec => ArchivedWasServed
  OBVIOUS
<1>1. HashInv => [Archive /\ backups' # backups => disk = config[current]]_vars
  BY DEF HashInv, Archive, Booting
<1>2. Spec => []HashInv
  BY HashInvariance
<1> QED BY <1>1, <1>2, PTL DEF Spec, ArchivedWasServed
=============================================================================
