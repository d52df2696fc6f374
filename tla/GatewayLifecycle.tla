-------------------------- MODULE GatewayLifecycle --------------------------
(***************************************************************************)
(* The life of Protocol_Gateway instances (protocol_gateway.py): the run() *)
(* thread, the pool task it hands a scrape to, the stop() handshake through *)
(* __running / __stopped_event, and whether the instance still holds the   *)
(* field-bus connections its transports opened.                            *)
(*                                                                         *)
(* An instance runs once: "built" -> run() -> "exited"; an identifier whose *)
(* object is garbage ("unborn" again) stands for a later instance.         *)
(***************************************************************************)

CONSTANTS
    Gateways,     \* the instances the process may construct
    PromptStart   \* TRUE: a started thread is in run()'s loop before anybody
                  \* calls stop() on its gateway (a scheduling assumption)

ASSUME LifecycleAssumption ==
    PromptStart \in BOOLEAN

VARIABLES
    thread,     \* where the MPGGatewayRun thread of each instance is
    running,    \* Protocol_Gateway.__running
    stopped,    \* Protocol_Gateway.__stopped_event.is_set()
    links,      \* TRUE: some transport of the instance holds its bus open
    pooled,     \* TRUE: read_mode concurrent/interleaved; FALSE: sequential
    task        \* the pool worker of the instance (concurrent / interleaved)

lifeVars == <<thread, running, stopped, links, pooled, task>>

ThreadStates == {"unborn", "built", "started", "entering", "polling", "reading", "exited"}
TaskStates   == {"none", "queued", "opening", "reading"}

LifeTypeOK ==
    /\ thread \in [Gateways -> ThreadStates]
    /\ running \in [Gateways -> BOOLEAN]
    /\ stopped \in [Gateways -> BOOLEAN]
    /\ links \in [Gateways -> BOOLEAN]
    /\ pooled \in [Gateways -> BOOLEAN]
    /\ task \in [Gateways -> TaskStates]

\* __init__: no loop yet, the event starts set.
LifeInit ==
    /\ thread = [g \in Gateways |-> "unborn"]
    /\ running = [g \in Gateways |-> FALSE]
    /\ stopped = [g \in Gateways |-> TRUE]
    /\ links = [g \in Gateways |-> FALSE]
    /\ pooled = [g \in Gateways |-> FALSE]
    /\ task = [g \in Gateways |-> "none"]

-----------------------------------------------------------------------------
(* run() *)

\* First statement of run(): __running = True, whatever stop() wrote before.
RunEnter(g) ==
    /\ thread[g] = "started"
    /\ thread' = [thread EXCEPT ![g] = "entering"]
    /\ running' = [running EXCEPT ![g] = TRUE]
    /\ UNCHANGED <<stopped, links, pooled, task>>

\* Second statement: __stopped_event.clear(), then the while loop.
RunClear(g) ==
    /\ thread[g] = "entering"
    /\ thread' = [thread EXCEPT ![g] = "polling"]
    /\ stopped' = [stopped EXCEPT ![g] = FALSE]
    /\ UNCHANGED <<running, links, pooled, task>>

\* A due group in sequential mode is read on this thread; the primary is
\* (re)connected first when it is not connected, which may fail.
ReadGroup(g) ==
    /\ ~pooled[g]
    /\ thread[g] = "polling" /\ running[g]
    /\ thread' = [thread EXCEPT ![g] = "reading"]
    /\ \E up \in {links[g], TRUE} : links' = [links EXCEPT ![g] = up]
    /\ UNCHANGED <<running, stopped, pooled, task>>

ReadDone(g) ==
    /\ thread[g] = "reading"
    /\ thread' = [thread EXCEPT ![g] = "polling"]
    /\ UNCHANGED <<running, stopped, links, pooled, task>>

\* A due group in the other modes goes to the pool unless its previous
\* future is still running.
SubmitRead(g) ==
    /\ pooled[g]
    /\ thread[g] = "polling" /\ running[g]
    /\ task[g] = "none"
    /\ task' = [task EXCEPT ![g] = "queued"]
    /\ UNCHANGED <<thread, running, stopped, links, pooled>>

TaskStart(g) ==
    /\ task[g] = "queued"
    /\ task' = [task EXCEPT ![g] = "opening"]
    /\ UNCHANGED <<thread, running, stopped, links, pooled>>

\* The worker's own reconnect guard: connect() when not connected.
TaskConnect(g) ==
    /\ task[g] = "opening"
    /\ task' = [task EXCEPT ![g] = "reading"]
    /\ \E up \in {links[g], TRUE} : links' = [links EXCEPT ![g] = up]
    /\ UNCHANGED <<thread, running, stopped, pooled>>

TaskDone(g) ==
    /\ task[g] = "reading"
    /\ task' = [task EXCEPT ![g] = "none"]
    /\ UNCHANGED <<thread, running, stopped, links, pooled>>

\* run()'s finally: shutdown(wait=False, cancel_futures=True) drops a task the
\* pool has not picked up and leaves a started one alone; then the event.
RunExit(g) ==
    /\ thread[g] = "polling" /\ ~running[g]
    /\ thread' = [thread EXCEPT ![g] = "exited"]
    /\ stopped' = [stopped EXCEPT ![g] = TRUE]
    /\ task' = [task EXCEPT ![g] = IF @ = "queued" THEN "none" ELSE @]
    /\ UNCHANGED <<running, links, pooled>>

RunStep(g) ==
    \/ RunEnter(g) \/ RunClear(g) \/ ReadGroup(g) \/ ReadDone(g)
    \/ SubmitRead(g) \/ TaskStart(g) \/ TaskConnect(g) \/ TaskDone(g)
    \/ RunExit(g)

-----------------------------------------------------------------------------
(* Operators for the manager, which constructs, starts and stops instances. *)

\* An identifier no live object uses.
Fresh(g) == thread[g] \in {"unborn", "exited"} /\ ~links[g] /\ task[g] = "none"

\* __init__ up to its end: fields set, every transport constructed and connected.
Construct(g, pool) ==
    /\ Fresh(g)
    /\ thread' = [thread EXCEPT ![g] = "built"]
    /\ running' = [running EXCEPT ![g] = FALSE]
    /\ stopped' = [stopped EXCEPT ![g] = TRUE]
    /\ links' = [links EXCEPT ![g] = TRUE]
    /\ pooled' = [pooled EXCEPT ![g] = pool]
    /\ UNCHANGED task

\* __init__ raised after its connect() loop began: nobody keeps a reference to
\* the transports already connected, and nobody calls cleanup() on them.
ConstructLeaking(g) ==
    /\ Fresh(g)
    /\ links' = [links EXCEPT ![g] = TRUE]
    /\ UNCHANGED <<thread, running, stopped, pooled, task>>

\* _start_thread()
Launch(g) ==
    /\ thread[g] = "built"
    /\ thread' = [thread EXCEPT ![g] = "started"]
    /\ UNCHANGED <<running, stopped, links, pooled, task>>

\* stop(), up to the wait: __running = False.
Signal(g) ==
    /\ PromptStart => thread[g] \notin {"started", "entering"}
    /\ running' = [running EXCEPT ![g] = FALSE]
    /\ UNCHANGED <<thread, stopped, links, pooled, task>>

\* Mutant of CleanUp: no transport is cleaned up.
CleanUpForgotten(g) == stopped[g] /\ UNCHANGED lifeVars

\* stop(), the wait returned True: transport.cleanup() for every transport.
CleanUp(g) ==
    /\ stopped[g]
    /\ links' = [links EXCEPT ![g] = FALSE]
    /\ UNCHANGED <<thread, running, stopped, pooled, task>>

\* stop(), the wait timed out: only a read in flight holds the loop that long.
Overruns(g) ==
    /\ ~stopped[g] /\ thread[g] = "reading"
    /\ UNCHANGED lifeVars

\* The instance polls its devices and will go on doing so.
Serving(g) ==
    \/ thread[g] = "started"
    \/ thread[g] \in {"entering", "polling", "reading"} /\ running[g]
=============================================================================
