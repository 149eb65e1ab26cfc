------------------------------ MODULE Lifespan ------------------------------
(* Start and stop of the Studio backend and of a service's API: resources   *)
(* are opened, background workers started; at the end each is told to stop, *)
(* waited for, cancelled after five seconds, and the resources are closed.  *)
EXTENDS Naturals, Sequences, FiniteSets, SequencesExt

CONSTANTS
    StudioWorkers,      \* the workers of Studio, in the order they are stopped
    Guarded             \* workers whose loop survives an error of a pass

ASSUME LifespanAssumption == StudioWorkers \in Seq(STRING) /\ Guarded \subseteq STRING

VARIABLES
    host,           \* "studio" or "service"
    life,           \* "down", "starting", "up", "stopping", "closing", "stopped", "aborted"
    configured,     \* the workers that are not switched off
    workerTask,     \* workerTask[w]: "none", "pass", "wait", "ended", "failed"
    stopFlags,      \* workers told to stop
    awaiting,       \* workers still to be waited for, in order
    resources,      \* what is open
    inAppState,     \* the runtime is in app.state
    abortCause

lifespanVars == <<host, life, configured, workerTask, stopFlags, awaiting, resources, inAppState, abortCause>>

ServiceWorkers == <<"hub">>
WorkersOf(h) == IF h = "studio" THEN StudioWorkers ELSE ServiceWorkers
CloseOrder(h) == IF h = "studio" THEN <<"http", "redis", "database">> ELSE <<"rabbitmq", "redis">>
AllWorkers == ToSet(StudioWorkers) \cup ToSet(ServiceWorkers) \cup {"recovery"}
Running == {w \in AllWorkers : workerTask[w] \in {"pass", "wait"}}

LifespanInit ==
    /\ host \in {"studio", "service"}
    /\ configured \in IF host = "service" THEN {{"hub"}} ELSE SUBSET (ToSet(StudioWorkers) \cup {"recovery"})
    /\ life = "down" /\ workerTask = [w \in AllWorkers |-> "none"] /\ stopFlags = {} /\ awaiting = <<>>
    /\ resources = {} /\ inAppState = FALSE /\ abortCause = "none"

-----------------------------------------------------------------------------
(* ensure_runtime makes the clients; the routers ask for it before the app *)
(* starts.                                                                 *)
EnsureRuntime ==
    /\ life = "down" /\ life' = "starting" /\ resources' = ToSet(CloseOrder(host)) /\ inAppState' = TRUE
    /\ UNCHANGED <<host, configured, workerTask, stopFlags, awaiting, abortCause>>

(* The checks succeed and all tasks are created.                           *)
StartUp ==
    /\ life = "starting" /\ life' = "up"
    /\ workerTask' = [w \in AllWorkers |-> IF w \in configured THEN "pass" ELSE "none"]
    /\ UNCHANGED <<host, configured, stopFlags, awaiting, resources, inAppState, abortCause>>

(* The recovery task is cancelled; the others are told to stop, and awaited*)
(* one after the other.                                                    *)
BeginStop ==
    /\ life' = "stopping" /\ stopFlags' = configured
    /\ workerTask' = [w \in AllWorkers |-> IF w = "recovery" /\ w \in Running THEN "ended" ELSE workerTask[w]]
    /\ awaiting' = WorkersOf(host)
    /\ UNCHANGED <<host, configured, resources, inAppState>>
(* A check fails: both clean up.  A start that is cancelled is cleaned up  *)
(* by Studio only; the service catches exceptions.                         *)
StartFails(cancelled) ==
    /\ life = "starting"
    /\ IF cancelled /\ host = "service"
       THEN /\ life' = "aborted" /\ abortCause' = "cancelled"
            /\ UNCHANGED <<host, configured, workerTask, stopFlags, awaiting, resources, inAppState>>
       ELSE BeginStop /\ UNCHANGED abortCause
Shutdown == life = "up" /\ BeginStop /\ UNCHANGED abortCause

-----------------------------------------------------------------------------
(* run_forever of a worker: passes with a pause between them, until told   *)
(* to stop.                                                                *)
WorkerTo(w, state) ==
    /\ workerTask' = [workerTask EXCEPT ![w] = state]
    /\ UNCHANGED <<host, life, configured, stopFlags, awaiting, resources, inAppState, abortCause>>
PassDone(w) == workerTask[w] = "pass" /\ WorkerTo(w, "wait")
PassFails(w) == workerTask[w] = "pass" /\ WorkerTo(w, IF w \in Guarded THEN "wait" ELSE "failed")
PauseOver(w) == workerTask[w] = "wait" /\ w \notin stopFlags /\ WorkerTo(w, "pass")
StopSeen(w) == workerTask[w] = "wait" /\ w \in stopFlags /\ WorkerTo(w, "ended")

(* Waiting for the task of a worker hands on the error it ended with, and  *)
(* the rest of the clean-up is left out.  A worker without a task is       *)
(* passed over.                                                            *)
Awaited ==
    /\ life = "stopping" /\ awaiting # <<>> /\ workerTask[awaiting[1]] \in {"none", "ended", "failed"}
    /\ IF workerTask[awaiting[1]] = "failed"
       THEN life' = "aborted" /\ abortCause' = awaiting[1] /\ UNCHANGED awaiting
       ELSE awaiting' = Tail(awaiting) /\ UNCHANGED <<life, abortCause>>
    /\ UNCHANGED <<host, configured, workerTask, stopFlags, resources, inAppState>>
(* Seeded fault: after the timeout the task is left to itself.             *)
MutantAwaitTimesOut ==
    /\ life = "stopping" /\ awaiting # <<>> /\ workerTask[awaiting[1]] \in {"pass", "wait"}
    /\ awaiting' = Tail(awaiting)
    /\ UNCHANGED <<host, life, configured, workerTask, stopFlags, resources, inAppState, abortCause>>
(* Five seconds are over: cancelled, and waited for.                       *)
AwaitTimesOut ==
    /\ life = "stopping" /\ awaiting # <<>> /\ workerTask[awaiting[1]] \in {"pass", "wait"}
    /\ workerTask' = [workerTask EXCEPT ![awaiting[1]] = "ended"] /\ awaiting' = Tail(awaiting)
    /\ UNCHANGED <<host, life, configured, stopFlags, resources, inAppState, abortCause>>
AllAwaited ==
    /\ life = "stopping" /\ awaiting = <<>> /\ life' = "closing"
    /\ UNCHANGED <<host, configured, workerTask, stopFlags, awaiting, resources, inAppState, abortCause>>

(* The resources are closed in order; an error leaves the rest open.       *)
Close(fails) ==
    /\ life = "closing"
    /\ \E i \in DOMAIN CloseOrder(host) :
          /\ CloseOrder(host)[i] \in resources /\ \A j \in 1 .. i - 1 : CloseOrder(host)[j] \notin resources
          /\ IF fails THEN life' = "aborted" /\ abortCause' = CloseOrder(host)[i] /\ UNCHANGED resources
             ELSE resources' = resources \ {CloseOrder(host)[i]} /\ UNCHANGED <<life, abortCause>>
    /\ UNCHANGED <<host, configured, workerTask, stopFlags, awaiting, inAppState>>
Stopped ==
    /\ life = "closing" /\ resources = {} /\ life' = "stopped" /\ inAppState' = FALSE
    /\ UNCHANGED <<host, configured, workerTask, stopFlags, awaiting, resources, abortCause>>

LifespanNext ==
    \/ EnsureRuntime \/ StartUp \/ Shutdown \/ Awaited \/ AwaitTimesOut \/ AllAwaited \/ Stopped
    \/ \E b \in BOOLEAN : StartFails(b) \/ Close(b)
    \/ \E w \in AllWorkers : PassDone(w) \/ PassFails(w) \/ PauseOver(w) \/ StopSeen(w)

LifespanSpec == LifespanInit /\ [][LifespanNext]_lifespanVars

-----------------------------------------------------------------------------
(* While resources are closed no worker runs that could use them; a stop   *)
(* that came to its end has closed everything; one that did not was cut    *)
(* short by a worker that does not survive its errors, by a resource that  *)
(* could not be closed, or by a cancelled start.                           *)
StopReleases ==
    /\ life \in {"closing", "stopped"} => Running = {}
    /\ life = "stopped" => resources = {} /\ ~inAppState
    /\ life = "aborted" => abortCause \in {"cancelled"} \cup ToSet(CloseOrder(host)) \cup (AllWorkers \ Guarded)
=============================================================================
