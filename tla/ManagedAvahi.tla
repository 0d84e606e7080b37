----------------------------- MODULE ManagedAvahi -----------------------------
(***************************************************************************)
(* The configuration store composed with the daemon it configures: what    *)
(* systemd's jobs do to avahi-daemon.service and avahi-daemon.socket       *)
(* (internal/systemd manager.go, called from apply.go and from the         *)
(* helper's lifecycle RPCs), what the daemon has read of the files, and    *)
(* what lookups, administrators and crashes do to it behind the helper's   *)
(* back.  Nobody else writes the files here: that is ConfigStore's Edit.   *)
(***************************************************************************)
EXTENDS ConfigStore

CONSTANTS
  Runnable,     \* the images avahi-daemon starts with
  MaxOutages    \* bound: starts and stops of the units by others

ASSUME RunnableAssumption == Runnable \subseteq Images
ASSUME OutagesAssumption == MaxOutages \in Nat

VARIABLES
  service,      \* ActiveState of avahi-daemon.service
  socket,       \* avahi-daemon.socket is active: a lookup starts the service
  loaded,       \* the image the daemon last read
  ctl,          \* the lifecycle request that runs
  stopped,      \* what the last word on the daemon was, if it was a stop
  outages

daemon == <<service, socket, loaded>>
life == <<ctl, stopped>>
allVars == <<vars, daemon, life, outages>>

States == {"inactive", "activating", "active"}
Actions == {"start", "stop", "restart", "reload"}

\* step: which unit's job runs, or what comes behind; failed: whose job failed.
NoCtl == [action |-> "none", step |-> "none", failed |-> {}]
Controls == [action : Actions, failed : SUBSET {"service", "socket"},
             step : {"service", "socket", "health", "look", "again"}]

ManagedInit ==
  /\ Init
  /\ service \in {"inactive", "active"} /\ socket \in BOOLEAN
  /\ loaded = disk
  /\ ctl = NoCtl /\ stopped = "no"
  /\ outages = 0

-----------------------------------------------------------------------------
\* What a finished systemd job has done to the service.

Up   == service' = "active"
Down == service' = "inactive" /\ UNCHANGED loaded

LoadAll == disk \in Runnable /\ Up /\ loaded' = disk

\* A reload fails on an inactive unit and reads only the service files; it waits
\* for a unit that is starting.
LoadServices ==
  /\ service # "inactive" /\ Up
  /\ loaded' = [f \in Files |-> IF f \in RestartFiles THEN loaded[f] ELSE disk[f]]

\* A daemon that runs is started already.
StartJob == IF service = "inactive" THEN LoadAll ELSE Up /\ UNCHANGED loaded

Job(action) ==
  \/ action = "start" /\ StartJob
  \/ action = "stop" /\ Down
  \/ action = "restart" /\ LoadAll
  \/ action = "reload" /\ LoadServices

\* A job that is reported as failed may have stopped the daemon or, when only
\* the deadline passed, may have finished all the same.
JobFails(action) ==
  \/ UNCHANGED <<service, loaded>>
  \/ Job(action)
  \/ action = "restart" /\ Down

-----------------------------------------------------------------------------
\* The transactions of the store.

ControlAction == IF op.dir = "back" THEN "restart" ELSE ChangeAction(op.from, op.to)

Control ==
  /\ ControlSucceeds /\ Job(ControlAction)
  /\ stopped' = "no"
  /\ UNCHANGED <<socket, ctl, outages>>

\* The probe of Healthy does not start a daemon that is down.
Healthy == HealthSucceeds /\ service = "active" /\ UNCHANGED <<daemon, life, outages>>

ControllerError ==
  /\ ControllerFails
  /\ IF pc = "control"
     THEN JobFails(ControlAction) /\ stopped' = "no" /\ UNCHANGED socket
     ELSE UNCHANGED <<daemon, stopped>>
  /\ UNCHANGED <<ctl, outages>>

-----------------------------------------------------------------------------
\* StartAvahi, StopAvahi, RestartAvahi and ReloadAvahi.  They hold the handler's
\* mutex for all their steps and do not look at the pending journal.

\* Variant: lifecycle requests that do not take the mutex.
LifecycleUnlocked == pc # "down" /\ ctl = NoCtl

LifecycleTurn == pc = "idle" /\ ctl = NoCtl

Lifecycle(action) ==
  /\ LifecycleTurn
  /\ ctl' = [action |-> action, step |-> IF action = "start" THEN "socket" ELSE "service", failed |-> {}]
  /\ stopped' = "no"
  /\ UNCHANGED <<vars, daemon, outages>>

At(action, step) == pc # "down" /\ ctl.action = action /\ ctl.step = step
Proceed(step) == ctl' = [ctl EXCEPT !.step = step] /\ UNCHANGED stopped
Return(last) == ctl' = NoCtl /\ stopped' = last
Fails(unit) == ctl.failed \union {unit}

\* start: the socket first; a failure ends it.
StartSocket ==
  /\ At("start", "socket")
  /\ \/ socket' = TRUE /\ Proceed("service")
     \/ socket' \in {socket, TRUE} /\ Return("no")
  /\ UNCHANGED <<vars, service, loaded, outages>>

\* Behind the job of start, restart and reload the helper waits for Healthy.
ServiceJob(action) ==
  /\ action # "stop" /\ At(action, "service")
  /\ \/ Job(action) /\ Proceed("health")
     \/ JobFails(action) /\ Return("no")
  /\ UNCHANGED <<vars, socket, outages>>

HealthWait(action) ==
  /\ At(action, "health") /\ Return("no")
  /\ UNCHANGED <<vars, daemon, outages>>

\* stop: both jobs are attempted, whatever the first one's result is.
StopService ==
  /\ At("stop", "service")
  /\ \/ Job("stop") /\ Proceed("socket")
     \/ JobFails("stop") /\ ctl' = [ctl EXCEPT !.step = "socket", !.failed = Fails("service")]
        /\ UNCHANGED stopped
  /\ UNCHANGED <<vars, socket, outages>>

StopSocket ==
  /\ At("stop", "socket")
  /\ \/ socket' = FALSE /\ IF ctl.failed = {} THEN Proceed("look") ELSE Return("disarmed")
     \/ socket' \in {socket, FALSE} /\ Return("no")
  /\ UNCHANGED <<vars, service, loaded, outages>>

\* Variant: nobody looks whether a lookup has started the service meanwhile.
LookNever ==
  /\ At("stop", "look") /\ Return("down")
  /\ UNCHANGED <<vars, daemon, outages>>

\* A unit that is starting, or cannot be read, is not "active".
Look ==
  /\ At("stop", "look")
  /\ \/ service = "active" /\ Proceed("again")
     \/ service # "active" /\ Return(IF service = "inactive" THEN "down" ELSE "overlooked")
     \/ Return("overlooked")
  /\ UNCHANGED <<vars, daemon, outages>>

StopAgain ==
  /\ At("stop", "again")
  /\ \/ Job("stop") /\ Return("down")
     \/ JobFails("stop") /\ Return("disarmed")
  /\ UNCHANGED <<vars, socket, outages>>

LifecycleStep ==
  \/ StartSocket \/ StopService \/ StopSocket \/ Look \/ StopAgain
  \/ \E action \in Actions : ServiceJob(action) \/ HealthWait(action)

-----------------------------------------------------------------------------
\* A lookup: systemd starts the service, which reads its files and answers, or
\* gives up on them.
Activate ==
  /\ socket /\ service = "inactive"
  /\ service' = "activating" /\ loaded' = disk
  /\ UNCHANGED <<vars, socket, life, outages>>

Activated ==
  /\ service = "activating"
  /\ service' = IF loaded \in Runnable THEN "active" ELSE "inactive"
  /\ UNCHANGED <<vars, socket, loaded, life, outages>>

\* systemctl on either unit, or a crash of the daemon.
Outage ==
  /\ outages < MaxOutages /\ outages' = outages + 1
  /\ stopped' = "no"
  /\ \/ service # "inactive" /\ Down /\ UNCHANGED socket
     \/ service = "inactive" /\ LoadAll /\ UNCHANGED socket
     \/ socket' = ~socket /\ UNCHANGED <<service, loaded>>
  /\ UNCHANGED <<vars, ctl>>

\* A request, a shutdown waits for the mutex too; a death takes the lifecycle
\* request along, but not the job systemd already runs.
Store ==
  /\ \/ ctl = NoCtl /\ (Request \/ Internal \/ Start \/ Stop) /\ UNCHANGED ctl
     \/ Crash /\ ctl' = NoCtl
  /\ UNCHANGED <<daemon, stopped, outages>>

ManagedNext ==
  \/ Store
  \/ Control \/ Healthy \/ ControllerError
  \/ \E action \in Actions : Lifecycle(action)
  \/ LifecycleStep
  \/ Activate \/ Activated \/ Outage

ManagedSpec == ManagedInit /\ [][ManagedNext]_allVars

\* The helper keeps running its code, systemd restarts it when it exits, I/O
\* errors and deaths are finitely many, and a controller asked again and again
\* to restart a runnable configuration at last answers.
ManagedFairSpec ==
  /\ ManagedSpec
  /\ WF_allVars((Internal /\ UNCHANGED <<daemon, life, outages>>) \/ Control \/ Healthy \/ ControllerError)
  /\ WF_allVars(Start /\ UNCHANGED <<daemon, life, outages>>)
  /\ SF_allVars(Control) /\ SF_allVars(Healthy)

-----------------------------------------------------------------------------
\* The daemon's own variables hold values of their types, and only one request
\* is inside the helper's mutex.
ManagedTypeOK ==
  /\ service \in States /\ socket \in BOOLEAN
  /\ loaded \in Images
  /\ ctl \in Controls \union {NoCtl} /\ (ctl # NoCtl => pc = "idle")
  /\ stopped \in {"no", "disarmed", "down", "overlooked"}
  /\ outages \in 0 .. MaxOutages

\* Reload or restart, as ChangeAction chooses, is enough: between requests, with
\* no journal left, a daemon that is up has read every file as it is on disk,
\* whatever failed, crashed or was rolled back on the way.
RunsWhatIsOnDisk ==
  pc \in {"idle", "down"} /\ ~Journaled /\ service # "inactive" => loaded = disk

\* The handler's mutex: no lifecycle request stops the daemon between the job
\* of a configuration change and its commit (when nobody else does).
StopNeverInterrupts ==
  op.dir = "forward" /\ pc \in {"health", "mkdir", "fill", "point", "clear"} /\ outages = 0 =>
    service = "active"

\* A stop that was answered well leaves nothing a lookup can start, and a daemon
\* that is down, though a lookup came between its two jobs; a service that is
\* still starting, or cannot be read, when stop looks for it is the exception.
\* And a failed stop of the service does not leave the socket on (Control, when
\* nobody else meddles).
StopHolds ==
  outages = 0 /\ stopped # "no" =>
    /\ ~socket
    /\ stopped = "down" => service = "inactive"

\* A helper that starts with a journal gets rid of it and serves, provided the
\* daemon runs with the configuration it has to go back to.
RecoversToRunnable ==
  (pc = "down" /\ Journaled /\ saved[pending.snap] \in Runnable) ~> Ready
=============================================================================
