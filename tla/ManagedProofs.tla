---------------------------- MODULE ManagedProofs ----------------------------
(***************************************************************************)
(* The daemon runs what is on disk, a stop holds, and no lifecycle request *)
(* interrupts a transaction, for every configuration, every set of images  *)
(* the daemon starts with, and any number of failures, deaths and outages. *)
(* A step of the composition is a step of the store or leaves it alone, so *)
(* it implements the store, and StoreInv, DiskInv and Atomicity hold here  *)
(* too; MutexInv says that a lifecycle request and a transaction exclude   *)
(* each other, and RunsInv what a daemon that is up may have read at each  *)
(* step of a transaction.                                                  *)
(***************************************************************************)
EXTENDS ManagedAvahi, AtomicityProofs

USE DEF Values, Images, Ids, NoId

LEMMA StepOfStore == ManagedNext => Next \/ UNCHANGED vars
  BY DEF ManagedNext, Store, Control, Healthy, ControllerError, Lifecycle, LifecycleStep, StartSocket,
     StopService, StopSocket, Look, StopAgain, ServiceJob, HealthWait, Activate, Activated, Outage,
     Next, Step, Controller

\* The store's invariants, in the composition.
LEMMA StoreHere == ManagedSpec => [](StoreInv /\ DiskInv)
<1>1. ManagedInit => StoreInv /\ DiskInv
  BY StoreInvInit, DiskInit DEF ManagedInit
<1>2. StoreInv /\ DiskInv /\ [ManagedNext]_allVars => StoreInv' /\ DiskInv'
  <2>1. [ManagedNext]_allVars => Next \/ UNCHANGED vars
    BY StepOfStore DEF allVars
  <2>2. StoreInv /\ Next => StoreInv'
    BY TypeStep, ShapeStep, HandlesStep, FreshStep, LoadableStep DEF StoreInv
  <2> QED
    BY <2>1, <2>2, StoreInvStutter, DiskStep, DiskStutter
<1> QED
  BY <1>1, <1>2, PTL DEF ManagedSpec

-----------------------------------------------------------------------------
LEMMA ImagesMix ==
  ASSUME NEW x \in Images, NEW y \in Images
  PROVE  [f \in Files |-> IF f \in RestartFiles THEN x[f] ELSE y[f]] \in Images
OBVIOUS

\* A job leaves the service in one of its states, with an image it has read.
LEMMA JobTypes ==
  ASSUME StoreInv, service \in States, loaded \in Images, NEW action,
         Job(action) \/ JobFails(action)
  PROVE  service' \in States /\ loaded' \in Images
<1>1. disk \in Images
  BY DEF StoreInv, TypeOK
<1>2. CASE Job(action)
  BY <1>1, <1>2, ImagesMix DEF Job, StartJob, LoadAll, LoadServices, Up, Down, States
<1> QED
  BY <1>2 DEF JobFails, Down, States

LEMMA CtlTypes ==
  /\ \A action \in Actions, step \in {"service", "socket"} :
       [action |-> action, step |-> step, failed |-> {}] \in Controls
  /\ \A c \in Controls, step \in {"service", "socket", "health", "look", "again"} :
       [c EXCEPT !.step = step] \in Controls
  /\ \A c \in Controls : [c EXCEPT !.step = "socket", !.failed = c.failed \union {"service"}] \in Controls
BY DEF Controls, Actions

\* A lifecycle request that is at one of its steps has the mutex.
LEMMA HasMutex ==
  ASSUME ManagedTypeOK, NEW action \in Actions, NEW step, At(action, step)
  PROVE  ctl \in Controls /\ ctl # NoCtl /\ pc = "idle"
BY DEF ManagedTypeOK, At, NoCtl, Actions

\* Where a step of a lifecycle request leaves its record and the last word.
LEMMA CtlNext ==
  ASSUME ManagedTypeOK, LifecycleStep
  PROVE  /\ ctl' \in Controls \union {NoCtl} /\ pc = "idle" /\ UNCHANGED <<vars, outages>>
         /\ stopped' \in {"no", "disarmed", "down", "overlooked"}
<1> DEFINE Good2 == /\ ctl' \in Controls \union {NoCtl}
                    /\ stopped' \in {"no", "disarmed", "down", "overlooked"}
<1> USE CtlTypes DEF daemon
<1>1. ASSUME NEW last \in {"no", "disarmed", "down", "overlooked"}, Return(last)
      PROVE  Good2
  BY <1>1 DEF Return
<1>2. ASSUME NEW step \in {"service", "socket", "health", "look", "again"}, Proceed(step), ctl \in Controls
      PROVE  Good2
  BY <1>2 DEF Proceed, ManagedTypeOK
<1> HIDE DEF Good2
<1>3. CASE StartSocket
  <2>1. ctl \in Controls /\ pc = "idle"
    BY <1>3, HasMutex DEF StartSocket, Actions
  <2> QED
    BY <1>1, <1>2, <1>3, <2>1 DEF StartSocket, Good2
<1>4. CASE StopService
  <2>1. ctl \in Controls /\ pc = "idle"
    BY <1>4, HasMutex DEF StopService, Actions
  <2>2. Proceed("socket") \/ (ctl' = [ctl EXCEPT !.step = "socket", !.failed = ctl.failed \union {"service"}]
                              /\ UNCHANGED stopped)
    BY <1>4 DEF StopService, Fails
  <2>3. Good2
    BY <1>2, <2>1, <2>2 DEF Good2, ManagedTypeOK
  <2> QED
    BY <1>4, <2>1, <2>3 DEF StopService, Good2
<1>5. CASE StopSocket
  <2>1. ctl \in Controls /\ pc = "idle"
    BY <1>5, HasMutex DEF StopSocket, Actions
  <2> QED
    BY <1>1, <1>2, <1>5, <2>1 DEF StopSocket, Good2
<1>6. CASE Look
  <2>1. ctl \in Controls /\ pc = "idle"
    BY <1>6, HasMutex DEF Look, Actions
  <2>2. Proceed("again") \/ Return("down") \/ Return("overlooked")
    BY <1>6 DEF Look
  <2> QED
    BY <1>1, <1>2, <1>6, <2>1, <2>2 DEF Look, Good2
<1>7. CASE StopAgain
  <2>1. ctl \in Controls /\ pc = "idle"
    BY <1>7, HasMutex DEF StopAgain, Actions
  <2> QED
    BY <1>1, <1>7, <2>1 DEF StopAgain, Good2
<1>8. ASSUME NEW action \in Actions, ServiceJob(action) \/ HealthWait(action)
      PROVE  Good2 /\ pc = "idle" /\ UNCHANGED <<vars, outages>>
  <2>1. ctl \in Controls /\ pc = "idle"
    BY <1>8, HasMutex DEF ServiceJob, HealthWait
  <2>2. Proceed("health") \/ Return("no")
    BY <1>8 DEF ServiceJob, HealthWait
  <2>3. Good2
    BY <1>1, <1>2, <2>1, <2>2
  <2> QED
    BY <1>8, <2>1, <2>3 DEF ServiceJob, HealthWait
<1> QED
  BY <1>3, <1>4, <1>5, <1>6, <1>7, <1>8 DEF LifecycleStep, Good2

\* What a lifecycle request's jobs do to the two units.
LEMMA UnitsNext ==
  ASSUME StoreInv, ManagedTypeOK, LifecycleStep
  PROVE  service' \in States /\ loaded' \in Images /\ socket' \in BOOLEAN
<1>1. \/ UNCHANGED <<service, loaded>>
      \/ \E action : Job(action) \/ JobFails(action)
  BY DEF LifecycleStep, StartSocket, StopService, StopSocket, Look, StopAgain, ServiceJob, HealthWait,
     daemon
<1>2. service' \in States /\ loaded' \in Images
  BY <1>1, JobTypes DEF ManagedTypeOK
<1>3. socket' \in {socket, TRUE, FALSE}
  BY DEF LifecycleStep, StartSocket, StopService, StopSocket, Look, StopAgain, ServiceJob, HealthWait,
     daemon
<1>4. socket' \in BOOLEAN
  BY <1>3 DEF ManagedTypeOK
<1> QED
  BY <1>2, <1>4

\* Types, and the mutex: no transaction runs while a lifecycle request does.
LEMMA LifecycleTypes ==
  ASSUME StoreInv, ManagedTypeOK, (\E action \in Actions : Lifecycle(action)) \/ LifecycleStep
  PROVE  ManagedTypeOK'
<1>1. ASSUME NEW action \in Actions, Lifecycle(action)
      PROVE  ManagedTypeOK'
  BY <1>1, CtlTypes DEF Lifecycle, LifecycleTurn, ManagedTypeOK, daemon, vars
<1>2. CASE LifecycleStep
  BY <1>2, CtlNext, UnitsNext DEF ManagedTypeOK, vars
<1> QED
  BY <1>1, <1>2

LEMMA ManagedTypeStep ==
  ASSUME StoreInv, ManagedTypeOK, [ManagedNext]_allVars
  PROVE  ManagedTypeOK'
<1> USE DEF ManagedTypeOK, daemon, life
<1>1. CASE Store
  BY <1>1 DEF Store, Crash
<1>2. CASE Control
  <2>1. service' \in States /\ loaded' \in Images
    BY <1>2, JobTypes DEF Control
  <2> QED
    BY <1>2, <2>1 DEF Control, ControlSucceeds
<1>3. CASE Healthy
  BY <1>3 DEF Healthy, HealthSucceeds
<1>4. CASE ControllerError
  <2>1. service' \in States /\ loaded' \in Images
    BY <1>4, JobTypes DEF ControllerError
  <2>2. ctl = NoCtl /\ ctl' = ctl
    BY <1>4 DEF ControllerError, ControllerFails
  <2> QED
    BY <1>4, <2>1, <2>2 DEF ControllerError
<1>5. CASE Activate
  BY <1>5 DEF Activate, States, StoreInv, TypeOK, vars
<1>6. CASE Activated
  BY <1>6 DEF Activated, States, vars
<1>7. CASE Outage
  <2>1. outages' \in 0 .. MaxOutages
    BY <1>7, OutagesAssumption DEF Outage
  <2>2. service' \in States /\ loaded' \in Images
    BY <1>7 DEF Outage, Down, LoadAll, Up, States, StoreInv, TypeOK
  <2>3. socket' \in BOOLEAN
    BY <1>7 DEF Outage
  <2> QED
    BY <1>7, <2>1, <2>2, <2>3 DEF Outage, vars
<1>8. CASE UNCHANGED allVars
  BY <1>8 DEF allVars, vars
<1> QED
  BY <1>1, <1>2, <1>3, <1>4, <1>5, <1>6, <1>7, <1>8, LifecycleTypes DEF ManagedNext

LEMMA ManagedTypeInit == ManagedInit => ManagedTypeOK
  BY OutagesAssumption DEF ManagedInit, ManagedTypeOK, Init, States

\* The composition keeps its types, and the helper's mutex excludes lifecycle
\* requests and transactions from each other.
THEOREM MutexHolds == ManagedSpec => []ManagedTypeOK
  BY StoreHere, ManagedTypeInit, ManagedTypeStep, PTL DEF ManagedSpec

-----------------------------------------------------------------------------
\* No journal is left, or its configuration is on disk and a job has run.
Settled ==
  ~Journaled \/ (pc \in {"health", "mkdir", "fill", "point", "clear"} /\ op.dir # "none")

Committing == op.dir = "forward" /\ pc \in {"health", "mkdir", "fill", "point", "clear"}

\* Only the controller's answers bring the store to either.
LEMMA StoreSettles ==
  ASSUME StoreInv, Store
  PROVE  (Settled' => Settled) /\ (Committing' => Committing)
<1> USE DEF StoreInv, TypeOK, Operations, Shape, Planning, BackingUp, Recording, Forward, Back,
      Settled, Committing, Journaled, NoOp
<1>1. CASE Mkdir \/ MkdirFails \/ Fill \/ FillFails
  BY <1>1 DEF Mkdir, MkdirFails, Fill, FillFails, Failed, End, Goto, RollbackFailed
<1>2. CASE Recheck \/ RecheckFails \/ WriteJournal \/ WriteJournalFails
  BY <1>2 DEF Recheck, RecheckFails, WriteJournal, WriteJournalFails, Goto, End
<1>3. CASE Stage \/ Swap \/ Sync \/ ReplaceFails
  BY <1>3 DEF Stage, Swap, Sync, ReplaceFails, Goto, Failed, End, RollbackFailed
<1>4. CASE SetBaseline \/ SetBaselineFails
  BY <1>4 DEF SetBaseline, SetBaselineFails, Goto, Failed, End, RollbackFailed
<1>5. CASE ClearPending \/ ClearPendingFails
  BY <1>5 DEF ClearPending, ClearPendingFails, Goto, End, RollbackFailed
<1>6. CASE Rollback \/ RollbackReadFails
  BY <1>6 DEF Rollback, RollbackReadFails, End, RollbackFailed
<1>7. CASE PruneOne \/ PruneDone \/ PruneFails \/ Unlink \/ UnlinkFails
  BY <1>7 DEF PruneOne, PruneDone, PruneFails, Unlink, UnlinkFails, PruneFailed, End, Goto
<1>8. CASE Start \/ Stop \/ Crash
  BY <1>8 DEF Start, Stop, Crash, Goto
<1>9. CASE Request
  <2>2. ASSUME NEW id \in Ids, DeleteSnapshot(id)
        PROVE  pending = NoJournal /\ op'.dir = "none"
    BY <2>2 DEF DeleteSnapshot, Ready
  <2>3. pending = NoJournal /\ op'.dir = "none"
    <3>1. Opens => pending = NoJournal /\ op'.dir = "none"
      BY DEF Opens, Begin, Ready
    <3> QED
      BY <1>9, <2>2, <3>1, RequestForms
  <2> QED
    BY <2>3
<1> QED
  BY <1>1, <1>2, <1>3, <1>4, <1>5, <1>6, <1>7, <1>8, <1>9 DEF Store, Internal

\* A job of a transaction is a restart or a reload.
LEMMA ControlStarts ==
  ASSUME Control
  PROVE  service' = "active"
BY DEF Control, ControlAction, ChangeAction, Job, LoadAll, LoadServices, Up

LEMMA ControllerErrorMoves ==
  ASSUME StoreInv, ControllerError
  PROVE  ~Committing' /\ (Settled' => Settled) /\ pc' \notin {"stage", "swap", "control"}
BY DEF ControllerError, ControllerFails, Failed, End, Goto, RollbackFailed, StoreInv, TypeOK,
   Operations, Shape, Planning, BackingUp, Recording, Forward, Back, Settled, Committing, Journaled, NoOp

LEMMA NotInterruptedStep ==
  ASSUME StoreInv, ManagedTypeOK, StopNeverInterrupts, [ManagedNext]_allVars
  PROVE  StopNeverInterrupts'
<1> USE DEF StopNeverInterrupts, daemon, life, Committing
<1>1. CASE Store
  BY <1>1, StoreSettles DEF Store
<1>2. CASE Control
  BY <1>2, ControlStarts
<1>3. CASE Healthy
  BY <1>3 DEF Healthy
<1>4. CASE ControllerError
  BY <1>4, ControllerErrorMoves
<1>5. CASE (\E action \in Actions : Lifecycle(action)) \/ LifecycleStep
  <2>1. pc' = "idle"
    BY <1>5, CtlNext DEF Lifecycle, LifecycleTurn, vars
  <2> QED
    BY <2>1
<1>6. CASE Activate \/ Activated
  BY <1>6 DEF Activate, Activated, vars
<1>7. CASE Outage
  BY <1>7 DEF Outage, ManagedTypeOK
<1>8. CASE UNCHANGED allVars
  BY <1>8 DEF allVars, vars
<1> QED
  BY <1>1, <1>2, <1>3, <1>4, <1>5, <1>6, <1>7, <1>8 DEF ManagedNext

\* No lifecycle request stops the daemon between a change's job and its commit.
THEOREM TransactionsAreNotInterrupted == ManagedSpec => []StopNeverInterrupts
<1>1. ManagedInit => StopNeverInterrupts
  BY DEF ManagedInit, Init, NoOp, StopNeverInterrupts
<1> QED
  BY <1>1, StoreHere, MutexHolds, NotInterruptedStep, PTL DEF ManagedSpec

-----------------------------------------------------------------------------
\* From the socket's job on, a stop has nothing left that could start the
\* service; and while a request runs, no stop is the last word.
StopInv ==
  /\ ctl # NoCtl => stopped = "no"
  /\ outages = 0 /\ ctl.action = "stop" /\ ctl.step \in {"look", "again"} => ~socket
  /\ StopHolds

LEMMA StopStep ==
  ASSUME StoreInv, ManagedTypeOK, StopInv, LifecycleStep
  PROVE  StopInv'
<1> USE DEF StopInv, StopHolds
<1>1. ASSUME NEW action \in Actions, At(action, ctl.step)
      PROVE  ctl \in Controls /\ stopped = "no"
  BY <1>1, HasMutex
<1>2. CASE StartSocket
  <2>1. ctl \in Controls /\ stopped = "no" /\ ctl.action = "start"
    BY <1>1, <1>2 DEF StartSocket, At, Actions
  <2>2. (ctl'.action = "start" /\ stopped' = "no") \/ (ctl' = NoCtl /\ stopped' = "no")
    BY <1>2, <2>1 DEF StartSocket, Proceed, Return, Controls
  <2> QED
    BY <2>2 DEF NoCtl
<1>3. ASSUME NEW action \in Actions, ServiceJob(action)
      PROVE  StopInv'
  <2>1. ctl \in Controls /\ stopped = "no" /\ ctl.action = action /\ action # "stop"
    BY <1>1, <1>3 DEF ServiceJob, At
  <2>2. (ctl'.action = action /\ stopped' = "no") \/ (ctl' = NoCtl /\ stopped' = "no")
    BY <1>3, <2>1 DEF ServiceJob, Proceed, Return, Controls
  <2> QED
    BY <2>1, <2>2 DEF NoCtl
<1>4. ASSUME NEW action \in Actions, HealthWait(action)
      PROVE  StopInv'
  BY <1>4 DEF HealthWait, Return, NoCtl
<1>5. CASE StopService
  <2>1. ctl \in Controls /\ stopped = "no"
    BY <1>1, <1>5 DEF StopService, At, Actions
  <2>2. ctl'.step = "socket" /\ stopped' = "no"
    BY <1>5, <2>1 DEF StopService, Proceed, Controls
  <2> QED
    BY <2>2
<1>6. CASE StopSocket
  <2>1. ctl \in Controls /\ stopped = "no"
    BY <1>1, <1>6 DEF StopSocket, At, Actions
  <2>2. \/ socket' = FALSE /\ stopped' \in {"no", "disarmed"} /\ (ctl' # NoCtl => stopped' = "no")
        \/ ctl' = NoCtl /\ stopped' = "no"
    BY <1>6, <2>1 DEF StopSocket, Proceed, Return
  <2> QED
    BY <2>2 DEF NoCtl
<1>7. CASE Look \/ StopAgain
  <2>1. /\ ctl \in Controls /\ stopped = "no" /\ ctl.action = "stop" /\ ctl.step \in {"look", "again"}
        /\ UNCHANGED <<socket, outages>>
    BY <1>1, <1>7 DEF Look, StopAgain, At, Actions, daemon
  <2>2. outages = 0 => ~socket
    BY <2>1
  <2>3. ctl' # NoCtl => stopped' = "no"
    BY <1>7, <2>1 DEF Look, StopAgain, Proceed, Return
  <2>4. stopped' = "down" => service' = "inactive"
    BY <1>7, <2>1 DEF Look, StopAgain, Proceed, Return, Job, Down, daemon
  <2> QED
    BY <2>1, <2>2, <2>3, <2>4
<1> QED
  BY <1>2, <1>3, <1>4, <1>5, <1>6, <1>7 DEF LifecycleStep

LEMMA StopInvStep ==
  ASSUME StoreInv, ManagedTypeOK, StopInv, [ManagedNext]_allVars
  PROVE  StopInv'
<1> USE DEF StopInv, StopHolds, daemon, life
<1>1. CASE Store
  BY <1>1 DEF Store, NoCtl
<1>2. CASE Control \/ Healthy \/ ControllerError
  BY <1>2 DEF Control, Healthy, ControllerError
<1>3. ASSUME NEW action \in Actions, Lifecycle(action)
      PROVE  StopInv'
  BY <1>3 DEF Lifecycle
<1>4. CASE LifecycleStep
  BY <1>4, StopStep
<1>5. CASE Activate \/ Activated
  BY <1>5 DEF Activate, Activated, ManagedTypeOK
<1>6. CASE Outage
  BY <1>6 DEF Outage, ManagedTypeOK
<1>7. CASE UNCHANGED allVars
  BY <1>7 DEF allVars
<1> QED
  BY <1>1, <1>2, <1>3, <1>4, <1>5, <1>6, <1>7 DEF ManagedNext

\* A stop that was answered well holds, though a lookup came between its jobs.
THEOREM StopsHold == ManagedSpec => []StopHolds
<1>1. ManagedInit => StopInv
  BY DEF ManagedInit, NoCtl, StopInv, StopHolds
<1>2. StopInv => StopHolds
  BY DEF StopInv
<1> QED
  BY <1>1, <1>2, StoreHere, MutexHolds, StopInvStep, PTL DEF ManagedSpec

-----------------------------------------------------------------------------
\* What a daemon that is up may have read: while files are replaced, of each
\* file what it was or what it becomes; otherwise, with no journal to act upon,
\* what is on disk.
Mixed(image) == \A f \in Files : image[f] \in {op.from[f], op.to[f]}

RunsInv ==
  /\ touched = {}
  /\ pc \in {"stage", "swap", "control"} /\ op.dir = "forward" =>
       Mixed(disk) /\ (service # "inactive" => Mixed(loaded))
  /\ Settled => (service # "inactive" => loaded = disk)

Replacing == pc \in {"stage", "swap", "control"} /\ op.dir = "forward"

\* A step of the store that is no answer of the controller.
LEMMA StoreKeepsMix ==
  ASSUME StoreInv, DiskInv, RunsInv, Store, Replacing'
  PROVE  Mixed(disk)' /\ (service # "inactive" => Mixed(loaded)')
<1> USE DEF StoreInv, TypeOK, Operations, Shape, Planning, BackingUp, Recording, Forward, Back,
      Replacing, Mixed, RunsInv, NoOp
<1>0. UNCHANGED <<service, loaded>>
  BY DEF Store, daemon
<1>1. CASE Mkdir \/ MkdirFails \/ Fill \/ FillFails
  BY <1>1 DEF Mkdir, MkdirFails, Fill, FillFails, Failed, End, Goto, RollbackFailed
<1>2. CASE Recheck \/ RecheckFails \/ WriteJournalFails
  BY <1>2 DEF Recheck, RecheckFails, WriteJournalFails, Goto, End
<1>3. CASE WriteJournal
  <2>1. \A f \in Files : disk[f] = op.from[f]
    BY <1>3 DEF WriteJournal, DiskInv, AgreeOff
  <2>2. Settled /\ disk' = disk /\ op'.from = op.from /\ op'.to = op.to
    BY <1>3 DEF WriteJournal, Settled, Journaled
  <2> QED
    BY <1>0, <2>1, <2>2
<1>4. CASE Stage
  BY <1>0, <1>4 DEF Stage
<1>5. CASE Swap
  <2> DEFINE f == NextFile(op.todo, op.to)
  <2>1. /\ disk' = [disk EXCEPT ![f] = op.to[f]] /\ pc = "swap" /\ op.dir = "forward"
        /\ op'.from = op.from /\ op'.to = op.to
    BY <1>5 DEF Swap
  <2> HIDE DEF f
  <2>2. \A g \in Files : disk'[g] \in {disk[g], op.to[g]}
    BY <2>1
  <2> QED
    BY <1>0, <2>1, <2>2
<1>6. CASE Sync
  BY <1>0, <1>6 DEF Sync, Goto
<1>7. CASE ReplaceFails
  BY <1>7 DEF ReplaceFails, Failed, End, Goto, RollbackFailed
<1>8. CASE SetBaseline \/ SetBaselineFails \/ ClearPending \/ ClearPendingFails
  BY <1>8 DEF SetBaseline, SetBaselineFails, ClearPending, ClearPendingFails, Goto, Failed, End,
     RollbackFailed
<1>9. CASE Rollback \/ RollbackReadFails
  BY <1>9 DEF Rollback, RollbackReadFails, End, RollbackFailed
<1>10. CASE PruneOne \/ PruneDone \/ PruneFails \/ Unlink \/ UnlinkFails
  BY <1>10 DEF PruneOne, PruneDone, PruneFails, Unlink, UnlinkFails, PruneFailed, End, Goto
<1>11. CASE Start \/ Stop \/ Crash
  BY <1>11 DEF Start, Stop, Crash, Goto
<1>12. CASE Request
  <2>1. ASSUME NEW id \in Ids, DeleteSnapshot(id)
        PROVE  pc' = "unlink"
    BY <2>1 DEF DeleteSnapshot
  <2>2. Opens => pc' = "mkdir"
    BY DEF Opens, Begin
  <2> QED
    BY <1>12, <2>1, <2>2, RequestForms
<1> QED
  BY <1>1, <1>2, <1>3, <1>4, <1>5, <1>6, <1>7, <1>8, <1>9, <1>10, <1>11, <1>12 DEF Store, Internal

\* Only replace writes files here, in a transaction, and nobody touches them.
LEMMA StoreWrites ==
  ASSUME StoreInv, touched = {}, Store
  PROVE  touched' = {} /\ (Settled => disk' = disk)
<1>1. CASE Swap
  BY <1>1 DEF Swap, Settled, StoreInv, Shape
<1>2. CASE Internal /\ ~Swap
  BY <1>2 DEF Internal, Mkdir, MkdirFails, Fill, FillFails, Recheck, RecheckFails, WriteJournal,
     WriteJournalFails, Stage, Sync, ReplaceFails, SetBaseline, SetBaselineFails, ClearPending,
     ClearPendingFails, Rollback, RollbackReadFails, PruneOne, PruneDone, PruneFails, Unlink, UnlinkFails
<1>3. CASE Start \/ Stop \/ Crash
  BY <1>3 DEF Start, Stop, Crash
<1>4. CASE Request
  <2>1. ASSUME NEW id \in Ids, DeleteSnapshot(id)
        PROVE  touched' = {} /\ disk' = disk
    BY <2>1 DEF DeleteSnapshot
  <2>2. Opens => touched' = {} /\ disk' = disk
    BY DEF Opens, Begin
  <2> QED
    BY <1>4, <2>1, <2>2, RequestForms DEF StoreInv
<1> QED
  BY <1>1, <1>2, <1>3, <1>4 DEF Store

LEMMA StoreRuns ==
  ASSUME StoreInv, DiskInv, RunsInv, Store
  PROVE  RunsInv'
<1>1. UNCHANGED <<service, loaded>>
  BY DEF Store, daemon
<1>2. touched' = {} /\ (Settled => disk' = disk)
  BY StoreWrites DEF RunsInv
<1>3. Settled' => (service' # "inactive" => loaded' = disk')
  BY <1>1, <1>2, StoreSettles DEF RunsInv
<1>4. Replacing' => Mixed(disk)' /\ (service' # "inactive" => Mixed(loaded)')
  BY <1>1, StoreKeepsMix
<1> QED
  BY <1>2, <1>3, <1>4 DEF RunsInv, Replacing, Mixed

\* A transaction's job makes the daemon run what is on disk: a reload is chosen
\* only when no file that needs a restart differs from what the daemon has.
LEMMA ControlRuns ==
  ASSUME StoreInv, DiskInv, RunsInv, ManagedTypeOK, Control
  PROVE  RunsInv'
<1> USE DEF StoreInv, TypeOK, Operations
<1>1. pc = "control" /\ pc' = "health" /\ UNCHANGED <<disk, touched, op>>
  BY DEF Control, ControlSucceeds, Goto
<1>2. op.dir \in {"forward", "back"}
  BY <1>1 DEF Shape, Forward, Back
<1>3. CASE ControlAction = "restart"
  BY <1>1, <1>3 DEF Control, Job, LoadAll, RunsInv
<1>4. CASE ControlAction # "restart"
  <2>1. op.dir = "forward" /\ ControlAction = "reload" /\ LoadServices
    BY <1>2, <1>4 DEF Control, Job, ControlAction, ChangeAction
  <2>2. Changed(op.from, op.to) \intersect RestartFiles = {}
    BY <1>4, <2>1 DEF ControlAction, ChangeAction
  <2>3. Mixed(loaded)
    BY <1>1, <2>1 DEF LoadServices, RunsInv
  <2>4. \A f \in Files : disk[f] = op.to[f]
    BY <1>1 DEF DiskInv, AgreeOff, RunsInv
  <2>5. \A f \in RestartFiles : loaded[f] = disk[f]
    BY <2>2, <2>3, <2>4, FilesAssumption DEF Mixed, Changed
  <2>6. loaded' = [f \in Files |-> disk[f]]
    BY <2>1, <2>5 DEF LoadServices
  <2>7. loaded' = disk
    BY <2>6
  <2> QED
    BY <1>1, <2>7 DEF RunsInv
<1> QED
  BY <1>3, <1>4

\* Outside a transaction's job, a job of systemd only ever loads the disk, or
\* what the daemon has, or both mixed.
LEMMA OutsideRuns ==
  ASSUME StoreInv, RunsInv, UNCHANGED vars,
         \/ UNCHANGED loaded /\ (service = "inactive" => service' = "inactive")
         \/ loaded' = disk
         \/ pc = "idle" /\ service # "inactive"
              /\ loaded' = [f \in Files |-> IF f \in RestartFiles THEN loaded[f] ELSE disk[f]]
  PROVE  RunsInv'
<1> USE DEF StoreInv, TypeOK
<1>1. UNCHANGED <<disk, pc, op, touched, pending>> /\ Settled' = Settled
  BY DEF vars, Settled, Journaled
<1>2. CASE UNCHANGED loaded /\ (service = "inactive" => service' = "inactive")
  BY <1>1, <1>2 DEF RunsInv, Mixed
<1>3. CASE loaded' = disk
  BY <1>1, <1>3 DEF RunsInv, Mixed
<1>4. CASE pc = "idle" /\ service # "inactive"
             /\ loaded' = [f \in Files |-> IF f \in RestartFiles THEN loaded[f] ELSE disk[f]]
  <2>1. Settled => loaded' = [f \in Files |-> disk[f]]
    BY <1>4 DEF RunsInv
  <2>2. Settled => loaded' = disk
    BY <2>1
  <2> QED
    BY <1>1, <1>4, <2>2 DEF RunsInv
<1> QED
  BY <1>2, <1>3, <1>4

LEMMA JobOutcomes ==
  ASSUME NEW action, Job(action) \/ JobFails(action)
  PROVE  \/ UNCHANGED loaded /\ (service = "inactive" => service' = "inactive")
         \/ loaded' = disk
         \/ service # "inactive"
              /\ loaded' = [f \in Files |-> IF f \in RestartFiles THEN loaded[f] ELSE disk[f]]
BY DEF Job, JobFails, StartJob, LoadAll, LoadServices, Up, Down

LEMMA RunsStep ==
  ASSUME StoreInv, DiskInv, RunsInv, ManagedTypeOK, [ManagedNext]_allVars
  PROVE  RunsInv'
<1> USE DEF daemon, life
<1>1. CASE Healthy
  <2>1. UNCHANGED <<service, loaded, disk, touched>> /\ pc = "health"
        /\ pc' \in {"mkdir", "point"} /\ op'.dir = op.dir
    BY <1>1 DEF Healthy, HealthSucceeds, StoreInv, TypeOK, Operations
  <2>2. Settled
    BY <2>1 DEF Settled, StoreInv, Shape, Forward, Back
  <2> QED
    BY <2>1, <2>2 DEF RunsInv
<1>2. CASE ControllerError
  <2>1. UNCHANGED <<disk, touched>> /\ pc' \notin {"stage", "swap", "control"} /\ (Settled' => Settled)
    BY <1>2, ControllerErrorMoves DEF ControllerError, ControllerFails
  <2>2. pc = "control" => ~Settled
    BY DEF Settled, StoreInv, Shape
  <2>3. pc # "control" => UNCHANGED <<service, loaded>>
    BY <1>2 DEF ControllerError
  <2> QED
    BY <2>1, <2>2, <2>3 DEF RunsInv
<1>3. ASSUME NEW action \in Actions, Lifecycle(action)
      PROVE  RunsInv'
  BY <1>3, OutsideRuns DEF Lifecycle
<1>4. CASE LifecycleStep
  <2>1. pc = "idle" /\ UNCHANGED vars
    BY <1>4, CtlNext
  <2>2. UNCHANGED <<service, loaded>> \/ \E action : Job(action) \/ JobFails(action)
    BY <1>4 DEF LifecycleStep, StartSocket, StopService, StopSocket, Look, StopAgain, ServiceJob, HealthWait
  <2> QED
    BY <2>1, <2>2, JobOutcomes, OutsideRuns
<1>5. CASE Activate \/ Activated
  BY <1>5, OutsideRuns DEF Activate, Activated
<1>6. CASE Outage
  BY <1>6, OutsideRuns DEF Outage, Down, LoadAll
<1>7. CASE UNCHANGED allVars
  BY <1>7, OutsideRuns DEF allVars
<1> QED
  BY <1>1, <1>2, <1>3, <1>4, <1>5, <1>6, <1>7, StoreRuns, ControlRuns DEF ManagedNext

\* Reload or restart, as ChangeAction chooses, is enough: with no journal left,
\* a daemon that is up has read every file as it is on disk.
THEOREM DaemonRunsTheDisk == ManagedSpec => []RunsWhatIsOnDisk
<1>1. ManagedInit => RunsInv
  BY DEF ManagedInit, Init, NoOp, RunsInv
<1>2. RunsInv => RunsWhatIsOnDisk
  BY DEF RunsInv, RunsWhatIsOnDisk, Settled
<1> QED
  BY <1>1, <1>2, StoreHere, MutexHolds, RunsStep, PTL DEF ManagedSpec

-----------------------------------------------------------------------------
\* With systemd, the daemon and the lifecycle requests beside it, and with the
\* controller's answers decided by them, the store does nothing ConfigStore does
\* not allow it: what is proved of the store is true of the composition.
THEOREM StoreIsImplemented == ManagedSpec => Spec
<1>1. ManagedInit => Init
  BY DEF ManagedInit
<1>2. [ManagedNext]_allVars => [Next]_vars
  BY StepOfStore DEF allVars
<1> QED
  BY <1>1, <1>2, PTL DEF ManagedSpec, Spec

\* So the composition keeps the promise of AtomicConfig: whatever systemd
\* answers, disk and managed baseline change together or not at all.
THEOREM AtomicityHoldsHere == ManagedSpec => Atomicity
  BY StoreIsImplemented, AtomicityHolds
=============================================================================
