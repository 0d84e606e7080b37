----------------------------- MODULE ConfigStore -----------------------------
(***************************************************************************)
(* The root helper's configuration store (internal/config apply.go,        *)
(* baseline.go and store.go, driven by internal/helper server.go): the     *)
(* Save & Apply transaction over the files of /etc/avahi, its pending      *)
(* journal, snapshots, managed baseline, retention and crash recovery.     *)
(*                                                                         *)
(* The store's mutex, the writer lock and the helper's request mutex admit *)
(* one operation at a time, so the locals of the running operation are one *)
(* record, op, and pc names its next step.  Between any two steps another  *)
(* tool may edit the directory and the helper may die; an I/O step may     *)
(* fail with or without its effect.  A revision stands for the image it    *)
(* digests.  systemd and Avahi answer as they please.                      *)
(***************************************************************************)
EXTENDS Naturals, FiniteSets

CONSTANTS
  Files,         \* the managed paths
  Contents,      \* what a managed file can hold (data, mode and owner)
  Absent,        \* the file does not exist
  NoImage,       \* no managed baseline
  Conf,          \* avahi-daemon.conf, which every valid image must have
  Good,          \* the contents that parse and validate
  RestartFiles,  \* avahi-daemon.conf and hosts: a change needs a restart
  Rank,          \* position of a path in sortedPaths order
  CreatedAt,     \* what the clock says when a snapshot is created
  Keep,          \* snapshots retained by prune
  MaxId,         \* bound: snapshot IDs that can be drawn
  MaxFaults,     \* bound: failing I/O steps
  MaxCrashes,    \* bound: deaths of the helper process
  MaxEdits       \* bound: edits by other tools

Ids    == 1 .. MaxId
NoId   == 0
Values == Contents \union {Absent}
Images == [Files -> Values]

ASSUME FilesAssumption == IsFiniteSet(Files) /\ Conf \in Files /\ RestartFiles \subseteq Files
ASSUME ContentsAssumption ==
  Absent \notin Contents /\ Good \subseteq Contents /\ NoImage \notin Images
ASSUME RankAssumption ==
  /\ Rank \in [Files -> Nat]
  /\ \A f, g \in Files : Rank[f] = Rank[g] => f = g
ASSUME ClockAssumption == CreatedAt \in [Ids -> Nat]
ASSUME BoundsAssumption ==
  /\ Keep \in Nat /\ MaxId \in Nat
  /\ MaxFaults \in Nat /\ MaxCrashes \in Nat /\ MaxEdits \in Nat

VARIABLES
  disk,      \* /etc/avahi
  dirs,      \* snapshot directories: "none", "torn" (unloadable), "complete"
  saved,     \* the image a complete snapshot holds
  next,      \* the next snapshot ID to draw
  baseline,  \* baseline.json
  pending,   \* pending.json
  pc, op,    \* the running operation
  reply,     \* what the last operation answered
  touched,   \* files other tools wrote since the operation's last disk read
  faults, crashes, edits

backups == <<dirs, saved, next>>
budget  == <<faults, crashes, edits>>
vars == <<disk, dirs, saved, next, baseline, pending, pc, op, reply, touched,
          faults, crashes, edits>>

EmptyImage == [f \in Files |-> Absent]
NoJournal  == [snap |-> NoId, base |-> NoId]

\* kind: which request; dir: before the journal ("none"), applying or rolling
\* back; from, to: the images of replace, or twice the image to record;
\* then: where snapshot returns to; id: the snapshot at hand; todo: the files
\* replace has still to write or remove.
NoOp == [kind |-> "none", dir |-> "none", from |-> EmptyImage, to |-> EmptyImage,
         then |-> "none", id |-> NoId, todo |-> {}]

PCs == {"down", "idle", "mkdir", "fill", "recheck", "journal", "stage", "swap",
        "control", "health", "point", "clear", "prune", "unlink", "rollback"}
Replies == {"none", "ok", "warning", "saved", "error", "restored", "stuck", "unclear"}

-----------------------------------------------------------------------------
\* Pure parts of the code.

Changed(before, after) == {f \in Files : before[f] # after[f]}

\* Variant: every change is taken for a service file's.
ChangeActionReload(before, after) ==
  IF Changed(before, after) = {} THEN "none" ELSE "reload"

ChangeAction(before, after) ==
  IF Changed(before, after) = {} THEN "none"
  ELSE IF Changed(before, after) \intersect RestartFiles # {} THEN "restart"
  ELSE "reload"

ValidateImage(im) == im[Conf] # Absent /\ \A f \in Files : im[f] \in Good \union {Absent}

\* replace writes the new and changed files in path order, then removes.
NextFile(todo, to) ==
  LET writes == {f \in todo : to[f] # Absent}
      batch  == IF writes # {} THEN writes ELSE todo
  IN  CHOOSE f \in batch : \A g \in batch : Rank[f] <= Rank[g]

Loadable(id) == id \in Ids /\ dirs[id] = "complete"
Complete     == {id \in Ids : dirs[id] = "complete"}
Torn         == {id \in Ids : dirs[id] = "torn"}

\* Variants: retention that forgets the pin, or starts at the newest.
VictimsUnpinned == {id \in Complete : \A j \in Complete : CreatedAt[id] <= CreatedAt[j]}
VictimsNewest ==
  {id \in Complete \ {baseline} :
     \A j \in Complete \ {baseline} : CreatedAt[id] >= CreatedAt[j]}

\* The oldest snapshots that the baseline does not pin.
Victims ==
  {id \in Complete \ {baseline} :
     \A j \in Complete \ {baseline} : CreatedAt[id] <= CreatedAt[j]}

\* RemoveAll deletes the files first: the directory is there, but unloadable.
Tear(id) ==
  /\ dirs' = [dirs EXCEPT ![id] = "torn"]
  /\ saved' = [saved EXCEPT ![id] = EmptyImage]

-----------------------------------------------------------------------------
Init ==
  /\ disk \in Images
  /\ dirs = [i \in Ids |-> "none"]
  /\ saved = [i \in Ids |-> EmptyImage]
  /\ next = 1
  /\ baseline = NoId
  /\ pending = NoJournal
  /\ pc = "down" /\ op = NoOp
  /\ reply = "none"
  /\ touched = {}
  /\ faults = 0 /\ crashes = 0 /\ edits = 0

\* An I/O call returns an error.
Fault == faults < MaxFaults /\ faults' = faults + 1 /\ UNCHANGED <<crashes, edits>>

\* The operation answers and the helper waits for the next request.
End(answer) == pc' = "idle" /\ op' = NoOp /\ reply' = answer

Goto(label) == pc' = label /\ UNCHANGED <<op, reply>>

\* A rollback that fails leaves the journal; at start-up it also ends the process.
RollbackFailed ==
  IF op.kind = "recover"
  THEN pc' = "down" /\ op' = NoOp /\ reply' = "none"
  ELSE End("stuck")

\* What apply, recover and the other operations do with an error.
Failed ==
  \/ op.dir = "none" /\ End("error")
  \/ op.dir = "forward" /\ Goto("rollback")
  \/ op.dir = "back" /\ RollbackFailed

\* The operations call snapshot(image) and continue at `then'.
Begin(kind, then, from, to) ==
  /\ pc' = "mkdir"
  /\ op' = [NoOp EXCEPT !.kind = kind, !.then = then, !.from = from, !.to = to]
  /\ reply' = "none"
  /\ touched' = {}
  /\ UNCHANGED <<disk, backups, baseline, pending, budget>>

\* Variant: a request that does not look for a pending transaction.
ReadyUnlocked == pc = "idle"

Ready == pc = "idle" /\ pending = NoJournal

-----------------------------------------------------------------------------
\* Requests.  One that is refused changes nothing and is not an action.

\* Store.apply: a change goes through the transaction; a request that changes
\* no file only moves a baseline that differs from the disk.
Submit(after, expected) ==
  /\ Ready
  /\ expected = disk
  /\ ValidateImage(after)
  /\ \/ /\ ChangeAction(disk, after) # "none"
        /\ Begin("apply", "recheck", disk, after)
     \/ /\ ChangeAction(disk, after) = "none"
        /\ baseline = NoId \/ (Loadable(baseline) /\ saved[baseline] # after)
        /\ Begin("record", "point", after, after)

\* WriteDaemonConfig, WriteHosts, WriteService and DeleteService: one path.
Apply(f, v, expected) == Submit([disk EXCEPT ![f] = v], expected)

Restore(id, expected) == Loadable(id) /\ Submit(saved[id], expected)

Snapshot == Ready /\ Begin("manual", "prune", disk, disk)

AcceptDisk(expected) ==
  /\ Ready
  /\ expected = disk
  /\ Begin("record", "point", disk, disk)

\* The first ReadBaseline takes the directory over as it is.
Baseline == Ready /\ baseline = NoId /\ Begin("initial", "point", disk, disk)

DeleteSnapshot(id) ==
  /\ Ready
  /\ id # baseline
  /\ Loadable(id)
  /\ Tear(id)
  /\ pc' = "unlink"
  /\ op' = [NoOp EXCEPT !.kind = "delete", !.id = id]
  /\ reply' = "none"
  /\ UNCHANGED <<disk, next, baseline, pending, touched, budget>>

-----------------------------------------------------------------------------
\* snapshot: the directory is unloadable until its manifest is written last.

\* Variant: the baseline snapshot holds the image before the change.
SnapshotImageBefore == op.from

SnapshotImage == IF op.then = "recheck" THEN op.from ELSE op.to

Mkdir ==
  /\ pc = "mkdir"
  /\ next \in Ids
  /\ dirs' = [dirs EXCEPT ![next] = "torn"]
  /\ next' = next + 1
  /\ pc' = "fill" /\ op' = [op EXCEPT !.id = next]
  /\ UNCHANGED <<disk, saved, baseline, pending, reply, touched, budget>>

MkdirFails ==
  /\ pc = "mkdir"
  /\ Fault \/ (next \notin Ids /\ UNCHANGED budget)
  /\ Failed
  /\ UNCHANGED <<disk, backups, baseline, pending, touched>>

Fill ==
  /\ pc = "fill"
  /\ dirs' = [dirs EXCEPT ![op.id] = "complete"]
  /\ saved' = [saved EXCEPT ![op.id] = SnapshotImage]
  /\ Goto(op.then)
  /\ UNCHANGED <<disk, next, baseline, pending, touched, budget>>

\* The deferred RemoveAll may fail too, and its error is dropped: a part of the
\* directory stays or, when only the last directory sync failed, all of it.
FillFails ==
  /\ pc = "fill"
  /\ Fault
  /\ \E left \in {"none", "torn", "complete"} :
       /\ dirs' = [dirs EXCEPT ![op.id] = left]
       /\ saved' = IF left = "complete" THEN [saved EXCEPT ![op.id] = SnapshotImage] ELSE saved
  /\ Failed
  /\ UNCHANGED <<disk, next, baseline, pending, touched>>

-----------------------------------------------------------------------------
\* apply, from the second read to the journal.

\* Variant: no second comparison after the snapshot's I/O.
UnchangedUnchecked(expected) == TRUE

Unchanged(expected) == disk = expected

Recheck ==
  /\ pc = "recheck"
  /\ Unchanged(op.from)
  /\ Goto("journal")
  /\ touched' = {}
  /\ UNCHANGED <<disk, backups, baseline, pending, budget>>

RecheckFails ==
  /\ pc = "recheck"
  /\ Fault \/ (~Unchanged(op.from) /\ UNCHANGED budget)
  /\ End("error")
  /\ UNCHANGED <<disk, backups, baseline, pending, touched>>

\* Variant: the journal names the snapshot still to come.
JournalNext == [snap |-> next, base |-> baseline]

Journal == [snap |-> op.id, base |-> baseline]

WriteJournal ==
  /\ pc = "journal"
  /\ pending' = Journal
  /\ pc' = "stage" /\ op' = [op EXCEPT !.dir = "forward"]
  /\ UNCHANGED <<disk, backups, baseline, reply, touched, budget>>

\* atomicFile can fail before its rename or, syncing the directory, after it.
WriteJournalFails ==
  /\ pc = "journal"
  /\ Fault
  /\ pending' \in {pending, Journal}
  /\ End("error")
  /\ UNCHANGED <<disk, backups, baseline, touched>>

-----------------------------------------------------------------------------
\* replace, in either direction.

Stage ==
  /\ pc = "stage"
  /\ pc' = "swap" /\ op' = [op EXCEPT !.todo = Changed(op.from, op.to)]
  /\ UNCHANGED <<disk, backups, baseline, pending, reply, touched, budget>>

Swap ==
  /\ pc = "swap"
  /\ op.todo # {}
  /\ LET f == NextFile(op.todo, op.to)
     IN  /\ disk' = [disk EXCEPT ![f] = op.to[f]]
         /\ op' = [op EXCEPT !.todo = @ \ {f}]
  /\ UNCHANGED <<backups, baseline, pending, pc, reply, touched, budget>>

Sync ==
  /\ pc = "swap"
  /\ op.todo = {}
  /\ Goto("control")
  /\ UNCHANGED <<disk, backups, baseline, pending, touched, budget>>

ReplaceFails ==
  /\ pc \in {"stage", "swap"}
  /\ Fault
  /\ Failed
  /\ UNCHANGED <<disk, backups, baseline, pending, touched>>

\* Controller.Apply and Controller.Healthy: systemd, Avahi and the request's
\* deadline decide.
ControlSucceeds ==
  /\ pc = "control"
  /\ Goto("health")
  /\ UNCHANGED <<disk, backups, baseline, pending, touched, budget>>

HealthSucceeds ==
  /\ pc = "health"
  /\ IF op.dir = "forward"
     THEN pc' = "mkdir" /\ op' = [op EXCEPT !.then = "point"]
     ELSE pc' = "point" /\ UNCHANGED op
  /\ UNCHANGED <<disk, backups, baseline, pending, reply, touched, budget>>

ControllerFails ==
  /\ pc \in {"control", "health"}
  /\ Failed
  /\ UNCHANGED <<disk, backups, baseline, pending, touched, budget>>

-----------------------------------------------------------------------------
\* setBaseline, clearPending and recover.

\* Variant: a rollback that leaves the baseline where the failed change put it.
NewBaselineKept == IF op.dir = "back" THEN baseline ELSE op.id

NewBaseline == IF op.dir = "back" THEN pending.base ELSE op.id

SetBaseline ==
  /\ pc = "point"
  /\ NewBaseline = NoId \/ Loadable(NewBaseline)
  /\ baseline' = NewBaseline
  /\ IF op.kind = "initial" THEN End("none")
     ELSE IF op.kind = "record" THEN Goto("prune")
     ELSE Goto("clear")
  /\ UNCHANGED <<disk, backups, pending, touched, budget>>

SetBaselineFails ==
  /\ pc = "point"
  /\ \/ Fault /\ baseline' \in {baseline, NewBaseline}
     \/ ~(NewBaseline = NoId \/ Loadable(NewBaseline)) /\ UNCHANGED <<baseline, budget>>
  /\ Failed
  /\ UNCHANGED <<disk, backups, pending, touched>>

ClearPending ==
  /\ pc = "clear"
  /\ pending' = NoJournal
  /\ IF op.dir = "forward" THEN Goto("prune")
     ELSE End(IF op.kind = "recover" THEN "none" ELSE "restored")
  /\ UNCHANGED <<disk, backups, baseline, touched, budget>>

\* The journal may stay, or be gone although the directory sync failed.
ClearPendingFails ==
  /\ pc = "clear"
  /\ Fault
  /\ pending' \in {pending, NoJournal}
  /\ IF op.dir = "forward" THEN End("unclear") ELSE RollbackFailed
  /\ UNCHANGED <<disk, backups, baseline, touched>>

Rollback ==
  /\ pc = "rollback"
  /\ Loadable(pending.snap)
  /\ pc' = "stage"
  /\ op' = [op EXCEPT !.dir = "back", !.from = disk, !.to = saved[pending.snap], !.todo = {}]
  /\ UNCHANGED <<disk, backups, baseline, pending, reply, touched, budget>>

RollbackReadFails ==
  /\ pc = "rollback"
  /\ Fault \/ (~Loadable(pending.snap) /\ UNCHANGED budget)
  /\ RollbackFailed
  /\ UNCHANGED <<disk, backups, baseline, pending, touched>>

-----------------------------------------------------------------------------
\* prune.  One unloadable directory makes the listing, and so prune, fail.

\* Variant: one snapshot too many is retained.
SurplusLoose == Cardinality(Complete) > Keep + 1

Surplus == Cardinality(Complete) > Keep

PruneAnswer == IF op.kind = "manual" THEN "saved" ELSE "ok"

PruneOne ==
  /\ pc = "prune"
  /\ Torn = {}
  /\ Surplus
  /\ \E id \in Victims : Tear(id) /\ op' = [op EXCEPT !.id = id]
  /\ pc' = "unlink"
  /\ UNCHANGED <<disk, next, baseline, pending, reply, touched, budget>>

PruneDone ==
  /\ pc = "prune"
  /\ Torn = {}
  /\ ~Surplus \/ Victims = {}
  /\ End(PruneAnswer)
  /\ UNCHANGED <<disk, backups, baseline, pending, touched, budget>>

\* A committed change only warns; every other operation reports the error.
PruneFailed == End(IF op.kind = "apply" THEN "warning" ELSE "error")

PruneFails ==
  /\ pc = "prune"
  /\ Fault \/ (Torn # {} /\ UNCHANGED budget)
  /\ PruneFailed
  /\ UNCHANGED <<disk, backups, baseline, pending, touched>>

Unlink ==
  /\ pc = "unlink"
  /\ dirs' = [dirs EXCEPT ![op.id] = "none"]
  /\ IF op.kind = "delete" THEN End("none") ELSE Goto("prune")
  /\ UNCHANGED <<disk, saved, next, baseline, pending, touched, budget>>

\* RemoveAll stops half-way or, deleting one snapshot, the directory sync fails.
UnlinkFails ==
  /\ pc = "unlink"
  /\ Fault
  /\ \/ UNCHANGED dirs
     \/ op.kind = "delete" /\ dirs' = [dirs EXCEPT ![op.id] = "none"]
  /\ PruneFailed
  /\ UNCHANGED <<disk, saved, next, baseline, pending, touched>>

-----------------------------------------------------------------------------
\* The helper process and the environment.

\* Variant: the helper serves without looking at the journal.
StartUnrecovered ==
  /\ pc = "down"
  /\ Goto("idle")
  /\ UNCHANGED <<disk, backups, baseline, pending, touched, budget>>

\* Serve accepts requests only when recovery succeeds or has nothing to do.
Start ==
  /\ pc = "down"
  /\ IF pending = NoJournal
     THEN Goto("idle")
     ELSE /\ pc' = "rollback"
          /\ op' = [NoOp EXCEPT !.kind = "recover"]
          /\ UNCHANGED reply
  /\ UNCHANGED <<disk, backups, baseline, pending, touched, budget>>

\* systemd stops or restarts the helper, which first drains its requests.
Stop ==
  /\ pc = "idle"
  /\ pc' = "down" /\ reply' = "none"
  /\ UNCHANGED <<disk, backups, baseline, pending, op, touched, budget>>

Crash ==
  /\ pc # "down"
  /\ crashes < MaxCrashes
  /\ crashes' = crashes + 1
  /\ pc' = "down" /\ op' = NoOp /\ reply' = "none"
  /\ UNCHANGED <<disk, backups, baseline, pending, touched, faults, edits>>

Edit(f, v) ==
  /\ edits < MaxEdits
  /\ edits' = edits + 1
  /\ v # disk[f]
  /\ disk' = [disk EXCEPT ![f] = v]
  /\ touched' = touched \union {f}
  /\ UNCHANGED <<backups, baseline, pending, pc, op, reply, faults, crashes>>

Request ==
  \/ \E expected \in Images :
       \/ \E f \in Files, v \in Values : Apply(f, v, expected)
       \/ \E id \in Ids : Restore(id, expected)
       \/ AcceptDisk(expected)
  \/ Snapshot
  \/ Baseline
  \/ \E id \in Ids : DeleteSnapshot(id)

Internal ==
  \/ Mkdir \/ MkdirFails \/ Fill \/ FillFails
  \/ Recheck \/ RecheckFails \/ WriteJournal \/ WriteJournalFails
  \/ Stage \/ Swap \/ Sync \/ ReplaceFails
  \/ SetBaseline \/ SetBaselineFails \/ ClearPending \/ ClearPendingFails
  \/ Rollback \/ RollbackReadFails
  \/ PruneOne \/ PruneDone \/ PruneFails \/ Unlink \/ UnlinkFails

Controller == ControlSucceeds \/ HealthSucceeds \/ ControllerFails

Step == Internal \/ Controller

Next ==
  \/ Request
  \/ Step
  \/ Start \/ Stop
  \/ Crash
  \/ \E f \in Files, v \in Values : Edit(f, v)

Spec == Init /\ [][Next]_vars

-----------------------------------------------------------------------------
Operations ==
  [kind : {"none", "apply", "record", "initial", "manual", "delete", "recover"},
   dir  : {"none", "forward", "back"},
   from : Images, to : Images,
   then : {"none", "recheck", "point", "prune"},
   id   : Ids \union {NoId},
   todo : SUBSET Files]

\* Every variable holds a value of its type.
TypeOK ==
  /\ disk \in Images
  /\ dirs \in [Ids -> {"none", "torn", "complete"}]
  /\ saved \in [Ids -> Images]
  /\ next \in 1 .. MaxId + 1
  /\ baseline \in Ids \union {NoId}
  /\ pending \in [snap : Ids \union {NoId}, base : Ids \union {NoId}]
  /\ pc \in PCs
  /\ op \in Operations
  /\ reply \in Replies
  /\ touched \subseteq Files
  /\ faults \in 0 .. MaxFaults /\ crashes \in 0 .. MaxCrashes /\ edits \in 0 .. MaxEdits

\* The journal can always be acted upon: as long as it exists, the snapshot of
\* the configuration before the change and the old managed baseline load, so
\* recover never fails at loadSnapshot, whatever was pruned, deleted or torn.
JournalRecoverable ==
  pending # NoJournal =>
    /\ Loadable(pending.snap)
    /\ pending.base = NoId \/ Loadable(pending.base)

\* The managed baseline is never pruned, deleted or left half-written.
BaselineLoadable == baseline = NoId \/ Loadable(baseline)

\* Write-ahead: whenever replace may have changed a file, the journal holds the
\* image to go back to: outside the files it changes and those other tools
\* touched since the second read, the disk is that image.
WriteAhead ==
  pc \in {"stage", "swap", "control", "health", "mkdir", "fill", "point"} /\ op.dir = "forward" =>
    /\ saved[pending.snap] = op.from
    /\ \A f \in Files : disk[f] # op.from[f] => f \in touched \union Changed(op.from, op.to)

\* A save or Reload from disk that was answered (with or without a retention
\* warning) leaves disk and managed baseline equal, but for files another tool
\* wrote meanwhile: the console shows no drift nobody caused.
AnsweredIsBaseline ==
  reply \in {"ok", "warning"} /\ pc = "idle" =>
    /\ baseline # NoId
    /\ \A f \in Files \ touched : disk[f] = saved[baseline][f]

\* A request answered without a warning leaves at most Keep snapshots, all of
\* them loadable.
Retention ==
  reply \in {"ok", "saved"} => Cardinality(Complete) <= Keep /\ Torn = {}

\* The snapshot a manual backup reports exists: its own retention pass has not
\* removed it (clock running forwards, and room beside the pinned baseline).
BackupExists == reply = "saved" => Loadable(next - 1)

\* What the documentation says of other tools: a save answers with a conflict
\* instead of overwriting what they wrote (docs/USAGE.md:178, apply.go:184).
NoOverwrite ==
  [][op.dir = "forward" /\ edits' = edits =>
       \A f \in touched : disk'[f] = disk[f]]_vars

\* What TestRetention says: after a save at most Keep snapshots are left.
RetentionAfterApply ==
  reply \in {"ok", "warning"} => Cardinality(Complete) <= Keep

-----------------------------------------------------------------------------
\* Why it holds: which operation can be where, what its snapshot ID stands for,
\* and what is on the disk meanwhile.

Journaled == pending # NoJournal

Planning  == op.kind = "apply" /\ op.dir = "none"
BackingUp == op.kind = "manual" /\ op.dir = "none"
Recording == op.kind \in {"record", "initial"} /\ op.dir = "none"
Forward   == op.kind = "apply" /\ op.dir = "forward"
Back      == op.kind \in {"apply", "recover"} /\ op.dir = "back"

Shape ==
  /\ pc \in {"down", "idle"} => op = NoOp
  /\ pc \in {"mkdir", "fill"} =>
       \/ op.then = "recheck" /\ Planning /\ ~Journaled
       \/ op.then = "prune" /\ BackingUp /\ ~Journaled
       \/ op.then = "point" /\ Recording /\ ~Journaled
       \/ op.then = "point" /\ Forward /\ Journaled
  /\ pc \in {"recheck", "journal"} => Planning /\ ~Journaled
  /\ pc \in {"stage", "swap", "control", "health", "clear"} => (Forward \/ Back) /\ Journaled
  /\ pc = "point" => (Recording /\ ~Journaled) \/ ((Forward \/ Back) /\ Journaled)
  /\ pc \in {"prune", "unlink"} => op.dir # "back" /\ ~Journaled
  /\ pc = "rollback" => (Forward \/ (op.kind = "recover" /\ op.dir = "none")) /\ Journaled

Handles ==
  /\ pc \in {"fill", "unlink"} => op.id \in Ids /\ dirs[op.id] = "torn"
  /\ pc \in {"recheck", "journal"} => Loadable(op.id) /\ saved[op.id] = op.from
  /\ pc = "point" /\ op.dir # "back" => Loadable(op.id) /\ saved[op.id] = op.to
  /\ pc = "clear" /\ op.dir = "forward" =>
       Loadable(op.id) /\ saved[op.id] = op.to /\ baseline = op.id
  /\ pc = "clear" /\ op.dir = "back" => baseline = pending.base

FreshIds == \A id \in Ids : id >= next => dirs[id] = "none"

\* The inductive invariant behind JournalRecoverable and BaselineLoadable.
StoreInv ==
  TypeOK /\ Shape /\ Handles /\ FreshIds /\ JournalRecoverable /\ BaselineLoadable

\* Outside the files other tools touched, the disk is what replace made of it.
AgreeOff(T, x, y) == \A f \in Files \ T : x[f] = y[f]

DiskInv ==
  /\ pc \notin {"prune", "unlink"} =>
       /\ op.dir = "forward" => saved[pending.snap] = op.from
       /\ op.dir = "back" => saved[pending.snap] = op.to
  /\ pc \in {"journal", "stage"} => AgreeOff(touched, disk, op.from)
  /\ pc = "swap" => op.todo \subseteq Changed(op.from, op.to)
                   /\ AgreeOff(touched \union op.todo, disk, op.to)
  /\ pc \in {"control", "health", "clear"} => AgreeOff(touched, disk, op.to)
  /\ pc \in {"mkdir", "fill", "point"} /\ op.dir # "none" => AgreeOff(touched, disk, op.to)

\* What an answer will mean, while the operation still runs.
AnswerInv ==
  /\ pc # "idle" => reply = "none"
  /\ pc \in {"mkdir", "fill", "point"} /\ Recording => AgreeOff(touched, disk, op.to)
  /\ pc \in {"prune", "unlink"} /\ op.kind \in {"apply", "record"} =>
       Loadable(baseline) /\ AgreeOff(touched, disk, saved[baseline])
  /\ pc = "prune" => op.kind \in {"apply", "record", "manual"}
  /\ pc = "unlink" => op.kind \in {"apply", "record", "manual", "delete"}

-----------------------------------------------------------------------------
\* The abstract view: until the journal is removed the configuration is the
\* image the journal points to, and so is the managed baseline.

phase ==
  IF Journaled
  THEN IF op.dir = "forward" /\ pc # "rollback" THEN "applying" ELSE "undoing"
  ELSE IF pc = "journal" THEN "applying"
  ELSE IF op.kind \in {"record", "initial"} /\ pc \in {"mkdir", "fill", "point"}
       THEN "accepting"
  ELSE "none"

stable ==
  IF Journaled THEN saved[pending.snap] ELSE IF pc = "journal" THEN op.from ELSE disk

acceptedId == IF Journaled THEN pending.base ELSE baseline

Atomic == INSTANCE AtomicConfig WITH
  accepted <- IF acceptedId = NoId THEN NoImage ELSE saved[acceptedId],
  target   <- IF phase \in {"applying", "accepting"} THEN op.to ELSE NoImage,
  touched  <- IF phase \in {"applying", "undoing"} THEN touched ELSE {}

\* Safe Apply is atomic: across crashes, I/O errors and failed rollbacks the
\* disk and the managed baseline change together or not at all, but for the
\* files other tools write while a change is being applied.
Atomicity == Atomic!Spec
=============================================================================
