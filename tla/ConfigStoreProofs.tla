-------------------------- MODULE ConfigStoreProofs --------------------------
(***************************************************************************)
(* The configuration store is correct for every set of files and contents, *)
(* every clock, every retention limit and every number of failures.  The   *)
(* inductive invariant StoreInv says which operation can be at which step  *)
(* and what its snapshot stands for; DiskInv adds what is on the disk.     *)
(***************************************************************************)
EXTENDS ConfigStore, TLAPS

USE DEF Values, Images, Ids, NoId

LEMMA EmptyImageType == EmptyImage \in Images
  BY DEF EmptyImage

LEMMA NoOpType == NoOp \in Operations
  BY EmptyImageType DEF NoOp, Operations

\* Every request but a deletion starts an operation that takes a snapshot; only
\* a change that goes through the transaction has an image other than the disk.
Opens ==
  \E kt \in {<<"apply", "recheck">>, <<"record", "point">>,
             <<"initial", "point">>, <<"manual", "prune">>}, to \in Images :
    /\ Ready
    /\ kt[2] = "recheck" \/ to = disk
    /\ Begin(kt[1], kt[2], disk, to)

\* What the helper's requests do, put in two forms.
LEMMA RequestForms ==
  ASSUME TypeOK, Request
  PROVE  Opens \/ \E id \in Ids : DeleteSnapshot(id)
<1>1. ASSUME NEW after \in Images, NEW expected, Submit(after, expected)
      PROVE  Opens
  <2>1. CASE ChangeAction(disk, after) # "none"
    BY <1>1, <2>1 DEF Submit, Opens, TypeOK, Ready
  <2>2. CASE ChangeAction(disk, after) = "none"
    <3>1. after = disk
      BY <2>2 DEF ChangeAction, Changed, TypeOK
    <3> QED
      BY <1>1, <2>2, <3>1 DEF Submit, Opens, TypeOK, Ready
  <2> QED
    BY <2>1, <2>2
<1>2. ASSUME NEW f \in Files, NEW v \in Values, NEW expected, Apply(f, v, expected)
      PROVE  Opens
  BY <1>1, <1>2 DEF Apply, TypeOK
<1>3. ASSUME NEW id \in Ids, NEW expected, Restore(id, expected)
      PROVE  Opens
  BY <1>1, <1>3 DEF Restore, TypeOK
<1>4. ASSUME NEW expected, AcceptDisk(expected)
      PROVE  Opens
  BY <1>4 DEF AcceptDisk, Opens, TypeOK, Ready
<1>5. CASE Snapshot \/ Baseline
  BY <1>5 DEF Snapshot, Baseline, Opens, TypeOK, Ready
<1> QED
  BY <1>2, <1>3, <1>4, <1>5 DEF Request

-----------------------------------------------------------------------------
\* A step keeps every variable in its type.
LEMMA TypeStep ==
  ASSUME StoreInv, Next
  PROVE  TypeOK'
<1> USE DEF StoreInv, TypeOK, Operations, PCs, Replies
<1>1. CASE Mkdir \/ MkdirFails \/ Fill \/ FillFails
  <2>1. CASE Mkdir
    <3>1. op' \in Operations
      BY <2>1 DEF Mkdir
    <3>2. next \in 1 .. MaxId /\ next' = next + 1
      BY <2>1 DEF Mkdir, Ids
    <3>3. next' \in 1 .. MaxId + 1
      <4> HIDE DEF StoreInv, TypeOK
      <4> QED
        BY <3>2, BoundsAssumption
    <3> QED
      BY <2>1, <3>1, <3>3 DEF Mkdir, backups, budget
  <2>2. CASE MkdirFails
    BY <2>2, BoundsAssumption, NoOpType DEF MkdirFails, Fault, Failed, End,
       Goto, RollbackFailed, backups, budget
  <2>3. CASE Fill
    BY <2>3, BoundsAssumption, NoOpType DEF Fill, SnapshotImage, Goto, backups,
       budget, Shape, Handles
  <2>4. CASE FillFails
    BY <2>4, BoundsAssumption, NoOpType DEF FillFails, SnapshotImage, Fault, Failed, End, Goto,
       RollbackFailed, backups, budget, Handles
  <2> QED
    BY <1>1, <2>1, <2>2, <2>3, <2>4
<1>2. CASE Recheck \/ RecheckFails \/ WriteJournal \/ WriteJournalFails
  <2>1. CASE Recheck
    BY <2>1, BoundsAssumption, NoOpType DEF Recheck, Unchanged, Goto, backups,
       budget
  <2>2. CASE RecheckFails
    BY <2>2, BoundsAssumption, NoOpType DEF RecheckFails, Fault, End, backups,
       budget
  <2>3. CASE WriteJournal
    BY <2>3, BoundsAssumption, NoOpType DEF WriteJournal, Journal, backups,
       budget, Handles, Loadable
  <2>4. CASE WriteJournalFails
    BY <2>4, BoundsAssumption, NoOpType DEF WriteJournalFails, Journal, Fault,
       End, backups, budget, Handles, Loadable
  <2> QED
    BY <1>2, <2>1, <2>2, <2>3, <2>4
<1>3. CASE Stage \/ Swap \/ Sync \/ ReplaceFails
  <2>1. CASE Stage
    BY <2>1, BoundsAssumption, NoOpType DEF Stage, backups, budget, Changed
  <2>2. CASE Swap
    BY <2>2, BoundsAssumption, NoOpType DEF Swap, backups, budget
  <2>3. CASE Sync
    BY <2>3, BoundsAssumption, NoOpType DEF Sync, Goto, backups, budget
  <2>4. CASE ReplaceFails
    BY <2>4, BoundsAssumption, NoOpType DEF ReplaceFails, Fault, Failed, End,
       Goto, RollbackFailed, backups, budget
  <2> QED
    BY <1>3, <2>1, <2>2, <2>3, <2>4
<1>4. CASE ControlSucceeds \/ HealthSucceeds \/ ControllerFails
  <2>1. CASE ControlSucceeds
    BY <2>1, BoundsAssumption, NoOpType DEF ControlSucceeds, Goto, backups,
       budget
  <2>2. CASE HealthSucceeds
    <3>1. op' \in Operations
      BY <2>2 DEF HealthSucceeds
    <3> QED
      BY <2>2, <3>1, BoundsAssumption DEF HealthSucceeds, backups, budget
  <2>3. CASE ControllerFails
    BY <2>3, BoundsAssumption, NoOpType DEF ControllerFails, Failed, End, Goto,
       RollbackFailed, backups, budget
  <2> QED
    BY <1>4, <2>1, <2>2, <2>3
<1>5. CASE SetBaseline \/ SetBaselineFails
  <2>1. CASE SetBaseline
    BY <2>1, BoundsAssumption, NoOpType DEF SetBaseline, NewBaseline, End, Goto,
       backups, budget, Loadable
  <2>2. CASE SetBaselineFails
    <3>1. /\ pc' \in PCs /\ op' \in Operations /\ reply' \in Replies
      BY <2>2, NoOpType DEF SetBaselineFails, Failed, End, Goto, RollbackFailed
    <3>2. baseline' \in Ids \union {NoId}
      BY <2>2 DEF SetBaselineFails, NewBaseline
    <3>3. faults' \in 0 .. MaxFaults /\ UNCHANGED <<crashes, edits>>
      BY <2>2, BoundsAssumption DEF SetBaselineFails, Fault, budget
    <3> QED
      BY <2>2, <3>1, <3>2, <3>3 DEF SetBaselineFails, backups
  <2> QED
    BY <1>5, <2>1, <2>2
<1>6. CASE ClearPending \/ ClearPendingFails
  <2>1. CASE ClearPending
    BY <2>1, BoundsAssumption, NoOpType DEF ClearPending, End, Goto, backups,
       budget, NoJournal
  <2>2. CASE ClearPendingFails
    BY <2>2, BoundsAssumption, NoOpType DEF ClearPendingFails, Fault, End,
       RollbackFailed, backups, budget, NoJournal
  <2> QED
    BY <1>6, <2>1, <2>2
<1>7. CASE Rollback \/ RollbackReadFails
  <2>1. CASE Rollback
    BY <2>1, BoundsAssumption, NoOpType DEF Rollback, backups, budget, Loadable
  <2>2. CASE RollbackReadFails
    BY <2>2, BoundsAssumption, NoOpType DEF RollbackReadFails, Fault, End,
       RollbackFailed, backups, budget
  <2> QED
    BY <1>7, <2>1, <2>2
<1>8. CASE PruneOne \/ PruneDone \/ PruneFails \/ Unlink \/ UnlinkFails
  <2>1. CASE PruneOne
    <3>1. PICK id \in Victims : Tear(id) /\ op' = [op EXCEPT !.id = id]
      BY <2>1 DEF PruneOne
    <3>2. id \in Ids
      BY DEF Victims, Complete
    <3>3. op' \in Operations
      BY <3>1, <3>2
    <3>4. dirs' \in [Ids -> {"none", "torn", "complete"}] /\ saved' \in [Ids -> Images]
      BY <3>1, <3>2, EmptyImageType DEF Tear
    <3> QED
      BY <2>1, <3>3, <3>4, BoundsAssumption DEF PruneOne, budget
  <2>2. CASE PruneDone
    BY <2>2, BoundsAssumption, NoOpType DEF PruneDone, PruneAnswer, End,
       backups, budget
  <2>3. CASE PruneFails
    BY <2>3, BoundsAssumption, NoOpType DEF PruneFails, PruneFailed, Fault, End,
       backups, budget
  <2>4. CASE Unlink
    BY <2>4, BoundsAssumption, NoOpType DEF Unlink, End, Goto, backups, budget,
       Handles
  <2>5. CASE UnlinkFails
    BY <2>5, BoundsAssumption, NoOpType DEF UnlinkFails, PruneFailed, Fault,
       End, backups, budget, Handles
  <2> QED
    BY <1>8, <2>1, <2>2, <2>3, <2>4, <2>5
<1>9. CASE Start \/ Stop \/ Crash
  <2>1. CASE Start
    <3>1. op' \in Operations
      BY <2>1, NoOpType DEF Start, Goto, NoOp
    <3> QED
      BY <2>1, <3>1, BoundsAssumption DEF Start, Goto, backups, budget
  <2>2. CASE Stop
    BY <2>2, BoundsAssumption, NoOpType DEF Stop, backups, budget
  <2>3. CASE Crash
    BY <2>3, BoundsAssumption, NoOpType DEF Crash, backups, budget
  <2> QED
    BY <1>9, <2>1, <2>2, <2>3
<1>10. ASSUME NEW f \in Files, NEW v \in Values, Edit(f, v)
      PROVE  TypeOK'
  BY <1>10, BoundsAssumption, NoOpType DEF Edit, backups
<1>11. ASSUME NEW id \in Ids, DeleteSnapshot(id)
      PROVE  TypeOK'
  BY <1>11, BoundsAssumption, NoOpType DEF DeleteSnapshot, Ready, Tear, NoOp,
     budget
<1>12. CASE Opens
  <2>1. PICK kt \in {<<"apply", "recheck">>, <<"record", "point">>,
                    <<"initial", "point">>, <<"manual", "prune">>}, to \in Images :
          Begin(kt[1], kt[2], disk, to)
    BY <1>12 DEF Opens
  <2>2. kt[1] \in {"apply", "record", "initial", "manual"} /\ kt[2] \in {"recheck", "point", "prune"}
    OBVIOUS
  <2>3. op' = [NoOp EXCEPT !.kind = kt[1], !.then = kt[2], !.from = disk, !.to = to]
    BY <2>1 DEF Begin
  <2>4. op' \in Operations
    <3>1. disk \in Images /\ NoOp \in Operations
      BY NoOpType
    <3> HIDE DEF StoreInv, TypeOK
    <3> QED
      BY <2>2, <2>3, <3>1
  <2> QED
    BY <2>1, <2>4, BoundsAssumption DEF Begin, backups, budget
<1>13. QED
  BY RequestForms, <1>1, <1>2, <1>3, <1>4, <1>5, <1>6, <1>7, <1>8, <1>9, <1>10, <1>11, <1>12
     DEF Next, Step, Internal, Controller

\* A step keeps the operation, its step and the journal in agreement.
LEMMA ShapeStep ==
  ASSUME StoreInv, Next
  PROVE  Shape'
<1> USE DEF StoreInv, TypeOK, Operations, Shape, Handles, Loadable, NoJournal,
      NoOp, Journaled, Planning, BackingUp, Recording, Forward, Back
<1>1. CASE Mkdir \/ MkdirFails \/ Fill \/ FillFails
  <2>1. CASE Mkdir
    BY <2>1, NoOpType DEF Mkdir
  <2>2. CASE MkdirFails
    BY <2>2, NoOpType DEF MkdirFails, Fault, Failed, End, Goto, RollbackFailed, backups
  <2>3. CASE Fill
    BY <2>3, NoOpType DEF Goto, Fill, SnapshotImage
  <2>4. CASE FillFails
    BY <2>4, NoOpType DEF Fault, Failed, End, Goto, RollbackFailed, SnapshotImage,
       FillFails
  <2> QED
    BY <1>1, <2>1, <2>2, <2>3, <2>4
<1>2. CASE Recheck \/ RecheckFails \/ WriteJournal \/ WriteJournalFails
  <2>1. CASE Recheck
    BY <2>1, NoOpType DEF Recheck, Unchanged, Goto, backups
  <2>2. CASE RecheckFails
    BY <2>2, NoOpType DEF Unchanged, RecheckFails, Fault, End, backups
  <2>3. CASE WriteJournal
    BY <2>3, NoOpType DEF WriteJournal, Journal, backups
  <2>4. CASE WriteJournalFails
    BY <2>4, NoOpType DEF Fault, End, Journal, WriteJournalFails, backups
  <2> QED
    BY <1>2, <2>1, <2>2, <2>3, <2>4
<1>3. CASE Stage \/ Swap \/ Sync \/ ReplaceFails
  <2>1. CASE Stage
    BY <2>1, NoOpType DEF Stage, backups
  <2>2. CASE Swap
    BY <2>2, NoOpType DEF Swap, backups
  <2>3. CASE Sync
    BY <2>3, NoOpType DEF Sync, Goto, backups
  <2>4. CASE ReplaceFails
    BY <2>4, NoOpType DEF Goto, ReplaceFails, Fault, Failed, End, RollbackFailed,
       backups
  <2> QED
    BY <1>3, <2>1, <2>2, <2>3, <2>4
<1>4. CASE ControlSucceeds \/ HealthSucceeds \/ ControllerFails
  <2>1. CASE ControlSucceeds
    BY <2>1, NoOpType DEF ControlSucceeds, Goto, backups
  <2>2. CASE HealthSucceeds
    BY <2>2, NoOpType DEF HealthSucceeds, backups
  <2>3. CASE ControllerFails
    BY <2>3, NoOpType DEF Goto, ControllerFails, Failed, End, RollbackFailed, backups
  <2> QED
    BY <1>4, <2>1, <2>2, <2>3
<1>5. CASE SetBaseline \/ SetBaselineFails
  <2>1. CASE SetBaseline
    BY <2>1, NoOpType DEF SetBaseline, NewBaseline, End, Goto, backups, budget
  <2>2. CASE SetBaselineFails
    <3>1. CASE op.dir = "none"
      BY <2>2, <3>1, NoOpType DEF SetBaselineFails, Fault, Failed, End, backups, budget
    <3>2. CASE op.dir = "forward"
      BY <2>2, <3>2 DEF SetBaselineFails, Fault, Failed, Goto, backups, budget
    <3>3. CASE op.dir = "back"
      BY <2>2, <3>3, NoOpType DEF SetBaselineFails, Fault, Failed, End, RollbackFailed,
         backups, budget
    <3> QED
      BY <2>2, <3>1, <3>2, <3>3 DEF SetBaselineFails, Failed
  <2> QED
    BY <1>5, <2>1, <2>2
<1>6. CASE ClearPending \/ ClearPendingFails
  <2>1. CASE ClearPending
    BY <2>1, NoOpType DEF ClearPending, End, Goto, backups, budget
  <2>2. CASE ClearPendingFails
    BY <2>2, NoOpType DEF ClearPendingFails, Fault, End, RollbackFailed, backups, budget
  <2> QED
    BY <1>6, <2>1, <2>2
<1>7. CASE Rollback \/ RollbackReadFails
  <2>1. CASE Rollback
    BY <2>1, NoOpType DEF Rollback, backups
  <2>2. CASE RollbackReadFails
    BY <2>2, NoOpType DEF RollbackReadFails, Fault, End, RollbackFailed, backups
  <2> QED
    BY <1>7, <2>1, <2>2
<1>8. CASE PruneOne \/ PruneDone \/ PruneFails \/ Unlink \/ UnlinkFails
  <2>1. CASE PruneOne
    BY <2>1, NoOpType DEF PruneOne, Tear, Victims
  <2>2. CASE PruneDone
    BY <2>2, NoOpType DEF Victims, PruneDone, PruneAnswer, End, backups
  <2>3. CASE PruneFails
    BY <2>3, NoOpType DEF End, PruneFails, PruneFailed, Fault, backups
  <2>4. CASE Unlink
    BY <2>4, NoOpType DEF End, Unlink, Goto
  <2>5. CASE UnlinkFails
    BY <2>5, NoOpType DEF End, PruneFailed, Fault, UnlinkFails
  <2> QED
    BY <1>8, <2>1, <2>2, <2>3, <2>4, <2>5
<1>9. CASE Start \/ Stop \/ Crash
  <2>1. CASE Start
    BY <2>1, NoOpType DEF Start, Goto, backups
  <2>2. CASE Stop
    BY <2>2, NoOpType DEF Stop, backups
  <2>3. CASE Crash
    BY <2>3, NoOpType DEF Crash, backups
  <2> QED
    BY <1>9, <2>1, <2>2, <2>3
<1>10. ASSUME NEW f \in Files, NEW v \in Values, Edit(f, v)
      PROVE  Shape'
  BY <1>10, NoOpType DEF Edit, backups
<1>11. ASSUME NEW id \in Ids, DeleteSnapshot(id)
      PROVE  Shape'
  BY <1>11, NoOpType DEF DeleteSnapshot, Ready, Tear, budget
<1>12. CASE Opens
  BY <1>12, NoOpType DEF Opens, Begin, Ready, backups, budget
<1>13. QED
  BY RequestForms, <1>1, <1>2, <1>3, <1>4, <1>5, <1>6, <1>7, <1>8, <1>9, <1>10, <1>11, <1>12
     DEF Next, Step, Internal, Controller

\* A step keeps what the operation's snapshot ID stands for.
LEMMA HandlesStep ==
  ASSUME StoreInv, Next
  PROVE  Handles'
<1> USE DEF StoreInv, TypeOK, Operations, Shape, Handles, JournalRecoverable,
      NoOp, Loadable, Journaled, Planning, BackingUp, Recording, Forward, Back
<1>1. CASE Mkdir \/ MkdirFails \/ Fill \/ FillFails
  <2>1. CASE Mkdir
    BY <2>1, NoOpType DEF Mkdir, backups, budget
  <2>2. CASE MkdirFails
    BY <2>2, NoOpType DEF MkdirFails, Fault, Failed, End, Goto, RollbackFailed,
       backups, budget
  <2>3. CASE Fill
    BY <2>3, NoOpType DEF Fill, SnapshotImage, Goto, backups, budget
  <2>4. CASE FillFails
    BY <2>4, NoOpType DEF FillFails, SnapshotImage, Fault, Failed, End, Goto, RollbackFailed,
       backups, budget
  <2> QED
    BY <1>1, <2>1, <2>2, <2>3, <2>4
<1>2. CASE Recheck \/ RecheckFails \/ WriteJournal \/ WriteJournalFails
  <2>1. CASE Recheck
    BY <2>1, NoOpType DEF Recheck, Unchanged, Goto, backups
  <2>2. CASE RecheckFails
    BY <2>2, NoOpType DEF Unchanged, RecheckFails, Fault, End, backups
  <2>3. CASE WriteJournal
    BY <2>3, NoOpType DEF WriteJournal, Journal, backups
  <2>4. CASE WriteJournalFails
    BY <2>4, NoOpType DEF Fault, End, Journal, WriteJournalFails, backups
  <2> QED
    BY <1>2, <2>1, <2>2, <2>3, <2>4
<1>3. CASE Stage \/ Swap \/ Sync \/ ReplaceFails
  <2>1. CASE Stage
    BY <2>1, NoOpType DEF Stage, backups
  <2>2. CASE Swap
    BY <2>2, NoOpType DEF Swap, backups
  <2>3. CASE Sync
    BY <2>3, NoOpType DEF Sync, Goto, backups
  <2>4. CASE ReplaceFails
    BY <2>4, NoOpType DEF Goto, ReplaceFails, Fault, Failed, End, RollbackFailed,
       backups
  <2> QED
    BY <1>3, <2>1, <2>2, <2>3, <2>4
<1>4. CASE ControlSucceeds \/ HealthSucceeds \/ ControllerFails
  <2>1. CASE ControlSucceeds
    BY <2>1, NoOpType DEF ControlSucceeds, Goto, backups
  <2>2. CASE HealthSucceeds
    BY <2>2, NoOpType DEF HealthSucceeds, backups
  <2>3. CASE ControllerFails
    BY <2>3, NoOpType DEF Goto, ControllerFails, Failed, End, RollbackFailed, backups
  <2> QED
    BY <1>4, <2>1, <2>2, <2>3
<1>5. CASE SetBaseline \/ SetBaselineFails
  <2>1. CASE SetBaseline
    BY <2>1, NoOpType DEF SetBaseline, NewBaseline, End, Goto, backups, budget
  <2>2. CASE SetBaselineFails
    <3>1. CASE op.dir = "none"
      BY <2>2, <3>1, NoOpType DEF SetBaselineFails, Fault, Failed, End, backups, budget
    <3>2. CASE op.dir = "forward"
      BY <2>2, <3>2 DEF SetBaselineFails, Fault, Failed, Goto, backups, budget
    <3>3. CASE op.dir = "back"
      BY <2>2, <3>3, NoOpType DEF SetBaselineFails, Fault, Failed, End, RollbackFailed,
         backups, budget
    <3> QED
      BY <2>2, <3>1, <3>2, <3>3 DEF SetBaselineFails, Failed
  <2> QED
    BY <1>5, <2>1, <2>2
<1>6. CASE ClearPending \/ ClearPendingFails
  <2>1. CASE ClearPending
    BY <2>1, NoOpType DEF ClearPending, End, Goto, backups, budget
  <2>2. CASE ClearPendingFails
    BY <2>2, NoOpType DEF ClearPendingFails, Fault, End, RollbackFailed, backups, budget
  <2> QED
    BY <1>6, <2>1, <2>2
<1>7. CASE Rollback \/ RollbackReadFails
  <2>1. CASE Rollback
    BY <2>1, NoOpType DEF Rollback, backups
  <2>2. CASE RollbackReadFails
    BY <2>2, NoOpType DEF RollbackReadFails, Fault, End, RollbackFailed, backups
  <2> QED
    BY <1>7, <2>1, <2>2
<1>8. CASE PruneOne \/ PruneDone \/ PruneFails \/ Unlink \/ UnlinkFails
  <2>1. CASE PruneOne
    BY <2>1, NoOpType DEF PruneOne, Tear, Victims, Complete, backups, budget
  <2>2. CASE PruneDone
    BY <2>2, NoOpType DEF PruneDone, PruneAnswer, End, backups, budget
  <2>3. CASE PruneFails
    BY <2>3, NoOpType DEF PruneFails, PruneFailed, Fault, End, backups, budget
  <2>4. CASE Unlink
    BY <2>4, NoOpType DEF Unlink, End, Goto, backups, budget
  <2>5. CASE UnlinkFails
    BY <2>5, NoOpType DEF UnlinkFails, PruneFailed, Fault, End, backups, budget
  <2> QED
    BY <1>8, <2>1, <2>2, <2>3, <2>4, <2>5
<1>9. CASE Start \/ Stop \/ Crash
  <2>1. CASE Start
    BY <2>1, NoOpType DEF Start, Goto, backups
  <2>2. CASE Stop
    BY <2>2, NoOpType DEF Stop, backups
  <2>3. CASE Crash
    BY <2>3, NoOpType DEF Crash, backups
  <2> QED
    BY <1>9, <2>1, <2>2, <2>3
<1>10. ASSUME NEW f \in Files, NEW v \in Values, Edit(f, v)
      PROVE  Handles'
  BY <1>10, NoOpType DEF Edit, backups
<1>11. ASSUME NEW id \in Ids, DeleteSnapshot(id)
      PROVE  Handles'
  BY <1>11, NoOpType DEF DeleteSnapshot, Ready, Tear, budget
<1>12. CASE Opens
  BY <1>12, NoOpType DEF Opens, Begin, Ready, backups, budget
<1>13. QED
  BY RequestForms, <1>1, <1>2, <1>3, <1>4, <1>5, <1>6, <1>7, <1>8, <1>9, <1>10, <1>11, <1>12
     DEF Next, Step, Internal, Controller

\* A step never uses an ID twice.
LEMMA FreshStep ==
  ASSUME StoreInv, Next
  PROVE  FreshIds'
<1> USE DEF StoreInv, TypeOK, Handles, FreshIds
<1>1. CASE Mkdir \/ MkdirFails \/ Fill \/ FillFails
  <2>1. CASE Mkdir
    BY <2>1, BoundsAssumption DEF Mkdir, backups, budget
  <2>2. CASE MkdirFails
    BY <2>2, BoundsAssumption DEF MkdirFails, Fault, Failed, End, Goto,
       RollbackFailed, backups, budget
  <2>3. CASE Fill
    BY <2>3, BoundsAssumption DEF Fill, SnapshotImage, Goto, backups, budget
  <2>4. CASE FillFails
    BY <2>4, BoundsAssumption DEF FillFails, SnapshotImage, Fault, Failed, End, Goto,
       RollbackFailed, backups, budget
  <2> QED
    BY <1>1, <2>1, <2>2, <2>3, <2>4
<1>2. CASE Recheck \/ RecheckFails \/ WriteJournal \/ WriteJournalFails
  <2>1. CASE Recheck
    BY <2>1, BoundsAssumption DEF Recheck, Unchanged, Goto, backups
  <2>2. CASE RecheckFails
    BY <2>2, BoundsAssumption DEF Unchanged, RecheckFails, Fault, End, backups
  <2>3. CASE WriteJournal
    BY <2>3, BoundsAssumption DEF WriteJournal, Journal, backups
  <2>4. CASE WriteJournalFails
    BY <2>4, BoundsAssumption DEF Fault, End, Journal, WriteJournalFails, backups
  <2> QED
    BY <1>2, <2>1, <2>2, <2>3, <2>4
<1>3. CASE Stage \/ Swap \/ Sync \/ ReplaceFails
  <2>1. CASE Stage
    BY <2>1, BoundsAssumption DEF Stage, backups
  <2>2. CASE Swap
    BY <2>2, BoundsAssumption DEF Swap, backups
  <2>3. CASE Sync
    BY <2>3, BoundsAssumption DEF Sync, Goto, backups
  <2>4. CASE ReplaceFails
    BY <2>4, BoundsAssumption DEF Goto, ReplaceFails, Fault, Failed, End,
       RollbackFailed, backups
  <2> QED
    BY <1>3, <2>1, <2>2, <2>3, <2>4
<1>4. CASE ControlSucceeds \/ HealthSucceeds \/ ControllerFails
  <2>1. CASE ControlSucceeds
    BY <2>1, BoundsAssumption DEF ControlSucceeds, Goto, backups
  <2>2. CASE HealthSucceeds
    BY <2>2, BoundsAssumption DEF HealthSucceeds, backups
  <2>3. CASE ControllerFails
    BY <2>3, BoundsAssumption DEF Goto, ControllerFails, Failed, End, RollbackFailed,
       backups
  <2> QED
    BY <1>4, <2>1, <2>2, <2>3
<1>5. CASE SetBaseline \/ SetBaselineFails
  <2>1. CASE SetBaseline
    BY <2>1, BoundsAssumption DEF SetBaseline, NewBaseline, End, Goto, backups
  <2>2. CASE SetBaselineFails
    BY <2>2, BoundsAssumption DEF NewBaseline, End, Goto, SetBaselineFails, Fault,
       Failed, RollbackFailed, backups
  <2> QED
    BY <1>5, <2>1, <2>2
<1>6. CASE ClearPending \/ ClearPendingFails
  <2>1. CASE ClearPending
    BY <2>1, BoundsAssumption DEF ClearPending, End, Goto, backups
  <2>2. CASE ClearPendingFails
    BY <2>2, BoundsAssumption DEF End, ClearPendingFails, Fault, RollbackFailed, backups
  <2> QED
    BY <1>6, <2>1, <2>2
<1>7. CASE Rollback \/ RollbackReadFails
  <2>1. CASE Rollback
    BY <2>1, BoundsAssumption DEF Rollback, backups
  <2>2. CASE RollbackReadFails
    BY <2>2, BoundsAssumption DEF RollbackReadFails, Fault, End, RollbackFailed, backups
  <2> QED
    BY <1>7, <2>1, <2>2
<1>8. CASE PruneOne \/ PruneDone \/ PruneFails \/ Unlink \/ UnlinkFails
  <2>1. CASE PruneOne
    BY <2>1, BoundsAssumption DEF PruneOne, Tear, Victims, Complete, backups,
       budget
  <2>2. CASE PruneDone
    BY <2>2, BoundsAssumption DEF PruneDone, PruneAnswer, End, backups, budget
  <2>3. CASE PruneFails
    BY <2>3, BoundsAssumption DEF PruneFails, PruneFailed, Fault, End, backups,
       budget
  <2>4. CASE Unlink
    BY <2>4, BoundsAssumption DEF Unlink, End, Goto, backups, budget
  <2>5. CASE UnlinkFails
    BY <2>5, BoundsAssumption DEF UnlinkFails, PruneFailed, Fault, End, backups,
       budget
  <2> QED
    BY <1>8, <2>1, <2>2, <2>3, <2>4, <2>5
<1>9. CASE Start \/ Stop \/ Crash
  <2>1. CASE Start
    BY <2>1, BoundsAssumption DEF Start, Goto, backups
  <2>2. CASE Stop
    BY <2>2, BoundsAssumption DEF Stop, backups
  <2>3. CASE Crash
    BY <2>3, BoundsAssumption DEF Crash, backups
  <2> QED
    BY <1>9, <2>1, <2>2, <2>3
<1>10. ASSUME NEW f \in Files, NEW v \in Values, Edit(f, v)
      PROVE  FreshIds'
  BY <1>10, BoundsAssumption DEF Edit, backups
<1>11. ASSUME NEW id \in Ids, DeleteSnapshot(id)
      PROVE  FreshIds'
  BY <1>11 DEF DeleteSnapshot, Tear, Loadable
<1>12. CASE Opens
  BY <1>12, BoundsAssumption DEF Opens, Begin, Ready, NoOp, backups, budget
<1>13. QED
  BY RequestForms, <1>1, <1>2, <1>3, <1>4, <1>5, <1>6, <1>7, <1>8, <1>9, <1>10, <1>11, <1>12
     DEF Next, Step, Internal, Controller

\* A step keeps the journal's snapshots and the managed baseline loadable.
LEMMA LoadableStep ==
  ASSUME StoreInv, Next
  PROVE  JournalRecoverable' /\ BaselineLoadable'
<1> USE DEF StoreInv, TypeOK, Operations, Shape, Handles, FreshIds,
      JournalRecoverable, BaselineLoadable, Loadable, NoJournal, NoOp,
      Journaled, Planning, BackingUp, Recording, Forward, Back
<1>1. CASE Mkdir \/ MkdirFails \/ Fill \/ FillFails
  <2>1. CASE Mkdir
    BY <2>1, NoOpType DEF Mkdir, backups, budget
  <2>2. CASE MkdirFails
    BY <2>2, NoOpType DEF MkdirFails, Fault, Failed, End, Goto, RollbackFailed,
       backups, budget
  <2>3. CASE Fill
    BY <2>3, NoOpType DEF Fill, SnapshotImage, Goto, backups, budget
  <2>4. CASE FillFails
    BY <2>4, NoOpType DEF FillFails, SnapshotImage, Fault, Failed, End, Goto, RollbackFailed,
       backups, budget
  <2> QED
    BY <1>1, <2>1, <2>2, <2>3, <2>4
<1>2. CASE Recheck \/ RecheckFails \/ WriteJournal \/ WriteJournalFails
  <2>1. CASE Recheck
    BY <2>1, NoOpType DEF Recheck, Unchanged, Goto, backups, budget
  <2>2. CASE RecheckFails
    BY <2>2, NoOpType DEF RecheckFails, Fault, End, backups, budget
  <2>3. CASE WriteJournal
    BY <2>3, NoOpType DEF WriteJournal, Journal, backups, budget
  <2>4. CASE WriteJournalFails
    BY <2>4, NoOpType DEF WriteJournalFails, Journal, Fault, End, backups,
       budget
  <2> QED
    BY <1>2, <2>1, <2>2, <2>3, <2>4
<1>3. CASE Stage \/ Swap \/ Sync \/ ReplaceFails
  <2>1. CASE Stage
    BY <2>1, NoOpType DEF Stage, backups
  <2>2. CASE Swap
    BY <2>2, NoOpType DEF Swap, backups
  <2>3. CASE Sync
    BY <2>3, NoOpType DEF Sync, Goto, backups
  <2>4. CASE ReplaceFails
    BY <2>4, NoOpType DEF Goto, ReplaceFails, Fault, Failed, End, RollbackFailed,
       backups
  <2> QED
    BY <1>3, <2>1, <2>2, <2>3, <2>4
<1>4. CASE ControlSucceeds \/ HealthSucceeds \/ ControllerFails
  <2>1. CASE ControlSucceeds
    BY <2>1, NoOpType DEF ControlSucceeds, Goto, backups
  <2>2. CASE HealthSucceeds
    BY <2>2, NoOpType DEF HealthSucceeds, backups
  <2>3. CASE ControllerFails
    BY <2>3, NoOpType DEF Goto, ControllerFails, Failed, End, RollbackFailed, backups
  <2> QED
    BY <1>4, <2>1, <2>2, <2>3
<1>5. CASE SetBaseline \/ SetBaselineFails
  <2>1. CASE SetBaseline
    BY <2>1, NoOpType DEF SetBaseline, NewBaseline, End, Goto, backups, budget
  <2>2. CASE SetBaselineFails
    <3>1. /\ pc = "point" /\ baseline' \in {baseline, NewBaseline}
          /\ dirs' = dirs /\ pending' = pending /\ (baseline' # baseline => Fault)
      BY <2>2 DEF SetBaselineFails, backups
    <3>2. NewBaseline = NoId \/ Loadable(NewBaseline)
      BY <3>1 DEF NewBaseline
    <3> QED
      BY <3>1, <3>2
  <2> QED
    BY <1>5, <2>1, <2>2
<1>6. CASE ClearPending \/ ClearPendingFails
  <2>1. CASE ClearPending
    BY <2>1, NoOpType DEF ClearPending, End, Goto, backups, budget
  <2>2. CASE ClearPendingFails
    BY <2>2, NoOpType DEF ClearPendingFails, Fault, End, RollbackFailed, backups, budget
  <2> QED
    BY <1>6, <2>1, <2>2
<1>7. CASE Rollback \/ RollbackReadFails
  <2>1. CASE Rollback
    BY <2>1, NoOpType DEF Rollback, backups
  <2>2. CASE RollbackReadFails
    BY <2>2, NoOpType DEF RollbackReadFails, Fault, End, RollbackFailed, backups
  <2> QED
    BY <1>7, <2>1, <2>2
<1>8. CASE PruneOne \/ PruneDone \/ PruneFails \/ Unlink \/ UnlinkFails
  <2>1. CASE PruneOne
    BY <2>1, NoOpType DEF PruneOne, Tear, Victims, Complete, backups, budget
  <2>2. CASE PruneDone
    BY <2>2, NoOpType DEF PruneDone, PruneAnswer, End, backups, budget
  <2>3. CASE PruneFails
    BY <2>3, NoOpType DEF PruneFails, PruneFailed, Fault, End, backups, budget
  <2>4. CASE Unlink
    BY <2>4, NoOpType DEF Unlink, End, Goto, backups, budget
  <2>5. CASE UnlinkFails
    BY <2>5, NoOpType DEF UnlinkFails, PruneFailed, Fault, End, backups, budget
  <2> QED
    BY <1>8, <2>1, <2>2, <2>3, <2>4, <2>5
<1>9. CASE Start \/ Stop \/ Crash
  <2>1. CASE Start
    BY <2>1, NoOpType DEF Start, Goto, backups, budget
  <2>2. CASE Stop
    BY <2>2, NoOpType DEF Stop, backups, budget
  <2>3. CASE Crash
    BY <2>3, NoOpType DEF Crash, backups, budget
  <2> QED
    BY <1>9, <2>1, <2>2, <2>3
<1>10. ASSUME NEW f \in Files, NEW v \in Values, Edit(f, v)
      PROVE  JournalRecoverable' /\ BaselineLoadable'
  BY <1>10, NoOpType DEF Edit, backups
<1>11. ASSUME NEW id \in Ids, DeleteSnapshot(id)
      PROVE  JournalRecoverable' /\ BaselineLoadable'
  BY <1>11, NoOpType DEF DeleteSnapshot, Ready, Tear, budget
<1>12. CASE Opens
  BY <1>12, NoOpType DEF Opens, Begin, Ready, backups, budget
<1>13. QED
  BY RequestForms, <1>1, <1>2, <1>3, <1>4, <1>5, <1>6, <1>7, <1>8, <1>9, <1>10, <1>11, <1>12
     DEF Next, Step, Internal, Controller

LEMMA StoreInvInit == Init => StoreInv
<1> SUFFICES ASSUME Init
             PROVE  StoreInv
  OBVIOUS
<1>1. TypeOK
  BY BoundsAssumption, EmptyImageType, NoOpType
     DEF Init, TypeOK, NoJournal, Replies, PCs
<1>2. Shape /\ Handles
  BY DEF Init, Shape, Handles
<1>3. FreshIds /\ JournalRecoverable /\ BaselineLoadable
  BY DEF Init, FreshIds, JournalRecoverable, BaselineLoadable
<1> QED
  BY <1>1, <1>2, <1>3 DEF StoreInv

LEMMA StoreInvStutter == StoreInv /\ UNCHANGED vars => StoreInv'
  BY DEF vars, StoreInv, TypeOK, Shape, Handles, FreshIds, JournalRecoverable,
         BaselineLoadable, Loadable, Journaled, Planning, BackingUp, Recording,
         Forward, Back

\* The inductive invariant holds in every reachable state.
THEOREM StoreInvariant == Spec => []StoreInv
<1>1. StoreInv /\ [Next]_vars => StoreInv'
  BY StoreInvStutter, TypeStep, ShapeStep, HandlesStep, FreshStep, LoadableStep
     DEF StoreInv
<1> QED
  BY StoreInvInit, <1>1, PTL DEF Spec

\* Every variable keeps its type, whatever fails.
THEOREM StoreTypes == Spec => []TypeOK
  BY StoreInvariant, PTL DEF StoreInv

\* A crash at any point, followed by any recovery attempt, always finds the
\* snapshot and the old baseline its journal names.
THEOREM RecoveryAlwaysPossible == Spec => []JournalRecoverable
  BY StoreInvariant, PTL DEF StoreInv

\* No retention pass, deletion or crash loses the managed baseline.
THEOREM BaselineAlwaysLoads == Spec => []BaselineLoadable
  BY StoreInvariant, PTL DEF StoreInv
=============================================================================
