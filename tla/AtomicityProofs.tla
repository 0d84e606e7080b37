--------------------------- MODULE AtomicityProofs ---------------------------
(***************************************************************************)
(* Safe Apply implements AtomicConfig: DiskInv says what is on the disk at *)
(* every step of a transaction, and every step of the store is then a step *)
(* of the abstract specification or leaves its view unchanged.  Retention  *)
(* keeps its promises for every limit and every clock: what an answered    *)
(* request leaves behind, and that a manual backup outlives its own        *)
(* retention pass.  And every operation comes to an end, as each of its    *)
(* steps leaves less to do.                                                *)
(***************************************************************************)
EXTENDS ConfigStoreProofs, FiniteSetTheorems

USE DEF Values, Images, Ids, NoId

\* A step keeps the disk, outside the files others touched, what replace made it.
LEMMA DiskStep ==
  ASSUME StoreInv, DiskInv, Next
  PROVE  DiskInv'
<1> USE DEF StoreInv, TypeOK, Operations, Shape, Journaled, Planning, BackingUp,
      Recording, Forward, Back, DiskInv, AgreeOff, NoOp
<1>1. CASE Mkdir \/ MkdirFails \/ Fill \/ FillFails
  <2>1. CASE Mkdir
    BY <2>1, NoOpType DEF Mkdir, backups, budget
  <2>2. CASE MkdirFails
    BY <2>2, NoOpType DEF MkdirFails, Fault, Failed, End, Goto, RollbackFailed,
       backups, budget
  <2>3. CASE Fill
    BY <2>3, NoOpType DEF Fill, SnapshotImage, Goto, backups, budget,
       Handles, JournalRecoverable, Loadable, NoJournal
  <2>4. CASE FillFails
    BY <2>4, NoOpType DEF FillFails, SnapshotImage, Fault, Failed, End, Goto,
       RollbackFailed,
       backups, budget, Handles, JournalRecoverable, Loadable, NoJournal
  <2> QED
    BY <1>1, <2>1, <2>2, <2>3, <2>4
<1>2. CASE Recheck \/ RecheckFails \/ WriteJournal \/ WriteJournalFails
  <2>1. CASE Recheck
    BY <2>1, NoOpType DEF Recheck, Unchanged, Goto, backups, budget
  <2>2. CASE RecheckFails
    BY <2>2, NoOpType DEF RecheckFails, Fault, End, backups, budget
  <2>3. CASE WriteJournal
    BY <2>3, NoOpType DEF WriteJournal, Journal, backups, budget,
       Handles, Loadable
  <2>4. CASE WriteJournalFails
    BY <2>4, NoOpType DEF WriteJournalFails, Journal, Fault, End, backups,
       budget
  <2> QED
    BY <1>2, <2>1, <2>2, <2>3, <2>4
<1>3. CASE Stage \/ Swap \/ Sync \/ ReplaceFails
  <2>1. CASE Stage
    BY <2>1, NoOpType DEF Stage, backups, budget, Changed
  <2>2. CASE Swap
    <3> DEFINE f == NextFile(op.todo, op.to)
    <3>1. /\ pc = "swap" /\ pc' = pc /\ touched' = touched
          /\ saved' = saved /\ pending' = pending
          /\ disk' = [disk EXCEPT ![f] = op.to[f]]
          /\ op' = [op EXCEPT !.todo = op.todo \ {f}]
      BY <2>2 DEF Swap, backups
    <3> HIDE DEF f
    <3>2. /\ op'.dir = op.dir /\ op'.from = op.from /\ op'.to = op.to
          /\ op'.todo = op.todo \ {f}
      BY <3>1
    <3>3. ASSUME NEW g \in Files \ (touched' \union op'.todo)
          PROVE  disk'[g] = op'.to[g]
      <4>1. CASE g = f
        <5>1. disk'[f] = op.to[f]
          BY <3>1, <4>1, BoundsAssumption
        <5> QED
          BY <3>2, <4>1, <5>1
      <4>2. CASE g # f
        BY <3>1, <3>2, <4>2
      <4> QED
        BY <4>1, <4>2
    <3>4. op'.todo \subseteq Changed(op'.from, op'.to)
      BY <3>1, <3>2 DEF Changed
    <3> QED
      BY <3>1, <3>2, <3>3, <3>4
  <2>3. CASE Sync
    BY <2>3, NoOpType DEF Sync, Goto, backups, budget
  <2>4. CASE ReplaceFails
    BY <2>4, NoOpType DEF ReplaceFails, Fault, Failed, End, Goto,
       RollbackFailed, backups, budget
  <2> QED
    BY <1>3, <2>1, <2>2, <2>3, <2>4
<1>4. CASE ControlSucceeds \/ HealthSucceeds \/ ControllerFails
  <2>1. CASE ControlSucceeds
    BY <2>1, NoOpType DEF ControlSucceeds, Goto, backups, budget
  <2>2. CASE HealthSucceeds
    BY <2>2, NoOpType DEF HealthSucceeds, backups, budget
  <2>3. CASE ControllerFails
    BY <2>3, NoOpType DEF ControllerFails, Failed, End, Goto, RollbackFailed,
       backups, budget
  <2> QED
    BY <1>4, <2>1, <2>2, <2>3
<1>5. CASE SetBaseline \/ SetBaselineFails
  <2>1. CASE SetBaseline
    BY <2>1, NoOpType DEF SetBaseline, NewBaseline, End, Goto, backups, budget
  <2>2. CASE SetBaselineFails
    BY <2>2, NoOpType DEF SetBaselineFails, NewBaseline, Fault, Failed, End,
       Goto, RollbackFailed, backups, budget
  <2> QED
    BY <1>5, <2>1, <2>2
<1>6. CASE ClearPending \/ ClearPendingFails
  BY <1>6, NoOpType DEF ClearPending, End, Goto, ClearPendingFails, Fault,
     RollbackFailed, backups, budget
<1>7. CASE Rollback \/ RollbackReadFails
  <2>1. CASE Rollback
    BY <2>1, NoOpType DEF Rollback, backups, budget
  <2>2. CASE RollbackReadFails
    BY <2>2, NoOpType DEF RollbackReadFails, Fault, End, RollbackFailed,
       backups, budget
  <2> QED
    BY <1>7, <2>1, <2>2
<1>8. CASE PruneOne \/ PruneDone \/ PruneFails \/ Unlink \/ UnlinkFails
  BY <1>8, NoOpType DEF PruneOne, Tear, Victims, Complete, PruneDone,
     PruneAnswer, End, PruneFails, PruneFailed, Fault, Unlink, Goto,
     UnlinkFails, backups, budget
<1>9. CASE Start \/ Stop \/ Crash
  BY <1>9, NoOpType DEF Start, Goto, Stop, Crash, backups, budget
<1>10. ASSUME NEW f \in Files, NEW v \in Values, Edit(f, v)
      PROVE  DiskInv'
  BY <1>10, NoOpType DEF Edit, backups
<1>11. ASSUME NEW id \in Ids, DeleteSnapshot(id)
      PROVE  DiskInv'
  BY <1>11, NoOpType DEF DeleteSnapshot, Ready, Tear, budget
<1>12. CASE Opens
  BY <1>12, NoOpType DEF Opens, Begin, Ready, backups, budget
<1>13. QED
  BY RequestForms, <1>1, <1>2, <1>3, <1>4, <1>5, <1>6, <1>7, <1>8, <1>9, <1>10, <1>11, <1>12
     DEF Next, Step, Internal, Controller

LEMMA DiskInit == Init => DiskInv
  BY DEF Init, DiskInv, NoOp

LEMMA DiskStutter == DiskInv /\ UNCHANGED vars => DiskInv'
  BY DEF vars, DiskInv, AgreeOff

THEOREM DiskInvariant == Spec => []DiskInv
<1>1. StoreInv /\ DiskInv /\ [Next]_vars => DiskInv'
  BY DiskStep, DiskStutter
<1> QED
  BY StoreInvariant, DiskInit, <1>1, PTL DEF Spec

\* Whenever replace may have changed a file, the journal holds the image to go
\* back to, and only files of the change or files others touched differ from it.
THEOREM WriteAheadHolds == Spec => []WriteAhead
<1>1. StoreInv /\ DiskInv => WriteAhead
  BY DEF WriteAhead, StoreInv, TypeOK, Operations, Shape, DiskInv, AgreeOff, Changed,
         Planning, BackingUp, Recording, Forward, Back
<1> QED
  BY StoreInvariant, DiskInvariant, <1>1, PTL

-----------------------------------------------------------------------------
\* A step keeps what the running operation's answer will mean.
LEMMA AnswerStep ==
  ASSUME StoreInv, DiskInv, AnswerInv, Next
  PROVE  AnswerInv'
<1> USE DEF StoreInv, TypeOK, Operations, Shape, Handles, FreshIds,
      JournalRecoverable, BaselineLoadable, Loadable, NoJournal, NoOp,
      Journaled, Planning, BackingUp, Recording, Forward, Back, DiskInv,
      AgreeOff, AnswerInv
<1>1. CASE Mkdir \/ MkdirFails \/ Fill \/ FillFails
  BY <1>1, NoOpType DEF Mkdir, MkdirFails, Fault, Failed, End, Goto,
     RollbackFailed, Fill, SnapshotImage, FillFails, backups, budget
<1>2. CASE Recheck \/ RecheckFails \/ WriteJournal \/ WriteJournalFails
  BY <1>2, NoOpType DEF Recheck, Unchanged, Goto, RecheckFails, Fault, End,
     WriteJournal, Journal, WriteJournalFails, backups, budget
<1>3. CASE Stage \/ Swap \/ Sync \/ ReplaceFails
  BY <1>3, NoOpType DEF Stage, Swap, Sync, Goto, ReplaceFails, Fault, Failed,
     End, RollbackFailed, backups, budget
<1>4. CASE ControlSucceeds \/ HealthSucceeds \/ ControllerFails
  BY <1>4, NoOpType DEF ControlSucceeds, Goto, HealthSucceeds, ControllerFails,
     Failed, End, RollbackFailed, backups, budget
<1>5. CASE SetBaseline \/ SetBaselineFails
  <2>1. CASE SetBaseline
    BY <2>1, NoOpType DEF SetBaseline, NewBaseline, End, Goto, backups, budget
  <2>2. CASE SetBaselineFails
    BY <2>2, NoOpType DEF SetBaselineFails, NewBaseline, Fault, Failed, End,
       Goto, RollbackFailed, backups, budget
  <2> QED
    BY <1>5, <2>1, <2>2
<1>6. CASE ClearPending \/ ClearPendingFails
  <2>1. CASE ClearPending
    BY <2>1, NoOpType DEF ClearPending, End, Goto, backups, budget
  <2>2. CASE ClearPendingFails
    BY <2>2, NoOpType DEF ClearPendingFails, Fault, End, RollbackFailed,
       backups, budget
  <2> QED
    BY <1>6, <2>1, <2>2
<1>7. CASE Rollback \/ RollbackReadFails
  BY <1>7, NoOpType DEF Rollback, RollbackReadFails, Fault, End, RollbackFailed,
     backups, budget
<1>8. CASE PruneOne \/ PruneDone \/ PruneFails \/ Unlink \/ UnlinkFails
  <2>1. CASE PruneOne
    BY <2>1, NoOpType DEF PruneOne, Tear, Victims, Complete, backups, budget
  <2>2. CASE PruneDone
    BY <2>2, NoOpType DEF PruneDone, PruneAnswer, End, backups, budget
  <2>3. CASE PruneFails
    BY <2>3, NoOpType DEF PruneFails, PruneFailed, Fault, End, backups, budget
  <2>4. CASE Unlink
    BY <2>4, NoOpType DEF Unlink, End, Goto, backups, budget
  <2>5. CASE UnlinkFails
    BY <2>5, NoOpType DEF UnlinkFails, PruneFailed, Fault, End, backups, budget
  <2> QED
    BY <1>8, <2>1, <2>2, <2>3, <2>4, <2>5
<1>9. CASE Start \/ Stop \/ Crash
  BY <1>9, NoOpType DEF Start, Goto, Stop, Crash, backups, budget
<1>10. ASSUME NEW f \in Files, NEW v \in Values, Edit(f, v)
      PROVE  AnswerInv'
  BY <1>10, NoOpType DEF Edit, backups
<1>11. ASSUME NEW id \in Ids, DeleteSnapshot(id)
      PROVE  AnswerInv'
  BY <1>11, NoOpType DEF DeleteSnapshot, Ready, Tear, budget
<1>12. CASE Opens
  BY <1>12, NoOpType DEF Opens, Begin, Ready, backups, budget
<1>13. QED
  BY RequestForms, <1>1, <1>2, <1>3, <1>4, <1>5, <1>6, <1>7, <1>8, <1>9, <1>10, <1>11, <1>12
     DEF Next, Step, Internal, Controller

\* A step keeps what the last answer meant.
LEMMA AnsweredStep ==
  ASSUME StoreInv, DiskInv, AnswerInv, AnsweredIsBaseline, Next
  PROVE  AnsweredIsBaseline'
<1> USE DEF StoreInv, TypeOK, Operations, AnswerInv, AnsweredIsBaseline
<1>1. CASE Mkdir \/ MkdirFails \/ Fill \/ FillFails
  BY <1>1, NoOpType DEF Mkdir, MkdirFails, Fault, Failed, End, Goto,
     RollbackFailed, Fill, SnapshotImage, FillFails, backups, budget
<1>2. CASE Recheck \/ RecheckFails \/ WriteJournal \/ WriteJournalFails
  BY <1>2, NoOpType DEF Recheck, Unchanged, Goto, RecheckFails, Fault, End,
     WriteJournal, Journal, WriteJournalFails, backups, budget
<1>3. CASE Stage \/ Swap \/ Sync \/ ReplaceFails
  BY <1>3, NoOpType DEF Stage, Swap, Sync, Goto, ReplaceFails, Fault, Failed,
     End, RollbackFailed, backups, budget
<1>4. CASE ControlSucceeds \/ HealthSucceeds \/ ControllerFails
  BY <1>4, NoOpType DEF ControlSucceeds, Goto, HealthSucceeds, ControllerFails,
     Failed, End, RollbackFailed, backups, budget
<1>5. CASE SetBaseline \/ SetBaselineFails
  BY <1>5, NoOpType DEF SetBaseline, NewBaseline, End, Goto, SetBaselineFails,
     Fault, Failed, RollbackFailed, backups, budget
<1>6. CASE ClearPending \/ ClearPendingFails
  BY <1>6, NoOpType DEF ClearPending, End, Goto, ClearPendingFails, Fault,
     RollbackFailed, backups, budget
<1>7. CASE Rollback \/ RollbackReadFails
  BY <1>7, NoOpType DEF Rollback, RollbackReadFails, Fault, End, RollbackFailed,
     backups, budget
<1>8. CASE PruneOne \/ PruneDone \/ PruneFails \/ Unlink \/ UnlinkFails
  <2>1. CASE PruneOne
    BY <2>1, NoOpType DEF PruneOne, Tear, Victims, Complete, backups, budget
  <2>2. CASE PruneDone
    <3>1. op.kind \in {"apply", "record", "manual"} /\ reply' = PruneAnswer
          /\ UNCHANGED <<disk, saved, dirs, baseline, touched>>
      BY <2>2 DEF PruneDone, End, backups
    <3>2. reply' \in {"ok", "warning"} => op.kind \in {"apply", "record"}
      BY <3>1 DEF PruneAnswer
    <3>3. op.kind \in {"apply", "record"} => Loadable(baseline) /\ AgreeOff(touched, disk, saved[baseline])
      BY <2>2 DEF PruneDone
    <3> QED
      BY <3>1, <3>2, <3>3, BoundsAssumption DEF Loadable, AgreeOff
  <2>3. CASE PruneFails
    <3>1. op.kind \in {"apply", "record", "manual"}
          /\ reply' = (IF op.kind = "apply" THEN "warning" ELSE "error")
          /\ UNCHANGED <<disk, saved, dirs, baseline, touched>>
      BY <2>3 DEF PruneFails, PruneFailed, End, backups
    <3>2. reply' \in {"ok", "warning"} => op.kind = "apply"
      BY <3>1
    <3>3. op.kind = "apply" => Loadable(baseline) /\ AgreeOff(touched, disk, saved[baseline])
      BY <2>3 DEF PruneFails
    <3> QED
      BY <3>1, <3>2, <3>3, BoundsAssumption DEF Loadable, AgreeOff
  <2>4. CASE Unlink
    BY <2>4, NoOpType DEF Unlink, End, Goto, backups, budget
  <2>5. CASE UnlinkFails
    <3>1. reply' = (IF op.kind = "apply" THEN "warning" ELSE "error")
          /\ UNCHANGED <<disk, saved, baseline, touched>>
      BY <2>5 DEF UnlinkFails, PruneFailed, End, backups
    <3>2. reply' \in {"ok", "warning"} => op.kind = "apply"
      BY <3>1
    <3>3. op.kind = "apply" => Loadable(baseline) /\ AgreeOff(touched, disk, saved[baseline])
      BY <2>5 DEF UnlinkFails
    <3> QED
      BY <3>1, <3>2, <3>3, BoundsAssumption DEF Loadable, AgreeOff
  <2> QED
    BY <1>8, <2>1, <2>2, <2>3, <2>4, <2>5
<1>9. CASE Start \/ Stop \/ Crash
  BY <1>9, NoOpType DEF Start, Goto, Stop, Crash, backups, budget
<1>10. ASSUME NEW f \in Files, NEW v \in Values, Edit(f, v)
      PROVE  AnsweredIsBaseline'
  BY <1>10, NoOpType DEF Edit, backups
<1>11. ASSUME NEW id \in Ids, DeleteSnapshot(id)
      PROVE  AnsweredIsBaseline'
  BY <1>11, NoOpType DEF DeleteSnapshot, Ready, Tear, budget
<1>12. CASE Opens
  BY <1>12, NoOpType DEF Opens, Begin, Ready, backups, budget
<1>13. QED
  BY RequestForms, <1>1, <1>2, <1>3, <1>4, <1>5, <1>6, <1>7, <1>8, <1>9, <1>10, <1>11, <1>12
     DEF Next, Step, Internal, Controller

LEMMA AnswerInit == Init => AnswerInv /\ AnsweredIsBaseline
  BY DEF Init, AnswerInv, AnsweredIsBaseline

LEMMA AnswerStutter ==
  AnswerInv /\ AnsweredIsBaseline /\ UNCHANGED vars => AnswerInv' /\ AnsweredIsBaseline'
  BY DEF vars, AnswerInv, AnsweredIsBaseline, AgreeOff, Recording, Loadable

\* A save or Reload from disk that was answered leaves disk and managed baseline
\* equal, but for the files others wrote since: no drift nobody caused.
THEOREM AnswersAreTrue == Spec => []AnsweredIsBaseline
<1>1. StoreInv /\ DiskInv /\ AnswerInv /\ AnsweredIsBaseline /\ [Next]_vars
        => AnswerInv' /\ AnsweredIsBaseline'
  BY AnswerStep, AnsweredStep, AnswerStutter
<1> QED
  BY StoreInvariant, DiskInvariant, AnswerInit, <1>1, PTL DEF Spec

-----------------------------------------------------------------------------
\* The abstract actions, in terms of the view at the end of ConfigStore.

SameAccepted ==
  acceptedId' = acceptedId /\ (acceptedId # NoId => saved'[acceptedId] = saved[acceptedId])

SameView == phase' = phase /\ stable' = stable /\ SameAccepted

LEMMA Invisible ==
  ASSUME SameView,
         phase \in {"applying", "accepting"} => op'.to = op.to,
         phase \in {"applying", "undoing"} => touched' = touched
  PROVE  UNCHANGED Atomic!vars
BY DEF SameView, SameAccepted, Atomic!vars

LEMMA Dooms ==
  ASSUME phase = "applying", phase' = "undoing", stable' = stable, SameAccepted, touched' = touched
  PROVE  Atomic!Next
BY DEF SameAccepted, Atomic!Next, Atomic!Doom

LEMMA Undoes ==
  ASSUME phase \in {"applying", "undoing"}, phase' = "none", SameAccepted,
         stable' \in Images, AgreeOff(touched, stable', stable)
  PROVE  Atomic!Next
<1>1. Atomic!Undo
  BY DEF SameAccepted, AgreeOff, Atomic!Undo, Atomic!Applying, Atomic!Images, Atomic!AgreeOff, Atomic!Done
<1> QED
  BY <1>1 DEF Atomic!Next

LEMMA BeginsApply ==
  ASSUME phase = "none", phase' = "applying", stable' = stable, SameAccepted, touched' = {},
         op'.to \in Images
  PROVE  Atomic!Next
<1>1. Atomic!BeginApply(op'.to)
  BY DEF SameAccepted, Atomic!BeginApply
<1> QED
  BY <1>1 DEF Atomic!Next, Atomic!Images

LEMMA Commits ==
  ASSUME phase = "applying", phase' = "none", stable' \in Images, AgreeOff(touched, stable', op.to),
         acceptedId' # NoId, saved'[acceptedId'] = op.to
  PROVE  Atomic!Next
<1>1. Atomic!Commit
  BY DEF AgreeOff, Atomic!Commit, Atomic!Images, Atomic!AgreeOff, Atomic!Done
<1> QED
  BY <1>1 DEF Atomic!Next

LEMMA BeginsAccept ==
  ASSUME phase = "none", phase' = "accepting", stable' = stable, SameAccepted, op'.to = stable
  PROVE  Atomic!Next
<1>1. Atomic!BeginAccept
  BY DEF SameAccepted, Atomic!BeginAccept
<1> QED
  BY <1>1 DEF Atomic!Next

LEMMA Accepts ==
  ASSUME phase = "accepting", phase' = "none", stable' = stable,
         acceptedId' # NoId, saved'[acceptedId'] = op.to
  PROVE  Atomic!Next
<1>1. Atomic!Accept
  BY DEF Atomic!Accept, Atomic!Done
<1> QED
  BY <1>1 DEF Atomic!Next

LEMMA Abandons ==
  ASSUME phase = "accepting", phase' = "none", stable' = stable, SameAccepted
  PROVE  Atomic!Next
<1>1. Atomic!Abandon
  BY DEF SameAccepted, Atomic!Abandon, Atomic!Done
<1> QED
  BY <1>1 DEF Atomic!Next

\* An operation that has no journal yet and fails, or dies: accepting is over,
\* and of everything else nothing was to be seen.
LEMMA Forgets ==
  ASSUME SameAccepted, stable' = stable, phase \in {"none", "accepting"}, phase' = "none"
  PROVE  Atomic!Next \/ UNCHANGED Atomic!vars
<1>1. CASE phase = "none"
  BY <1>1, Invisible DEF SameView
<1>2. CASE phase = "accepting"
  BY <1>2, Abandons
<1> QED
  BY <1>1, <1>2

\* What a step with a journal, before and after it, shows.
LEMMA Journals ==
  ASSUME Journaled, Journaled', UNCHANGED <<saved, pending>>
  PROVE  SameAccepted /\ stable' = stable
BY DEF SameAccepted, stable, acceptedId, Journaled

\* And one without, before and after it, when no journal is about to be written.
LEMMA NoJournals ==
  ASSUME ~Journaled, ~Journaled', pc # "journal", pc' # "journal", UNCHANGED <<disk, baseline>>,
         baseline # NoId => saved'[baseline] = saved[baseline]
  PROVE  SameAccepted /\ stable' = stable /\ acceptedId = baseline /\ stable = disk
BY DEF SameAccepted, stable, acceptedId

LEMMA Shown ==
  ASSUME SameAccepted, stable' = stable, phase' = phase, UNCHANGED <<op, touched>>
  PROVE  UNCHANGED Atomic!vars
BY Invisible DEF SameView

\* A failure behind the journal: the change is doomed, if it was not before.
LEMMA FailedView ==
  ASSUME TypeOK, Shape, Journaled, UNCHANGED <<saved, pending, touched>>, Failed,
         op.dir \in {"forward", "back"}, pc # "rollback"
  PROVE  Atomic!Next \/ UNCHANGED Atomic!vars
<1>1. Journaled' /\ SameAccepted /\ stable' = stable
  BY Journals DEF Journaled
<1>2. CASE op.dir = "forward"
  <2>1. pc' = "rollback" /\ op' = op
    BY <1>2 DEF Failed, Goto
  <2>2. phase = "applying" /\ phase' = "undoing"
    BY <1>1, <1>2, <2>1 DEF phase
  <2> QED
    BY <1>1, <2>2, Dooms
<1>3. CASE op.dir = "back"
  <2>1. op' = NoOp
    BY <1>3 DEF Failed, RollbackFailed, End
  <2>2. phase = "undoing" /\ phase' = "undoing"
    BY <1>1, <1>3, <2>1 DEF phase, NoOp
  <2> QED
    BY <1>1, <2>2, Invisible DEF SameView
<1> QED
  BY <1>2, <1>3

\* A failure before it.
LEMMA FailedEarly ==
  ASSUME ~Journaled, ~Journaled', pc # "journal", op.dir = "none", Failed, UNCHANGED <<disk, baseline>>,
         baseline # NoId => saved'[baseline] = saved[baseline]
  PROVE  Atomic!Next \/ UNCHANGED Atomic!vars
<1>1. pc' = "idle" /\ op' = NoOp
  BY DEF Failed, End
<1>2. SameAccepted /\ stable' = stable
  BY <1>1, NoJournals
<1>3. phase \in {"none", "accepting"} /\ phase' = "none"
  BY <1>1 DEF phase, NoOp
<1> QED
  BY <1>2, <1>3, Forgets

\* Every step is an abstract step or invisible.
LEMMA AtomicStep ==
  ASSUME StoreInv, StoreInv', DiskInv, Next
  PROVE  Atomic!Next \/ UNCHANGED Atomic!vars
<1>0. TypeOK /\ Shape /\ Handles /\ JournalRecoverable /\ BaselineLoadable /\ TypeOK'
  BY DEF StoreInv
<1>1. CASE Mkdir \/ Stage \/ Swap \/ Sync \/ ControlSucceeds \/ HealthSucceeds
  <2>1. /\ UNCHANGED <<saved, baseline, pending, touched>>
        /\ op'.dir = op.dir /\ op'.kind = op.kind /\ op'.to = op.to
        /\ pc \in {"mkdir", "stage", "swap", "control", "health"}
        /\ pc' \in {"fill", "swap", "control", "health", "mkdir", "point"}
        /\ pc = "mkdir" => pc' = "fill" /\ disk' = disk
        /\ pc # "mkdir" => Journaled
    <3>1. op \in Operations
      BY <1>0 DEF TypeOK
    <3>2. CASE Mkdir
      BY <3>1, <3>2 DEF Mkdir, Operations
    <3>3. CASE Stage
      BY <1>0, <3>1, <3>3 DEF Stage, backups, Operations, Shape
    <3>4. CASE Swap
      BY <1>0, <3>1, <3>4 DEF Swap, backups, Operations, Shape
    <3>5. CASE Sync \/ ControlSucceeds \/ HealthSucceeds
      BY <1>0, <3>1, <3>5 DEF Sync, ControlSucceeds, HealthSucceeds, Goto, backups, Operations, Shape
    <3> QED
      BY <1>1, <3>2, <3>3, <3>4, <3>5
  <2>2. Journaled' <=> Journaled
    BY <2>1 DEF Journaled
  <2>3. phase' = phase
    BY <2>1, <2>2 DEF phase
  <2>4. SameAccepted /\ stable' = stable
    <3>1. CASE Journaled
      BY <2>1, <2>2, <3>1, Journals
    <3>2. CASE ~Journaled
      BY <2>1, <2>2, <3>2, NoJournals
    <3> QED
      BY <3>1, <3>2
  <2> QED
    BY <2>1, <2>3, <2>4, Invisible DEF SameView
<1>2. CASE MkdirFails
  <2>1. /\ pc = "mkdir" /\ Failed /\ UNCHANGED <<disk, saved, baseline, pending, touched>>
        /\ op.dir \in {"none", "forward"} /\ (op.dir = "none" <=> ~Journaled)
    BY <1>0, <1>2 DEF MkdirFails, backups, Shape, Planning, BackingUp, Recording, Forward
  <2> QED
    BY <1>0, <2>1, FailedEarly, FailedView DEF Journaled
<1>3. CASE Fill
  <2>1. /\ pc = "fill" /\ pc' = op.then /\ op.id \in Ids /\ dirs[op.id] = "torn"
        /\ UNCHANGED <<disk, baseline, pending, touched, op>>
        /\ saved' = [saved EXCEPT ![op.id] = SnapshotImage]
    BY <1>0, <1>3 DEF Fill, Goto, Handles
  <2>2. \A id \in Ids : Loadable(id) => saved'[id] = saved[id]
    BY <1>0, <2>1 DEF Loadable, TypeOK
  <2>3. \/ Journaled /\ op.dir = "forward" /\ pc' = "point"
        \/ ~Journaled /\ pc' = "point" /\ Recording
        \/ ~Journaled /\ pc' \in {"recheck", "prune"} /\ op.kind \in {"apply", "manual"}
    BY <1>0, <2>1 DEF Shape, Planning, BackingUp, Recording, Forward
  <2>4. (Journaled' <=> Journaled) /\ phase' = phase
    BY <2>1, <2>3 DEF Journaled, phase, Recording
  <2>5. SameAccepted /\ stable' = stable
    <3>1. CASE Journaled
      BY <1>0, <2>1, <2>2, <2>4, <3>1
         DEF SameAccepted, stable, acceptedId, JournalRecoverable, Journaled, Loadable
    <3>2. CASE ~Journaled
      BY <1>0, <2>1, <2>2, <2>3, <2>4, <3>2, NoJournals DEF BaselineLoadable, Loadable
    <3> QED
      BY <3>1, <3>2
  <2> QED
    BY <2>1, <2>4, <2>5, Shown
<1>4. CASE FillFails
  <2>1. PICK left \in {"none", "torn", "complete"} :
          saved' = IF left = "complete" THEN [saved EXCEPT ![op.id] = SnapshotImage] ELSE saved
    BY <1>4 DEF FillFails
  <2>2. /\ pc = "fill" /\ Failed /\ op.id \in Ids /\ dirs[op.id] = "torn"
        /\ UNCHANGED <<disk, baseline, pending, touched>>
        /\ op.dir \in {"none", "forward"} /\ (op.dir = "none" <=> ~Journaled)
    BY <1>0, <1>4 DEF FillFails, Handles, Shape, Planning, BackingUp, Recording, Forward
  <2>3. \A id \in Ids : Loadable(id) => saved'[id] = saved[id]
    BY <1>0, <2>1, <2>2 DEF Loadable, TypeOK
  <2>4. CASE ~Journaled
    <3>1. ~Journaled' /\ (baseline # NoId => saved'[baseline] = saved[baseline])
      BY <1>0, <2>2, <2>3, <2>4 DEF Journaled, BaselineLoadable, Loadable
    <3> QED
      BY <2>2, <2>4, <3>1, FailedEarly
  <2>5. CASE Journaled
    <3>1. pc' = "rollback" /\ op' = op
      BY <2>2, <2>5 DEF Failed, Goto
    <3>2. phase = "applying" /\ phase' = "undoing"
      BY <2>2, <2>5, <3>1 DEF phase, Journaled
    <3>3. SameAccepted /\ stable' = stable
      BY <1>0, <2>2, <2>3, <2>5 DEF SameAccepted, stable, acceptedId, JournalRecoverable, Journaled, Loadable
    <3> QED
      BY <2>2, <3>2, <3>3, Dooms
  <2> QED
    BY <2>4, <2>5
<1>5. CASE Recheck
  <2>1. /\ pc = "recheck" /\ pc' = "journal" /\ disk = op.from /\ touched' = {}
        /\ UNCHANGED <<disk, saved, baseline, pending, op>>
        /\ ~Journaled /\ ~Journaled' /\ Planning
    BY <1>0, <1>5 DEF Recheck, Unchanged, Goto, backups, Shape, Journaled
  <2>2. phase = "none" /\ phase' = "applying"
    BY <2>1 DEF phase, Planning
  <2>3. SameAccepted /\ stable' = stable
    BY <2>1 DEF SameAccepted, stable, acceptedId
  <2>4. op'.to \in Images
    BY <1>0, <2>1 DEF TypeOK, Operations
  <2> QED
    BY <2>1, <2>2, <2>3, <2>4, BeginsApply
<1>6. CASE RecheckFails
  <2>1. /\ pc = "recheck" /\ pc' = "idle" /\ op' = NoOp
        /\ UNCHANGED <<disk, saved, baseline, pending, touched>>
        /\ ~Journaled /\ ~Journaled' /\ Planning
    BY <1>0, <1>6 DEF RecheckFails, End, backups, Shape, Journaled
  <2>2. phase = "none" /\ phase' = "none"
    BY <2>1 DEF phase, Planning, NoOp
  <2> QED
    BY <2>1, <2>2, NoJournals, Forgets
<1>7. CASE WriteJournal
  <2>1. /\ pc = "journal" /\ pc' = "stage" /\ op' = [op EXCEPT !.dir = "forward"]
        /\ UNCHANGED <<disk, saved, baseline, touched>>
        /\ pending' = [snap |-> op.id, base |-> baseline]
        /\ ~Journaled /\ Loadable(op.id) /\ saved[op.id] = op.from
    BY <1>0, <1>7 DEF WriteJournal, Journal, backups, Shape, Handles
  <2>2. Journaled' /\ op'.dir = "forward" /\ op'.to = op.to
    BY <1>0, <2>1 DEF Journaled, NoJournal, Loadable, TypeOK, Operations
  <2>3. phase = "applying" /\ phase' = "applying"
    BY <2>1, <2>2 DEF phase
  <2>4. SameAccepted /\ stable' = stable
    BY <2>1, <2>2 DEF SameAccepted, stable, acceptedId
  <2> QED
    BY <2>1, <2>2, <2>3, <2>4, Invisible DEF SameView
<1>8. CASE WriteJournalFails
  <2>1. /\ pc = "journal" /\ pc' = "idle" /\ op' = NoOp
        /\ UNCHANGED <<disk, saved, baseline, touched>>
        /\ pending' \in {pending, [snap |-> op.id, base |-> baseline]}
        /\ ~Journaled /\ Loadable(op.id) /\ saved[op.id] = op.from
    BY <1>0, <1>8 DEF WriteJournalFails, Journal, End, backups, Shape, Handles
  <2>2. phase = "applying" /\ stable = op.from /\ acceptedId = baseline
    BY <2>1 DEF phase, stable, acceptedId
  <2>3. CASE pending' = pending
    <3>1. ~Journaled' /\ phase' = "none" /\ stable' = disk /\ acceptedId' = baseline
      BY <2>1, <2>3 DEF Journaled, phase, stable, acceptedId, NoOp
    <3>2. AgreeOff(touched, disk, op.from) /\ disk \in Images
      BY <1>0, <2>1 DEF DiskInv, TypeOK
    <3> QED
      BY <2>1, <2>2, <3>1, <3>2, Undoes DEF SameAccepted
  <2>4. CASE pending' = [snap |-> op.id, base |-> baseline]
    <3>1. Journaled'
      BY <2>1, <2>4 DEF Journaled, NoJournal, Loadable
    <3>2. phase' = "undoing" /\ stable' = stable /\ SameAccepted
      BY <2>1, <2>2, <2>4, <3>1 DEF phase, stable, acceptedId, NoOp, SameAccepted
    <3> QED
      BY <2>1, <2>2, <3>2, Dooms
  <2> QED
    BY <2>1, <2>3, <2>4
<1>9. CASE ReplaceFails \/ ControllerFails
  <2>1. /\ pc \in {"stage", "swap", "control", "health"} /\ Failed
        /\ UNCHANGED <<saved, pending, touched>>
        /\ Journaled /\ op.dir \in {"forward", "back"}
    BY <1>0, <1>9 DEF ReplaceFails, ControllerFails, backups, Shape, Forward, Back
  <2> QED
    BY <1>0, <2>1, FailedView
<1>10. CASE SetBaseline
  <2>1. /\ pc = "point" /\ baseline' = NewBaseline
        /\ UNCHANGED <<disk, saved, pending, touched>> /\ (Journaled' <=> Journaled)
    BY <1>10 DEF SetBaseline, backups, Journaled
  <2>2. CASE Recording /\ ~Journaled
    <3>1. /\ baseline' = op.id /\ op.id # NoId /\ saved[op.id] = op.to
          /\ pc' \in {"idle", "prune"} /\ (pc' = "idle" => op' = NoOp)
      BY <1>0, <1>10, <2>1, <2>2
         DEF SetBaseline, NewBaseline, End, Goto, Handles, Recording, Loadable
    <3>2. phase = "accepting" /\ phase' = "none" /\ stable' = stable /\ acceptedId' = op.id
      BY <2>1, <2>2, <3>1 DEF phase, stable, acceptedId, Recording
    <3> QED
      BY <2>1, <3>1, <3>2, Accepts
  <2>3. CASE (Forward \/ Back) /\ Journaled
    <3>1. pc' = "clear" /\ op' = op
      BY <1>10, <2>3 DEF SetBaseline, Goto, Forward, Back
    <3>2. phase' = phase
      BY <2>1, <2>3, <3>1 DEF phase, Forward, Back
    <3> QED
      BY <2>1, <2>3, <3>1, <3>2, Journals, Shown
  <2> QED
    BY <1>0, <2>1, <2>2, <2>3 DEF Shape
<1>11. CASE SetBaselineFails
  <2>1. /\ pc = "point" /\ Failed
        /\ UNCHANGED <<disk, saved, pending, touched>> /\ (Journaled' <=> Journaled)
    BY <1>11 DEF SetBaselineFails, backups, Journaled
  <2>2. CASE Recording /\ ~Journaled
    <3>1. /\ pc' = "idle" /\ op' = NoOp /\ op.id # NoId /\ saved[op.id] = op.to
          /\ baseline' \in {baseline, op.id}
      BY <1>0, <1>11, <2>1, <2>2
         DEF SetBaselineFails, NewBaseline, Failed, End, Handles, Recording, Loadable
    <3>2. phase = "accepting" /\ phase' = "none" /\ stable' = stable
          /\ acceptedId = baseline /\ acceptedId' = baseline'
      BY <2>1, <2>2, <3>1 DEF phase, stable, acceptedId, Recording, NoOp
    <3>3. CASE baseline' = op.id
      BY <2>1, <3>1, <3>2, <3>3, Accepts
    <3>4. CASE baseline' = baseline
      BY <2>1, <3>2, <3>4, Abandons DEF SameAccepted
    <3> QED
      BY <3>1, <3>3, <3>4
  <2>3. CASE (Forward \/ Back) /\ Journaled
    <3>1. op.dir \in {"forward", "back"}
      BY <2>3 DEF Forward, Back
    <3> QED
      BY <1>0, <2>1, <2>3, <3>1, FailedView
  <2> QED
    BY <1>0, <2>1, <2>2, <2>3 DEF Shape
<1>12. CASE ClearPending \/ ClearPendingFails
  <2>1. /\ pc = "clear" /\ Journaled /\ (Forward \/ Back)
        /\ UNCHANGED <<disk, saved, baseline, touched>>
        /\ pending' \in {pending, NoJournal}
        /\ stable = saved[pending.snap] /\ acceptedId = pending.base
        /\ AgreeOff(touched, disk, op.to) /\ disk \in Images
    BY <1>0, <1>12 DEF ClearPending, ClearPendingFails, backups, Shape, stable, acceptedId, DiskInv, TypeOK
  <2>2. \/ op' = NoOp /\ pc' \in {"idle", "down"}
        \/ op' = op /\ pc' = "prune" /\ op.dir = "forward" /\ pending' = NoJournal
    BY <1>12 DEF ClearPending, ClearPendingFails, Goto, End, RollbackFailed
  <2>3. CASE pending' = NoJournal
    <3>1. ~Journaled' /\ stable' = disk /\ acceptedId' = baseline
      BY <2>1, <2>2, <2>3 DEF Journaled, stable, acceptedId
    <3>2. phase' = "none"
      BY <2>2, <3>1, <2>1 DEF phase, NoOp
    <3>3. CASE Forward
      <4>1. baseline # NoId /\ saved[baseline] = op.to
        BY <1>0, <2>1, <3>3 DEF Handles, Loadable, Forward
      <4>2. phase = "applying"
        BY <2>1, <3>3 DEF phase, Forward
      <4> QED
        BY <2>1, <3>1, <3>2, <4>1, <4>2, Commits
    <3>4. CASE Back
      <4>1. baseline = pending.base /\ saved[pending.snap] = op.to
        BY <1>0, <2>1, <3>4 DEF Handles, DiskInv, Back
      <4>2. phase = "undoing"
        BY <2>1, <3>4 DEF phase, Back
      <4> QED
        BY <2>1, <3>1, <3>2, <4>1, <4>2, Undoes DEF SameAccepted
    <3> QED
      BY <2>1, <3>3, <3>4
  <2>4. CASE pending' = pending
    <3>1. Journaled' /\ op' = NoOp
      BY <2>1, <2>2, <2>4 DEF Journaled
    <3>2. phase' = "undoing" /\ SameAccepted /\ stable' = stable
      BY <2>1, <2>4, <3>1, Journals DEF phase, NoOp
    <3>3. CASE phase = "applying"
      BY <2>1, <3>2, <3>3, Dooms
    <3>4. CASE phase = "undoing"
      BY <2>1, <3>2, <3>4, Invisible DEF SameView
    <3> QED
      BY <2>1, <3>3, <3>4 DEF phase
  <2> QED
    BY <2>1, <2>3, <2>4
<1>13. CASE Rollback \/ RollbackReadFails
  <2>1. /\ pc = "rollback" /\ Journaled /\ Journaled'
        /\ UNCHANGED <<saved, pending, touched>>
    BY <1>0, <1>13 DEF Rollback, RollbackReadFails, backups, Shape, Journaled
  <2>2. op'.dir # "forward"
    <3>1. op \in Operations
      BY <1>0 DEF TypeOK
    <3>2. CASE Rollback
      BY <3>1, <3>2 DEF Rollback, Operations
    <3>3. CASE RollbackReadFails
      BY <3>3 DEF RollbackReadFails, RollbackFailed, End, NoOp
    <3> QED
      BY <1>13, <3>2, <3>3
  <2>3. phase = "undoing" /\ phase' = "undoing"
    BY <2>1, <2>2 DEF phase
  <2> QED
    BY <2>1, <2>3, Journals, Invisible DEF SameView
<1>14. CASE PruneOne \/ PruneDone \/ PruneFails \/ Unlink \/ UnlinkFails
  <2>1. /\ pc \in {"prune", "unlink"} /\ pc' \in {"prune", "unlink", "idle"}
        /\ ~Journaled /\ ~Journaled'
        /\ UNCHANGED <<disk, baseline, pending, touched>>
    BY <1>0, <1>14 DEF PruneOne, PruneDone, PruneFails, Unlink, UnlinkFails, PruneFailed, End, Goto,
       backups, Shape, Journaled
  <2>2. baseline # NoId => saved'[baseline] = saved[baseline]
    <3>1. CASE PruneOne
      BY <1>0, <3>1 DEF PruneOne, Tear, Victims, TypeOK
    <3>2. CASE PruneDone \/ PruneFails \/ Unlink \/ UnlinkFails
      BY <3>2 DEF PruneDone, PruneFails, Unlink, UnlinkFails, backups
    <3> QED
      BY <1>14, <3>1, <3>2
  <2>3. phase = "none" /\ phase' = "none"
    BY <2>1 DEF phase
  <2> QED
    BY <2>1, <2>2, <2>3, NoJournals, Forgets
<1>15. CASE Start \/ Stop
  <2>1. /\ pc \in {"down", "idle"} /\ op = NoOp /\ op'.dir = "none"
        /\ pc' \in {"idle", "rollback", "down"} /\ UNCHANGED <<disk, saved, baseline, pending, touched>>
        /\ (Journaled' <=> Journaled)
    BY <1>0, <1>15 DEF Start, Stop, Goto, backups, Shape, Journaled, NoOp
  <2>2. CASE Journaled
    <3>1. phase = "undoing" /\ phase' = "undoing"
      BY <2>1, <2>2 DEF phase, NoOp
    <3> QED
      BY <2>1, <2>2, <3>1, Journals, Invisible DEF SameView
  <2>3. CASE ~Journaled
    <3>1. phase = "none" /\ phase' = "none"
      BY <2>1, <2>3 DEF phase
    <3> QED
      BY <2>1, <2>3, <3>1, NoJournals, Forgets
  <2> QED
    BY <2>2, <2>3
<1>16. CASE Crash
  <2>1. /\ pc' = "down" /\ op' = NoOp /\ UNCHANGED <<disk, saved, baseline, pending, touched>>
        /\ (Journaled' <=> Journaled)
    BY <1>16 DEF Crash, backups, Journaled
  <2>2. CASE Journaled
    <3>1. phase \in {"applying", "undoing"} /\ phase' = "undoing"
      BY <2>1, <2>2 DEF phase, NoOp
    <3>2. SameAccepted /\ stable' = stable
      BY <2>1, <2>2, Journals
    <3> QED
      BY <2>1, <3>1, <3>2, Dooms, Invisible DEF SameView
  <2>3. CASE ~Journaled /\ pc = "journal"
    <3>1. /\ phase = "applying" /\ phase' = "none" /\ stable = op.from /\ stable' = disk
          /\ acceptedId = baseline /\ acceptedId' = baseline
      BY <2>1, <2>3 DEF phase, stable, acceptedId, NoOp
    <3>2. AgreeOff(touched, disk, op.from) /\ disk \in Images
      BY <1>0, <2>3 DEF DiskInv, TypeOK
    <3> QED
      BY <2>1, <3>1, <3>2, Undoes DEF SameAccepted
  <2>4. CASE ~Journaled /\ pc # "journal"
    <3>1. phase \in {"none", "accepting"} /\ phase' = "none"
      BY <2>1, <2>4 DEF phase, NoOp
    <3> QED
      BY <2>1, <2>4, <3>1, NoJournals, Forgets
  <2> QED
    BY <2>2, <2>3, <2>4
<1>17. ASSUME NEW f \in Files, NEW v \in Values, Edit(f, v)
       PROVE  Atomic!Next \/ UNCHANGED Atomic!vars
  <2>1. /\ UNCHANGED <<saved, baseline, pending, pc, op>>
        /\ disk' = [disk EXCEPT ![f] = v]
        /\ touched' = touched \union {f}
    BY <1>17 DEF Edit, backups
  <2>2. UNCHANGED <<phase, acceptedId>>
    BY <2>1 DEF phase, acceptedId, Journaled
  <2>3. CASE phase \in {"applying", "undoing"}
    <3>1. UNCHANGED stable
      BY <2>1, <2>3 DEF phase, stable, Journaled
    <3>2. Atomic!Edit(f, v)
      BY <2>1, <2>2, <2>3, <3>1 DEF Atomic!Edit, Atomic!Applying
    <3> QED
      BY <3>2 DEF Atomic!Next
  <2>4. CASE phase \notin {"applying", "undoing"}
    <3>1. stable = disk /\ stable' = disk'
      BY <2>1, <2>4 DEF phase, stable, Journaled
    <3>2. Atomic!Edit(f, v)
      BY <2>1, <2>2, <2>4, <3>1 DEF Atomic!Edit, Atomic!Applying
    <3> QED
      BY <3>2 DEF Atomic!Next
  <2> QED
    BY <2>3, <2>4
<1>18. ASSUME NEW id \in Ids, DeleteSnapshot(id)
       PROVE  Atomic!Next \/ UNCHANGED Atomic!vars
  <2>1. /\ pc = "idle" /\ pc' = "unlink" /\ ~Journaled /\ ~Journaled' /\ id # baseline
        /\ UNCHANGED <<disk, baseline, pending>>
        /\ saved' = [saved EXCEPT ![id] = EmptyImage]
    BY <1>18 DEF DeleteSnapshot, Ready, Tear, Journaled
  <2>2. baseline # NoId => saved'[baseline] = saved[baseline]
    BY <1>0, <2>1 DEF TypeOK
  <2>3. phase = "none" /\ phase' = "none"
    BY <2>1 DEF phase
  <2> QED
    BY <2>1, <2>2, <2>3, NoJournals, Forgets
<1>19. CASE Opens
  <2>1. PICK kt \in {<<"apply", "recheck">>, <<"record", "point">>, <<"initial", "point">>,
                     <<"manual", "prune">>}, to \in Images :
          /\ Ready
          /\ kt[2] = "recheck" \/ to = disk
          /\ Begin(kt[1], kt[2], disk, to)
    BY <1>19 DEF Opens
  <2>2. /\ pc = "idle" /\ pc' = "mkdir" /\ ~Journaled /\ ~Journaled'
        /\ UNCHANGED <<disk, saved, baseline, pending>> /\ touched' = {}
        /\ op'.kind = kt[1] /\ op'.dir = "none" /\ op'.to = to
    BY <2>1 DEF Ready, Begin, NoOp, backups, Journaled
  <2>3. SameAccepted /\ stable' = stable /\ stable = disk
    BY <2>2, NoJournals
  <2>4. phase = "none"
    BY <2>2 DEF phase
  <2>5. CASE kt[1] \in {"record", "initial"}
    <3>1. phase' = "accepting"
      BY <2>2, <2>5 DEF phase
    <3> QED
      BY <2>1, <2>2, <2>3, <2>4, <2>5, <3>1, BeginsAccept
  <2>6. CASE kt[1] \notin {"record", "initial"}
    <3>1. phase' = "none"
      BY <2>2, <2>6 DEF phase
    <3> QED
      BY <2>3, <2>4, <3>1, Forgets
  <2> QED
    BY <2>5, <2>6
<1> QED
  BY <1>0, RequestForms, <1>1, <1>2, <1>3, <1>4, <1>5, <1>6, <1>7, <1>8, <1>9, <1>10, <1>11, <1>12,
     <1>13, <1>14, <1>15, <1>16, <1>17, <1>18, <1>19 DEF Next, Step, Internal, Controller

LEMMA AtomicInit == Init => Atomic!Init
  BY DEF Init, Atomic!Init, Atomic!Images, stable, phase, acceptedId, Journaled,
         NoJournal, NoOp

LEMMA AtomicStutter == UNCHANGED vars => UNCHANGED Atomic!vars
  BY DEF vars, Atomic!vars, phase, stable, acceptedId, Journaled

\* The store implements the abstract specification: the disk and the managed
\* baseline change together or not at all.
THEOREM AtomicityHolds == Spec => Atomicity
<1>1. StoreInv /\ StoreInv' /\ DiskInv /\ [Next]_vars => [Atomic!Next]_(Atomic!vars)
  BY AtomicStep, AtomicStutter
<1> QED
  BY StoreInvariant, DiskInvariant, AtomicInit, <1>1, PTL DEF Spec, Atomicity, Atomic!Spec

-----------------------------------------------------------------------------
\* Retention counts snapshots and compares their times.

HIDE DEF Values, Images, Ids, NoId

LEMMA IdsFinite == \A S \in SUBSET Ids : IsFiniteSet(S)
<1>1. IsFiniteSet(1 .. MaxId)
  BY FS_Interval, BoundsAssumption
<1> QED
  BY <1>1, FS_Subset DEF Ids

\* A finite set that is not empty has a member with the least score: among the
\* sets of those below a member, take one no other of these sets is smaller than.
LEMMA LeastExists ==
  ASSUME NEW S, IsFiniteSet(S), S # {}, NEW score, \A x \in S : score[x] \in Nat
  PROVE  \E x \in S : \A y \in S : score[x] <= score[y]
<1> DEFINE Below(x) == {y \in S : score[y] < score[x]}
           T == {Below(x) : x \in S}
<1>1. T \subseteq FiniteSubsetsOf(S)
  BY FS_Subset DEF FiniteSubsetsOf
<1>2. IsWellFoundedOn(StrictSubsetOrdering(S), FiniteSubsetsOf(S))
  BY FS_StrictSubsetOrderingWellFounded
<1>3. T # {}
  OBVIOUS
<1>4. PICK smallest \in T : \A other \in T : <<other, smallest>> \notin StrictSubsetOrdering(S)
  <2> HIDE DEF T
  <2> QED
    BY <1>1, <1>2, <1>3, WFMin
<1>5. PICK x \in S : smallest = Below(x)
  OBVIOUS
<1>6. ASSUME NEW y \in S, score[y] < score[x]
      PROVE  FALSE
  <2>1. Below(y) \subseteq Below(x) /\ y \in Below(x) /\ y \notin Below(y)
    BY <1>6
  <2>2. <<Below(y), Below(x)>> \in StrictSubsetOrdering(S)
    BY <2>1 DEF StrictSubsetOrdering
  <2> QED
    BY <1>4, <1>5, <2>2
<1> QED
  BY <1>6

LEMMA OldestExists ==
  ASSUME NEW S \in SUBSET Ids, S # {}
  PROVE  \E id \in S : \A j \in S : CreatedAt[id] <= CreatedAt[j]
BY IdsFinite, LeastExists, ClockAssumption

\* Only the end of a retention pass gives one of these answers, and while it
\* stands no snapshot comes or goes.
LEMMA AnswerForms ==
  ASSUME AnswerInv, Next
  PROVE  reply' \notin {"ok", "saved"} \/ PruneDone \/ UNCHANGED <<dirs, reply, next>>
<1> USE DEF AnswerInv
<1>1. CASE Mkdir \/ MkdirFails \/ Fill \/ FillFails
  BY <1>1 DEF Mkdir, MkdirFails, Fill, FillFails, Failed, End, Goto, RollbackFailed
<1>2. CASE Recheck \/ RecheckFails \/ WriteJournal \/ WriteJournalFails
  BY <1>2 DEF Recheck, RecheckFails, WriteJournal, WriteJournalFails, Goto, End
<1>3. CASE Stage \/ Swap \/ Sync \/ ReplaceFails
  BY <1>3 DEF Stage, Swap, Sync, ReplaceFails, Goto, Failed, End, RollbackFailed
<1>4. CASE ControlSucceeds \/ HealthSucceeds \/ ControllerFails
  BY <1>4 DEF ControlSucceeds, HealthSucceeds, ControllerFails, Goto, Failed, End, RollbackFailed
<1>5. CASE SetBaseline \/ SetBaselineFails
  BY <1>5 DEF SetBaseline, SetBaselineFails, Goto, Failed, End, RollbackFailed
<1>6. CASE ClearPending \/ ClearPendingFails
  BY <1>6 DEF ClearPending, ClearPendingFails, Goto, End, RollbackFailed
<1>7. CASE Rollback \/ RollbackReadFails
  BY <1>7 DEF Rollback, RollbackReadFails, End, RollbackFailed
<1>8. CASE PruneOne \/ PruneFails \/ Unlink \/ UnlinkFails
  BY <1>8 DEF PruneOne, PruneFails, Unlink, UnlinkFails, PruneFailed, End, Goto
<1>9. CASE Start \/ Stop \/ Crash
  BY <1>9 DEF Start, Stop, Crash, Goto, backups
<1>10. ASSUME NEW f \in Files, NEW v \in Values, Edit(f, v)
       PROVE  UNCHANGED <<dirs, reply, next>>
  BY <1>10 DEF Edit, backups
<1>11. CASE Request
  BY <1>11 DEF Request, Submit, Apply, Restore, AcceptDisk, Snapshot, Baseline, DeleteSnapshot, Begin
<1> QED
  BY <1>1, <1>2, <1>3, <1>4, <1>5, <1>6, <1>7, <1>8, <1>9, <1>10, <1>11
     DEF Next, Step, Internal, Controller

LEMMA RetentionStep ==
  ASSUME StoreInv, AnswerInv, Retention, Next, Keep >= 1
  PROVE  Retention'
<1>1. CASE UNCHANGED <<dirs, reply, next>>
  BY <1>1 DEF Retention, Complete, Torn
<1>2. CASE PruneDone
  <2>1. dirs' = dirs /\ Torn = {} /\ (~Surplus \/ Victims = {})
    BY <1>2 DEF PruneDone, backups
  <2>2. IsFiniteSet(Complete) /\ Cardinality(Complete) \in Nat
    BY IdsFinite, FS_CardinalityType DEF Complete
  <2>3. CASE Victims = {}
    <3>1. Complete \ {baseline} = {}
      BY <2>3, OldestExists DEF Victims, Complete
    <3>2. Complete \subseteq {baseline}
      BY <3>1
    <3>3. Cardinality(Complete) <= 1
      <4>1. IsFiniteSet({baseline}) /\ Cardinality({baseline}) = 1
        BY FS_Singleton
      <4> QED
        BY <3>2, <4>1, FS_Subset
    <3> QED
      BY <2>1, <2>2, <3>3, BoundsAssumption DEF Retention, Complete, Torn
  <2>4. CASE ~Surplus
    BY <2>1, <2>2, <2>4, BoundsAssumption DEF Surplus, Retention, Complete, Torn
  <2> QED
    BY <2>1, <2>3, <2>4
<1> QED
  BY <1>1, <1>2, AnswerForms DEF Retention

\* A request answered without a warning leaves at most Keep snapshots, all of
\* them loadable, whatever failed before it.
THEOREM RetentionHolds == Keep >= 1 /\ Spec => []Retention
<1>1. Init => AnswerInv /\ Retention
  BY AnswerInit DEF Init, Retention
<1>2. Keep >= 1 /\ StoreInv /\ DiskInv /\ AnswerInv /\ Retention /\ [Next]_vars
        => AnswerInv' /\ Retention'
  <2>1. UNCHANGED vars /\ AnswerInv /\ Retention => AnswerInv' /\ Retention'
    BY DEF vars, backups, AnswerInv, AgreeOff, Recording, Loadable, Retention, Complete, Torn
  <2> QED
    BY <2>1, AnswerStep, RetentionStep
<1>3. ASSUME Keep >= 1
      PROVE  Spec => []Retention
  BY <1>3, <1>1, <1>2, StoreInvariant, DiskInvariant, PTL DEF Spec
<1> QED
  BY <1>3

-----------------------------------------------------------------------------
\* The clock does not run backwards between two snapshots, and there is room
\* for the new one beside the one the baseline pins.
ClockAndRoom ==
  Keep >= 2 /\ \A i, j \in Ids : i < j => CreatedAt[i] < CreatedAt[j]

\* The snapshot of a manual backup is the newest and stays during retention.
BackupInv ==
  /\ op.kind = "manual" /\ pc = "fill" => op.id = next - 1
  /\ op.kind = "manual" /\ pc \in {"prune", "unlink"} => Loadable(next - 1)

\* The oldest snapshot that may go is not the new one.
LEMMA VictimIsOlder ==
  ASSUME StoreInv, ClockAndRoom, Loadable(next - 1), Surplus, NEW id \in Victims
  PROVE  id # next - 1
<1> SUFFICES ASSUME id = next - 1
             PROVE  FALSE
  OBVIOUS
<1>1. Complete \subseteq {baseline, next - 1}
  <2> SUFFICES ASSUME NEW j \in Complete, j # baseline, j # next - 1
               PROVE  FALSE
    OBVIOUS
  <2>1. j \in Ids /\ dirs[j] = "complete" /\ next \in Nat
    BY BoundsAssumption DEF Complete, StoreInv, TypeOK, Ids
  <2>2. j < next - 1
    BY <2>1 DEF StoreInv, FreshIds, Ids
  <2>3. next - 1 \in Ids
    BY DEF Loadable
  <2>4. CreatedAt[j] < CreatedAt[next - 1]
    BY <2>1, <2>2, <2>3 DEF ClockAndRoom
  <2>5. CreatedAt[next - 1] <= CreatedAt[j]
    BY DEF Victims
  <2> QED
    BY <2>1, <2>3, <2>4, <2>5, ClockAssumption
<1>2. IsFiniteSet({baseline, next - 1}) /\ Cardinality({baseline, next - 1}) <= 2
  <2>1. IsFiniteSet({baseline}) /\ Cardinality({baseline}) = 1
    BY FS_Singleton
  <2>2. {baseline} \union {next - 1} = {baseline, next - 1}
    OBVIOUS
  <2> QED
    BY <2>1, <2>2, FS_AddElement
<1>3. Cardinality(Complete) <= Cardinality({baseline, next - 1}) /\ IsFiniteSet(Complete)
  BY <1>1, <1>2, FS_Subset
<1>4. Cardinality(Complete) \in Nat /\ Cardinality({baseline, next - 1}) \in Nat
  BY <1>2, <1>3, FS_CardinalityType
<1> QED
  BY <1>2, <1>3, <1>4, BoundsAssumption DEF Surplus, ClockAndRoom

LEMMA BackupStep ==
  ASSUME StoreInv, BackupInv, ClockAndRoom, Next
  PROVE  BackupInv'
<1> USE DEF BackupInv, StoreInv, TypeOK, Operations, Shape, Handles, Loadable, NoOp,
      Planning, BackingUp, Recording, Forward, Back
<1>1. CASE Mkdir \/ MkdirFails \/ Fill \/ FillFails
  <2>1. CASE Mkdir
    BY <2>1, BoundsAssumption DEF Mkdir, Ids
  <2>2. CASE Fill
    BY <2>2 DEF Fill, Goto
  <2>3. CASE MkdirFails \/ FillFails
    BY <2>3 DEF MkdirFails, FillFails, Failed, End, Goto, RollbackFailed
  <2> QED
    BY <1>1, <2>1, <2>2, <2>3
<1>2. CASE Recheck \/ RecheckFails \/ WriteJournal \/ WriteJournalFails
  BY <1>2 DEF Recheck, RecheckFails, WriteJournal, WriteJournalFails, Goto, End
<1>3. CASE Stage \/ Swap \/ Sync \/ ReplaceFails
  BY <1>3 DEF Stage, Swap, Sync, ReplaceFails, Goto, Failed, End, RollbackFailed
<1>4. CASE ControlSucceeds \/ HealthSucceeds \/ ControllerFails
  BY <1>4 DEF ControlSucceeds, HealthSucceeds, ControllerFails, Goto, Failed, End, RollbackFailed
<1>5. CASE SetBaseline \/ SetBaselineFails
  BY <1>5 DEF SetBaseline, SetBaselineFails, Goto, Failed, End, RollbackFailed
<1>6. CASE ClearPending \/ ClearPendingFails
  BY <1>6 DEF ClearPending, ClearPendingFails, Goto, End, RollbackFailed
<1>7. CASE Rollback \/ RollbackReadFails
  BY <1>7 DEF Rollback, RollbackReadFails, End, RollbackFailed
<1>8. CASE PruneOne
  <2>1. PICK id \in Victims : Tear(id) /\ op' = [op EXCEPT !.id = id]
    BY <1>8 DEF PruneOne
  <2>2. op'.kind = op.kind /\ next' = next /\ pc' = "unlink" /\ pc = "prune" /\ Surplus
    BY <1>8, <2>1 DEF PruneOne
  <2>3. op.kind = "manual" => id # next - 1
    BY <2>2, VictimIsOlder
  <2> QED
    BY <2>1, <2>2, <2>3 DEF Tear
<1>9. CASE PruneDone \/ PruneFails \/ UnlinkFails
  BY <1>9 DEF PruneDone, PruneFails, UnlinkFails, PruneFailed, End
<1>10. CASE Unlink
  BY <1>10 DEF Unlink, End, Goto
<1>11. CASE Start \/ Stop \/ Crash
  BY <1>11 DEF Start, Stop, Crash, Goto
<1>12. ASSUME NEW f \in Files, NEW v \in Values, Edit(f, v)
       PROVE  BackupInv'
  BY <1>12 DEF Edit, backups
<1>13. CASE Opens
  BY <1>13 DEF Opens, Begin
<1>14. ASSUME NEW id \in Ids, DeleteSnapshot(id)
       PROVE  BackupInv'
  BY <1>14 DEF DeleteSnapshot, Ready
<1> QED
  BY RequestForms, <1>1, <1>2, <1>3, <1>4, <1>5, <1>6, <1>7, <1>8, <1>9, <1>10, <1>11, <1>12, <1>13, <1>14
     DEF Next, Step, Internal, Controller

LEMMA BackupExistsStep ==
  ASSUME StoreInv, AnswerInv, BackupInv, BackupExists, Next
  PROVE  BackupExists'
<1>1. CASE UNCHANGED <<dirs, reply, next>>
  BY <1>1 DEF BackupExists, Loadable
<1>2. CASE PruneDone
  BY <1>2 DEF PruneDone, End, PruneAnswer, BackupExists, BackupInv, Loadable, backups
<1> QED
  BY <1>1, <1>2, AnswerForms DEF BackupExists

\* The snapshot a manual backup reports exists, on a clock that runs forwards
\* and with room for it: retention takes older ones.
THEOREM BackupIsKept == ClockAndRoom /\ Spec => []BackupExists
<1>1. Init => AnswerInv /\ BackupInv /\ BackupExists
  BY AnswerInit DEF Init, NoOp, BackupInv, BackupExists
<1>2. ClockAndRoom /\ StoreInv /\ DiskInv /\ AnswerInv /\ BackupInv /\ BackupExists /\ [Next]_vars
        => AnswerInv' /\ BackupInv' /\ BackupExists'
  <2>1. UNCHANGED vars /\ AnswerInv /\ BackupInv /\ BackupExists
          => AnswerInv' /\ BackupInv' /\ BackupExists'
    BY DEF vars, backups, AnswerInv, AgreeOff, Recording, Loadable, BackupInv, BackupExists
  <2> QED
    BY <2>1, AnswerStep, BackupStep, BackupExistsStep
<1>3. ASSUME ClockAndRoom
      PROVE  Spec => []BackupExists
  BY <1>3, <1>1, <1>2, StoreInvariant, DiskInvariant, PTL DEF Spec
<1> QED
  BY <1>3
-----------------------------------------------------------------------------
\* Nothing the helper does runs for ever.

\* How far an operation is from its end: its step's place on the way there, a
\* rollback behind everything that may fail, the retention pass last ...
Place ==
  LET back == op.dir = "back"
      again == op.then # "recheck"
  IN  CASE pc = "mkdir"    -> IF again THEN 12 ELSE 20
        [] pc = "fill"     -> IF again THEN 11 ELSE 19
        [] pc = "recheck"  -> 18
        [] pc = "journal"  -> 17
        [] pc = "stage"    -> IF back THEN 7 ELSE 16
        [] pc = "swap"     -> IF back THEN 6 ELSE 15
        [] pc = "control"  -> IF back THEN 5 ELSE 14
        [] pc = "health"   -> IF back THEN 4 ELSE 13
        [] pc = "point"    -> IF back THEN 3 ELSE 10
        [] pc = "clear"    -> IF back THEN 2 ELSE 9
        [] pc = "rollback" -> 8
        [] pc \in {"prune", "unlink"} -> 1
        [] OTHER -> 0

\* ... and, where it loops, the files and the snapshots that are left.
Rest ==
  IF pc = "swap" THEN Cardinality(op.todo)
  ELSE 2 * Cardinality(Complete) + (IF pc = "unlink" THEN 1 ELSE 0)

Nearer == Place' < Place \/ (Place' = Place /\ Rest' < Rest)

\* replace takes its files one by one, and each once.
LEMMA NextIsLeft ==
  ASSUME NEW todo \in SUBSET Files, todo # {}, NEW to
  PROVE  NextFile(todo, to) \in todo
<1> DEFINE writes == {f \in todo : to[f] # Absent}
           batch  == IF writes # {} THEN writes ELSE todo
<1>1. batch \subseteq todo /\ batch # {}
  OBVIOUS
<1> HIDE DEF batch
<1>2. IsFiniteSet(batch) /\ \A f \in batch : Rank[f] \in Nat
  BY <1>1, FilesAssumption, RankAssumption, FS_Subset
<1>3. \E f \in batch : \A g \in batch : Rank[f] <= Rank[g]
  BY <1>1, <1>2, LeastExists
<1>4. NextFile(todo, to) = CHOOSE f \in batch : \A g \in batch : Rank[f] <= Rank[g]
  BY DEF NextFile, batch
<1> QED
  BY <1>1, <1>3, <1>4

LEMMA Counts ==
  ASSUME StoreInv
  PROVE  /\ IsFiniteSet(op.todo) /\ Cardinality(op.todo) \in Nat
         /\ IsFiniteSet(Complete) /\ Cardinality(Complete) \in Nat
<1>1. op.todo \subseteq Files /\ Complete \subseteq Ids
  BY DEF StoreInv, TypeOK, Operations, Complete
<1> QED
  BY <1>1, FilesAssumption, IdsFinite, FS_Subset, FS_CardinalityType

LEMMA RanksAreNumbers ==
  ASSUME StoreInv
  PROVE  Place \in 0 .. 20 /\ Rest \in Nat
<1>1. Place \in 0 .. 20
  BY DEF Place
<1>2. Rest \in Nat
  BY Counts DEF Rest
<1> QED
  BY <1>1, <1>2

LEMMA SwapIsNearer ==
  ASSUME StoreInv, Swap
  PROVE  Nearer
<1> DEFINE f == NextFile(op.todo, op.to)
<1>1. pc = "swap" /\ pc' = "swap" /\ op'.dir = op.dir /\ op'.todo = op.todo \ {f} /\ op.todo # {}
  BY DEF Swap, StoreInv, TypeOK, Operations
<1>2. f \in op.todo
  BY <1>1, NextIsLeft DEF StoreInv, TypeOK, Operations
<1> HIDE DEF f
<1>3. Cardinality(op'.todo) = Cardinality(op.todo) - 1
  BY <1>1, <1>2, Counts, FS_RemoveElement
<1>4. Place' = Place /\ Rest' < Rest
  BY <1>1, <1>3, Counts DEF Place, Rest
<1> QED
  BY <1>4 DEF Nearer

LEMMA PruneIsNearer ==
  ASSUME StoreInv, PruneOne
  PROVE  Nearer
<1>1. pc = "prune" /\ pc' = "unlink"
  BY DEF PruneOne
<1>2. PICK id \in Victims : Tear(id)
  BY DEF PruneOne
<1>3. id \in Complete /\ Complete' = Complete \ {id}
  BY <1>2 DEF Victims, Tear, Complete, StoreInv, TypeOK
<1>4. Cardinality(Complete') = Cardinality(Complete) - 1
  BY <1>3, Counts, FS_RemoveElement
<1>5. Place' = Place /\ Rest' < Rest
  BY <1>1, <1>4, Counts DEF Place, Rest
<1> QED
  BY <1>5 DEF Nearer

LEMMA UnlinkIsNearer ==
  ASSUME StoreInv, Unlink
  PROVE  Nearer
<1>1. pc = "unlink" /\ pc' \in {"idle", "prune"} /\ Complete' = Complete
  BY DEF Unlink, End, Goto, Complete, StoreInv, TypeOK, Handles
<1>2. pc' = "idle" => Place' < Place
  BY <1>1 DEF Place
<1>3. pc' = "prune" => Place' = Place /\ Rest' < Rest
  BY <1>1, Counts DEF Place, Rest
<1> QED
  BY <1>1, <1>2, <1>3 DEF Nearer

\* What an error does brings the operation nearer to its end, wherever it is.
LEMMA FailureIsNearer ==
  ASSUME StoreInv, pc \notin {"down", "idle", "prune", "unlink", "rollback"}, Failed
  PROVE  Place' < Place
<1> USE DEF StoreInv, Shape, Planning, BackingUp, Recording, Forward, Back
<1>1. CASE op.dir = "none"
  BY <1>1 DEF Failed, End, Place, TypeOK, PCs
<1>2. CASE op.dir = "forward"
  BY <1>2 DEF Failed, Goto, Place, TypeOK, PCs
<1>3. CASE op.dir = "back"
  BY <1>3 DEF Failed, RollbackFailed, End, Place, TypeOK, PCs
<1> QED
  BY <1>1, <1>2, <1>3 DEF Failed

LEMMA StepIsNearer ==
  ASSUME StoreInv, pc \notin {"idle", "down"}, Next
  PROVE  Nearer \/ UNCHANGED <<dirs, saved, next, baseline, pending, pc, op, reply>>
<1> DEFINE Goal == Nearer \/ UNCHANGED <<dirs, saved, next, baseline, pending, pc, op, reply>>
<1> USE DEF StoreInv, TypeOK, Operations, Shape, Planning, BackingUp, Recording, Forward, Back
<1>1. CASE Mkdir
  BY <1>1 DEF Mkdir, Place, Nearer
<1>2. CASE Fill
  BY <1>2 DEF Fill, Goto, Place, Nearer
<1>3. CASE Recheck \/ WriteJournal
  BY <1>3 DEF Recheck, WriteJournal, Goto, Place, Nearer
<1>4. CASE RecheckFails \/ WriteJournalFails
  BY <1>4 DEF RecheckFails, WriteJournalFails, End, Place, Nearer
<1>5. CASE Stage \/ Sync
  BY <1>5 DEF Stage, Sync, Goto, Place, Nearer
<1>6. CASE ControlSucceeds
  BY <1>6 DEF ControlSucceeds, Goto, Place, Nearer
<1>7. CASE HealthSucceeds
  BY <1>7 DEF HealthSucceeds, Goto, Place, Nearer
<1>8. CASE MkdirFails \/ FillFails \/ ReplaceFails \/ ControllerFails \/ SetBaselineFails
  <2>1. pc \in {"mkdir", "fill", "stage", "swap", "control", "health", "point"} /\ Failed
    BY <1>8 DEF MkdirFails, FillFails, ReplaceFails, ControllerFails, SetBaselineFails
  <2> QED
    BY <2>1, FailureIsNearer DEF Nearer
<1>9. CASE SetBaseline
  BY <1>9 DEF SetBaseline, End, Goto, Place, Nearer
<1>10. CASE ClearPending
  BY <1>10 DEF ClearPending, End, Goto, Place, Nearer
<1>11. CASE ClearPendingFails
  BY <1>11 DEF ClearPendingFails, End, RollbackFailed, Place, Nearer
<1>12. CASE Rollback
  BY <1>12 DEF Rollback, Place, Nearer
<1>13. CASE RollbackReadFails
  BY <1>13 DEF RollbackReadFails, End, RollbackFailed, Place, Nearer
<1>14. CASE PruneDone \/ PruneFails \/ UnlinkFails
  BY <1>14 DEF PruneDone, PruneFails, UnlinkFails, PruneFailed, End, Place, Nearer
<1>15. CASE Start \/ Stop \/ Request
  <2>1. CASE Start \/ Stop
    BY <2>1 DEF Start, Stop
  <2>2. Opens => pc = "idle"
    BY DEF Opens, Ready
  <2>3. \A id \in Ids : DeleteSnapshot(id) => pc = "idle"
    BY DEF DeleteSnapshot, Ready
  <2> QED
    BY <1>15, <2>1, <2>2, <2>3, RequestForms
<1>16. CASE Crash
  BY <1>16 DEF Crash, Place, PCs, Nearer
<1>17. ASSUME NEW f \in Files, NEW v \in Values, Edit(f, v)
       PROVE  Goal
  BY <1>17 DEF Edit, backups
<1> QED
  BY <1>1, <1>2, <1>3, <1>4, <1>5, <1>6, <1>7, <1>8, <1>9, <1>10, <1>11, <1>12, <1>13,
     <1>14, <1>15, <1>16, <1>17, SwapIsNearer, PruneIsNearer, UnlinkIsNearer
     DEF Next, Step, Internal, Controller

\* Every request and every recovery ends: whatever fails on the way, each step
\* of the helper brings the operation nearer to its end, and nobody else's step
\* takes it back.  At most 20 steps, one per file to replace in each direction
\* and two per snapshot to delete: so a request that keeps the others waiting for
\* the handler's mutex keeps them only as long as its system calls last.
THEOREM OperationsEnd ==
  Spec => /\ [](Place \in 0 .. 20 /\ Rest \in Nat)
          /\ [][pc \notin {"idle", "down"} =>
                  Nearer \/ UNCHANGED <<dirs, saved, next, baseline, pending, pc, op, reply>>]_vars
<1>1. StoreInv /\ [Next]_vars =>
        [pc \notin {"idle", "down"} =>
           Nearer \/ UNCHANGED <<dirs, saved, next, baseline, pending, pc, op, reply>>]_vars
  BY StepIsNearer
<1>2. StoreInv => Place \in 0 .. 20 /\ Rest \in Nat
  BY RanksAreNumbers
<1> QED
  BY StoreInvariant, <1>1, <1>2, PTL DEF Spec
=============================================================================
