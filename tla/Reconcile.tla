------------------------------ MODULE Reconcile ------------------------------
(***************************************************************************)
(* The web process's copy of the managed baseline, kept in SQLite, against *)
(* the helper's own (internal/api/routes.go and server.go, on top of       *)
(* internal/database and internal/helper).  A mutation calls the helper    *)
(* and then reads its baseline back, under the server's mutex; the answer  *)
(* can be lost while the helper goes on, either process can die, and       *)
(* GET /status reconciles without the mutex.                               *)
(*                                                                         *)
(* A baseline is a version: its snapshot ID, drawn once and never again.   *)
(* The directory holds a content, which stands for its revision.  The      *)
(* helper's transaction is what AtomicConfig promises, with the journal    *)
(* that makes its baseline unreadable meanwhile.                           *)
(***************************************************************************)
EXTENDS Naturals, FiniteSets

CONSTANTS
  Requests,     \* request handlers of the web process
  Boot,         \* its start-up, which reconciles before it listens
  Nobody,       \* no holder; no handler that waits for the answer; no content
  Contents,     \* what the managed directory can hold
  MaxVersions,  \* bound: baselines drawn
  MaxLost,      \* bound: abandoned mutations the helper has not begun
  MaxTroubles   \* bound: changes of the directory by others, deaths of the helper
                \* and deaths of the web process, together

ASSUME HandlersAssumption ==
  Boot \notin Requests /\ Nobody \notin Requests \union {Boot} \union Contents
ASSUME BoundsAssumption ==
  MaxVersions \in Nat /\ MaxLost \in Nat /\ MaxTroubles \in Nat

Handlers == Requests \union {Boot}
Versions == 1 .. MaxVersions
MaybeVersions == 0 .. MaxVersions     \* 0: none

Writes  == {"save", "hosts"}
Changes == Writes \union {"accept", "other"}     \* these end in mutate
Reads   == {"config", "status"}                  \* these end in configuration
Kinds   == Changes \union Reads \union {"boot"}

VARIABLES
  \* the helper
  disk, baseline,
  journal,    \* while a transaction is open: what it goes back to
  image,      \* the content each version was drawn for
  accepted,   \* the versions whose transaction has committed
  drawn,      \* the last version drawn
  run,        \* the transaction: who waits for it, its stage, what it writes
  orphans,    \* mutations nobody waits for any more, not begun yet
  \* the web process
  mu,         \* who holds the server's mutex
  pc, loc,    \* each handler's step and locals
  files,      \* managed_files: the version whose hashes it holds
  pointer,    \* managed_snapshot
  \* bounds and history
  troubles,
  bypassed    \* GET /status has saved a baseline it read without the mutex

copy == <<files, pointer>>
vars == <<disk, baseline, journal, image, accepted, drawn, run, orphans,
          mu, pc, loc, files, pointer, troubles, bypassed>>

NoJournal == [managed |-> 0, before |-> Nobody]
NoRun     == [who |-> Nobody, stage |-> "none", target |-> Nobody]

\* "call", "read" and "fetch" wait for the helper: a mutation's own call,
\* ReadBaseline and ReadConfiguration.
Waits == {"call", "read", "fetch"}
PCs == {"idle", "lock", "setting", "save", "observe", "pointer", "answer"} \union Waits

\* seen is the content a request is about: the revision its body names, or what
\* ReadConfiguration answered; mine the version the mutation committed; base the
\* one ReadBaseline answered; known the copy's that drift was computed against.
NoLocals == [kind |-> "boot", seen |-> Nobody, ok |-> TRUE, mine |-> 0, base |-> 0,
             known |-> 0, drift |-> FALSE, shown |-> 0]
Locals == [kind : Kinds, seen : Contents \union {Nobody}, ok : BOOLEAN,
           mine : MaybeVersions, base : MaybeVersions, known : MaybeVersions,
           drift : BOOLEAN, shown : MaybeVersions]

Kind(h) == loc[h].kind

Init ==
  /\ disk \in Contents
  /\ baseline = 0 /\ journal = NoJournal
  /\ image = [v \in Versions |-> Nobody]
  /\ accepted = {} /\ drawn = 0
  /\ run = NoRun /\ orphans = {}
  /\ mu = Boot
  /\ pc = [h \in Handlers |-> IF h = Boot THEN "read" ELSE "idle"]
  /\ loc = [h \in Handlers |-> NoLocals]
  /\ files = 0 /\ pointer = 0
  /\ troubles = 0
  /\ bypassed = FALSE

Trouble == troubles < MaxTroubles /\ troubles' = troubles + 1

-----------------------------------------------------------------------------
\* How a handler goes on, well or not, when what it waited for is over.

Goes(h, next) == pc' = [pc EXCEPT ![h] = next]

\* mutate and configuration go on after reconciling; the start-up ends.
AfterSync(h) == IF Kind(h) \in Reads THEN "fetch" ELSE "answer"

\* Variant: the error of the reconciliation is forgotten.
FailedQuietly(h) == [loc[h] EXCEPT !.ok = @ /\ pc[h] # "call"]

Failed(h) == [loc[h] EXCEPT !.ok = FALSE]

\* An error ends the handler, but a mutation reconciles all the same.
AfterFailure(h) == IF pc[h] = "call" THEN "read" ELSE "answer"

Fails(h) == Goes(h, AfterFailure(h)) /\ loc' = [loc EXCEPT ![h] = Failed(h)]

\* The helper's answer to a mutation; nobody hears an abandoned one's.
AnswersWell(h, v) ==
  IF h = Nobody THEN UNCHANGED <<pc, loc>>
  ELSE Goes(h, "read") /\ loc' = [loc EXCEPT ![h].mine = v, ![h].seen = Nobody]
AnswersError(h) == IF h = Nobody THEN UNCHANGED <<pc, loc>> ELSE Fails(h)

-----------------------------------------------------------------------------
\* The helper, whose mutex lets one request in at a time.

Free == run.stage = "none"
Idle == run' = NoRun

\* Variant: a baseline read while its transaction can still be undone.
SettledAnyway == TRUE

\* noPending.
Settled == journal = NoJournal

\* recordBaseline: a snapshot of c under a new ID, and baseline.json names it.
Record(c) ==
  /\ drawn < MaxVersions
  /\ drawn' = drawn + 1
  /\ image' = [image EXCEPT ![drawn + 1] = c]
  /\ baseline' = drawn + 1

Commit(v) == accepted' = accepted \union {v}

\* The turn of a mutation about the content seen: h's, or an abandoned one.
Takes(h, kind, seen) ==
  /\ Free
  /\ \/ /\ h \in Requests /\ pc[h] = "call"
        /\ kind = Kind(h) /\ seen = loc[h].seen
        /\ UNCHANGED orphans
     \/ /\ h = Nobody
        /\ [kind |-> kind, seen |-> seen] \in orphans
        /\ orphans' = orphans \ {[kind |-> kind, seen |-> seen]}

\* ErrConflict, a pending journal, an invalid image, any failure before the
\* journal is written, a canceled context.
Refuse(h, kind, seen) ==
  /\ Takes(h, kind, seen)
  /\ AnswersError(h)
  /\ UNCHANGED <<disk, baseline, journal, image, accepted, drawn, run>>

\* Snapshots and lifecycle requests, and a save of what is managed already.
Untouched(h, kind, seen) ==
  /\ Takes(h, kind, seen)
  /\ \/ kind = "other"
     \/ kind \in Writes /\ Settled /\ seen = disk /\ baseline # 0 /\ image[baseline] = disk
  /\ AnswersWell(h, 0)
  /\ UNCHANGED <<disk, baseline, journal, image, accepted, drawn, run>>

\* Reload from disk, and a save that changes nothing on it.  Deleting old
\* snapshots can fail when the new baseline is in place already.
Accept(h, kind, seen) ==
  /\ Takes(h, kind, seen)
  /\ kind \in Writes \union {"accept"} /\ Settled /\ seen = disk
  /\ Record(disk) /\ Commit(drawn + 1)
  /\ AnswersWell(h, drawn + 1) \/ AnswersError(h)
  /\ UNCHANGED <<disk, journal, run>>

\* The journal is written and the files are replaced.
Begin(h, kind, seen, c) ==
  /\ Takes(h, kind, seen)
  /\ kind \in Writes /\ Settled /\ seen = disk /\ c # disk
  /\ journal' = [managed |-> baseline, before |-> disk]
  /\ disk' = c
  /\ run' = [who |-> h, stage |-> "swapped", target |-> c]
  /\ UNCHANGED <<baseline, image, accepted, drawn, pc, loc>>

\* The new baseline is written while the journal still names the old one.
Point ==
  /\ run.stage = "swapped" /\ run' = [run EXCEPT !.stage = "pointed"]
  /\ Record(run.target)
  /\ UNCHANGED <<disk, journal, accepted, orphans, pc, loc>>

\* clearPending removes the journal; only the directory's sync can fail then.
Finish ==
  /\ run.stage = "pointed" /\ Idle
  /\ journal' = NoJournal
  /\ Commit(baseline)
  /\ AnswersWell(run.who, baseline) \/ AnswersError(run.who)
  /\ UNCHANGED <<disk, baseline, image, drawn, orphans>>

\* recover: the snapshot is copied back and baseline.json names the old one.
PutBack ==
  /\ disk' = journal.before
  /\ baseline' = journal.managed
  /\ journal' = NoJournal

Undo ==
  /\ ~Free /\ Idle
  /\ PutBack
  /\ AnswersError(run.who)
  /\ UNCHANGED <<image, accepted, drawn, orphans>>

\* The rollback fails: the journal stays, and the helper serves.
Stick ==
  /\ ~Free /\ Idle
  /\ AnswersError(run.who)
  /\ UNCHANGED <<disk, baseline, journal, image, accepted, drawn, orphans>>

\* ReadBaseline.  The first one ever takes over what is on disk.
ReadBaseline(h) ==
  /\ Free /\ pc[h] = "read"
  /\ Settled
  /\ IF baseline = 0
     THEN Record(disk) /\ Commit(drawn + 1)
     ELSE UNCHANGED <<image, baseline, accepted, drawn>>
  /\ loc' = [loc EXCEPT ![h].base = baseline']
  /\ Goes(h, "save")
  /\ UNCHANGED <<disk, journal, run, orphans>>

\* ReadConfiguration.  hostsChange compares its revision with the browser's.
ReadConfiguration(h) ==
  /\ Free /\ pc[h] = "fetch"
  /\ IF Kind(h) = "hosts"
     THEN IF loc[h].seen = disk THEN Goes(h, "lock") /\ UNCHANGED loc ELSE Fails(h)
     ELSE Goes(h, "observe") /\ loc' = [loc EXCEPT ![h].seen = disk]
  /\ UNCHANGED <<disk, baseline, journal, image, accepted, drawn, run, orphans>>

\* GET /config/managed reads the baseline for the browser alone, without the
\* server's mutex, and can be the one that records the first.
ReadForBrowser ==
  /\ Free /\ Settled /\ pc[Boot] = "idle"
  /\ baseline = 0
  /\ Record(disk) /\ Commit(drawn + 1)
  /\ UNCHANGED <<disk, journal, run, orphans, pc, loc>>

Mutation ==
  \E h \in Requests \union {Nobody}, kind \in Changes, seen \in Contents :
    \/ Refuse(h, kind, seen) \/ Untouched(h, kind, seen) \/ Accept(h, kind, seen)
    \/ \E c \in Contents : Begin(h, kind, seen, c)

Helper ==
  /\ \/ Mutation
     \/ Point \/ Finish \/ Undo \/ Stick \/ ReadForBrowser
     \/ \E h \in Handlers : ReadBaseline(h) \/ ReadConfiguration(h)
  /\ UNCHANGED <<mu, copy, troubles, bypassed>>

\* The helper dies and is started again: all calls break, and recovery comes
\* before the first new one.
HelperRestarts ==
  /\ Trouble
  /\ Idle /\ orphans' = {}
  /\ IF Settled THEN UNCHANGED <<disk, baseline, journal>> ELSE PutBack
  /\ pc' = [h \in Handlers |-> IF pc[h] \in Waits THEN AfterFailure(h) ELSE pc[h]]
  /\ loc' = [h \in Handlers |-> IF pc[h] \in Waits THEN Failed(h) ELSE loc[h]]
  /\ UNCHANGED <<image, accepted, drawn, mu, copy, bypassed>>

\* Another tool writes the directory.
Edit(c) ==
  /\ Trouble
  /\ c # disk /\ disk' = c
  /\ UNCHANGED <<baseline, journal, image, accepted, drawn, run, orphans,
                 mu, pc, loc, copy, bypassed>>

-----------------------------------------------------------------------------
\* The web process.

\* What a web step leaves alone of the helper.
remote == <<disk, baseline, journal, image, accepted, drawn>>

\* Variants: reads, or mutations, that do not take the mutex.
LockingChanges == Changes
LockingReads   == {"config"}

Locking == Changes \union {"config"}

Lock(h, kind) == IF kind \in Locking THEN mu = Nobody /\ mu' = h ELSE UNCHANGED mu

\* A request arrives, seen is the revision its body names, and it gets the
\* mutex: to wait for it is to arrive later.
Arrive(h, kind, seen) ==
  /\ pc[Boot] = "idle" /\ pc[h] = "idle"
  /\ IF kind \in Changes \ {"other"} THEN seen \in Contents ELSE seen = Nobody
  /\ loc' = [loc EXCEPT ![h] = [NoLocals EXCEPT !.kind = kind, !.seen = seen]]
  /\ IF kind = "hosts"
     THEN Goes(h, "fetch") /\ UNCHANGED mu
     ELSE Goes(h, IF kind \in Changes THEN "call" ELSE "setting") /\ Lock(h, kind)
  /\ UNCHANGED <<remote, run, orphans, copy, troubles, bypassed>>

\* hostsChange takes it only when it has the hosts it changes.
LockHosts(h) ==
  /\ pc[h] = "lock"
  /\ Lock(h, "hosts")
  /\ Goes(h, "call")
  /\ UNCHANGED <<remote, run, orphans, loc, copy, troubles, bypassed>>

\* configuration reconciles first if nothing has ever been copied.
Setting(h) ==
  /\ pc[h] = "setting"
  /\ Goes(h, IF pointer = 0 THEN "read" ELSE "fetch")
  /\ UNCHANGED <<remote, run, orphans, mu, loc, copy, troubles, bypassed>>

\* The mutations of S that the helper has not begun may reach it all the same,
\* and the one it has begun goes on.
Abandon(S) ==
  LET waiting == {h \in S : pc[h] = "call" /\ run.who # h /\ Kind(h) # "other"}
      calls   == {[kind |-> Kind(h), seen |-> loc[h].seen] : h \in waiting}
  IN /\ \/ UNCHANGED orphans
        \/ orphans' = orphans \union calls /\ Cardinality(orphans') <= MaxLost
     /\ run' = IF run.who \in S THEN [run EXCEPT !.who = Nobody] ELSE run

\* The browser is gone, the client's 110 s or the reconciliation's 10 s are over.
GiveUp(h) ==
  /\ pc[h] \in Waits
  /\ Fails(h)
  /\ Abandon({h})
  /\ UNCHANGED <<remote, mu, copy, troubles, bypassed>>

\* SaveBaseline: one transaction for the hashes and the pointer.
Save(h) ==
  /\ pc[h] = "save"
  /\ files' = loc[h].base /\ pointer' = loc[h].base
  /\ Goes(h, AfterSync(h))
  /\ loc' = [loc EXCEPT ![h].base = 0]
  /\ bypassed' = (bypassed \/ Kind(h) = "status")
  /\ UNCHANGED <<remote, run, orphans, mu, troubles>>

\* A statement of the database fails, and with it its transaction.
DatabaseFails(h) ==
  /\ pc[h] \in {"setting", "save", "observe", "pointer"}
  /\ Fails(h)
  /\ UNCHANGED <<remote, run, orphans, mu, copy, troubles, bypassed>>

\* ObserveFiles compares the hashes read from disk with the managed ones.
Observe(h) ==
  /\ pc[h] = "observe"
  /\ loc' = [loc EXCEPT ![h].known = files, ![h].drift = (files = 0 \/ image[files] # loc[h].seen)]
  /\ Goes(h, "pointer")
  /\ UNCHANGED <<remote, run, orphans, mu, copy, troubles, bypassed>>

Pointer(h) ==
  /\ pc[h] = "pointer"
  /\ loc' = [loc EXCEPT ![h].shown = pointer]
  /\ Goes(h, "answer")
  /\ UNCHANGED <<remote, run, orphans, mu, copy, troubles, bypassed>>

\* The handler returns, and its deferred unlock with it.
Answer(h) ==
  /\ pc[h] = "answer"
  /\ mu' = IF mu = h THEN Nobody ELSE mu
  /\ Goes(h, "idle")
  /\ loc' = [loc EXCEPT ![h] = NoLocals]
  /\ UNCHANGED <<remote, run, orphans, copy, troubles, bypassed>>

\* The process ends and is started again: Bootstrap holds the mutex and
\* reconciles before anything is served, or fails and lets the rest serve.
Restart ==
  /\ Trouble
  /\ Abandon(Handlers)
  /\ mu' = Boot
  /\ pc' = [h \in Handlers |-> IF h = Boot THEN "read" ELSE "idle"]
  /\ loc' = [h \in Handlers |-> NoLocals]
  /\ UNCHANGED <<remote, copy, bypassed>>

Step(h) ==
  \/ LockHosts(h) \/ Setting(h) \/ GiveUp(h) \/ Save(h) \/ DatabaseFails(h)
  \/ Observe(h) \/ Pointer(h) \/ Answer(h)

Next ==
  \/ Helper \/ HelperRestarts
  \/ \E c \in Contents : Edit(c)
  \/ \E h \in Requests, kind \in Changes \union Reads, seen \in Contents \union {Nobody} :
       Arrive(h, kind, seen)
  \/ \E h \in Handlers : Step(h)
  \/ Restart

Spec == Init /\ [][Next]_vars

-----------------------------------------------------------------------------
\* One mutation, one GET /config or the start-up is inside the mutex.
Inside(h) ==
  /\ pc[h] \notin {"idle", "lock"}
  /\ Kind(h) # "status"
  /\ Kind(h) = "hosts" =>
       pc[h] \in {"call", "read", "save"} \/ (pc[h] = "answer" /\ loc[h].ok)

\* Where nothing but its own steps is between a holder and its deferred unlock.
Returning(h) ==
  /\ pc[h] \notin {"idle", "lock"}
  /\ Kind(h) # "status"
  /\ Kind(h) = "hosts" => pc[h] # "fetch"

\* Every variable holds a value of its type, whoever is inside the mutex holds
\* it (mutate, GET /config and Bootstrap of the API), and nobody leaves or waits
\* for it holding it.
TypeOK ==
  /\ disk \in Contents
  /\ baseline \in MaybeVersions /\ drawn \in MaybeVersions
  /\ journal \in [managed : MaybeVersions, before : Contents] \union {NoJournal}
  /\ image \in [Versions -> Contents \union {Nobody}]
  /\ accepted \subseteq Versions
  /\ run \in [who : Requests \union {Nobody}, stage : {"none", "swapped", "pointed"},
              target : Contents \union {Nobody}]
  /\ orphans \subseteq [kind : Changes, seen : Contents]
  /\ mu \in Handlers \union {Nobody}
  /\ pc \in [Handlers -> PCs] /\ loc \in [Handlers -> Locals]
  /\ files \in MaybeVersions /\ pointer \in MaybeVersions
  /\ bypassed \in BOOLEAN
  /\ \A h \in Handlers : Inside(h) => mu = h
  /\ mu # Nobody => Returning(mu)

\* The copy is one baseline whose transaction committed, or nothing yet: never
\* one that was undone, whoever reconciles, and whatever was lost.
CopyWasAccepted == files = pointer /\ files \in accepted \union {0}

\* Drift is never accepted by itself: when a response says there is none, the
\* content it shows was once accepted as a baseline.  And GET /config names the
\* very baseline its drift was computed against, unless a GET /status wrote
\* another one in between.
HonestDrift ==
  \A h \in Requests :
    pc[h] = "answer" /\ Kind(h) \in Reads /\ loc[h].ok =>
      /\ ~loc[h].drift => \E v \in accepted : image[v] = loc[h].seen
      /\ ~bypassed /\ Kind(h) = "config" => loc[h].known = loc[h].shown

CaughtUp(h) ==
  pc[h] = "answer" /\ Kind(h) \in Changes /\ loc[h].ok => files >= loc[h].mine

\* A 200 for a mutation means that the copy has caught up with it, unless a
\* GET /status wrote an older one in between.
AnsweredIsCopied == ~bypassed => \A h \in Requests : CaughtUp(h)

\* What mutate's comment and its 503 say, without the exception.
AlwaysCaughtUp == \A h \in Requests : CaughtUp(h)

\* The copy never goes back to an older baseline (with the same exception).
NeverGoesBack == [][~bypassed' => files' >= files]_vars
=============================================================================
