--------------------------- MODULE ReconcileProofs ----------------------------
(***************************************************************************)
(* What the web process's copy of the baseline may say, for every number   *)
(* of requests, contents, faults and baselines.  Nobody leaves or waits    *)
(* with the server's mutex in his hand, and a request ends after nine      *)
(* steps.                                                                  *)
(***************************************************************************)
EXTENDS Reconcile, TLAPS

\* The types alone.
Types ==
  /\ disk \in Contents
  /\ baseline \in MaybeVersions /\ drawn \in MaybeVersions
  /\ journal \in [managed : MaybeVersions, before : Contents] \union {NoJournal}
  /\ image \in [Versions -> Contents \union {Nobody}]
  /\ accepted \subseteq Versions
  /\ run \in [who : Requests \union {Nobody}, stage : {"none", "swapped", "pointed"},
              target : Contents \union {Nobody}]
  /\ orphans \subseteq [kind : Changes, seen : Contents]
  /\ mu \in Handlers \union {Nobody}
  /\ pc \in [Handlers -> PCs] /\ loc \in [Handlers -> Locals]
  /\ files \in MaybeVersions /\ pointer \in MaybeVersions
  /\ bypassed \in BOOLEAN

\* No accepted baseline is newer than v.
Newest(v) == v \in accepted \union {0} /\ \A w \in accepted : w <= v

\* The helper: what it would go back to, or answer, is the newest accepted.
HelperInv ==
  /\ accepted \subseteq 1 .. drawn
  /\ Free => run.who = Nobody
  /\ ~Free => ~Settled /\ run.target \in Contents
  /\ ~Settled => Newest(journal.managed)
  /\ Settled => Newest(baseline)
  /\ run.stage = "pointed" => drawn > 0 /\ baseline = drawn

\* Where a handler can be, and who holds the mutex.
Placed(h) ==
  /\ pc[h] \in {"setting", "observe", "pointer"} => Kind(h) \in Reads
  /\ pc[h] = "fetch" => Kind(h) \in Reads \union {"hosts"}
  /\ pc[h] = "lock" => Kind(h) = "hosts"
  /\ pc[h] = "call" => Kind(h) \in Changes /\ loc[h].seen \in Contents \union {Nobody}
  /\ pc[h] = "call" /\ Kind(h) # "other" => loc[h].seen \in Contents
  /\ pc[h] \in {"fetch", "lock"} /\ Kind(h) = "hosts" => loc[h].seen \in Contents
  /\ run.who = h => pc[h] = "call"
  /\ Inside(h) => mu = h
  /\ mu = h => Returning(h)
PlaceInv == \A h \in Handlers : Placed(h)

\* A handler's locals against the copy.  Nothing that is only true without a
\* bypass is claimed of GET /status.
Sound(h) ==
  /\ loc[h].mine \in accepted \union {0}
  /\ pc[h] = "save" => loc[h].base \in accepted
  /\ pc[h] \in {"pointer", "answer"} /\ Kind(h) \in Reads /\ loc[h].ok /\ ~loc[h].drift =>
       \E v \in accepted : image[v] = loc[h].seen
Fresh(h) ==
  /\ pc[h] = "save" /\ Kind(h) # "status" =>
       loc[h].base >= loc[h].mine /\ loc[h].base >= files
  /\ CaughtUp(h)
  /\ Kind(h) = "config" /\ pc[h] = "pointer" => loc[h].known = files
  /\ Kind(h) = "config" /\ pc[h] = "answer" /\ loc[h].ok => loc[h].known = loc[h].shown
CopyInv ==
  /\ files = pointer /\ files \in accepted \union {0}
  /\ \A h \in Handlers : Sound(h)
FreshInv == ~bypassed => \A h \in Handlers : Fresh(h)

ReconcileInv == Types /\ HelperInv /\ PlaceInv /\ CopyInv /\ FreshInv

-----------------------------------------------------------------------------
LEMMA InvParts ==
  ReconcileInv => TypeOK /\ CopyWasAccepted /\ HonestDrift /\ AnsweredIsCopied
<1> SUFFICES ASSUME ReconcileInv
             PROVE  TypeOK /\ CopyWasAccepted /\ HonestDrift /\ AnsweredIsCopied
  OBVIOUS
<1>1. TypeOK
  BY DEF ReconcileInv, Types, PlaceInv, Placed, TypeOK
<1>2. CopyWasAccepted
  BY DEF ReconcileInv, CopyInv, CopyWasAccepted
<1>3. HonestDrift
  BY DEF ReconcileInv, CopyInv, Sound, FreshInv, Fresh, HonestDrift, Handlers, Reads
<1>4. AnsweredIsCopied
  BY DEF ReconcileInv, FreshInv, Fresh, AnsweredIsCopied, Handlers
<1> QED
  BY <1>1, <1>2, <1>3, <1>4

LEMMA InitInv == Init => ReconcileInv
<1> SUFFICES ASSUME Init
             PROVE  ReconcileInv
  OBVIOUS
<1> USE BoundsAssumption, HandlersAssumption DEF Init, NoLocals, NoRun, NoJournal,
      MaybeVersions, Versions, Handlers
<1>1. Types
  <2>1. NoLocals \in Locals
    BY DEF Locals, Kinds
  <2>2. pc \in [Handlers -> PCs]
    BY DEF PCs, Waits
  <2>3. loc \in [Handlers -> Locals]
    <3> HIDE DEF NoLocals
    <3> QED
      BY <2>1
  <2>4. NoRun \in [who : Requests \union {Nobody}, stage : {"none", "swapped", "pointed"},
                   target : Contents \union {Nobody}]
    OBVIOUS
  <2>5. image \in [Versions -> Contents \union {Nobody}]
    OBVIOUS
  <2>6. 0 \in MaybeVersions
    OBVIOUS
  <2> HIDE DEF NoLocals, NoJournal, NoRun, MaybeVersions, Versions, Handlers
  <2>7. /\ disk \in Contents /\ baseline = 0 /\ drawn = 0 /\ journal = NoJournal
        /\ accepted = {} /\ run = NoRun /\ orphans = {} /\ mu \in Handlers
        /\ files = 0 /\ pointer = 0 /\ bypassed = FALSE
    BY DEF Handlers
  <2> HIDE DEF Init
  <2> QED
    BY <2>2, <2>3, <2>4, <2>5, <2>6, <2>7 DEF Types
<1>2. HelperInv
  BY DEF HelperInv, Free, Settled, Newest
<1>3. PlaceInv
  BY DEF PlaceInv, Placed, Inside, Returning, Kind, Changes, Writes, Reads
<1>4. CopyInv
  BY DEF CopyInv, Sound, Kind, Reads
<1>5. FreshInv
  BY DEF FreshInv, Fresh, CaughtUp, Kind, Changes, Writes
<1> QED
  BY <1>1, <1>2, <1>3, <1>4, <1>5 DEF ReconcileInv

-----------------------------------------------------------------------------
\* What happens to the handlers that a step is not about: nothing.

Same(g) == pc'[g] = pc[g] /\ loc'[g] = loc[g]

LEMMA OthersPlaced ==
  ASSUME NEW g \in Handlers, Placed(g), Same(g), mu = g <=> mu' = g,
         run'.who = g => run.who = g
  PROVE  Placed(g)'
BY DEF Placed, Same, Inside, Returning, Kind

\* What was accepted stays, with its content.
History ==
  /\ accepted \subseteq accepted'
  /\ \A v \in accepted : image'[v] = image[v]

LEMMA OthersSound ==
  ASSUME NEW g \in Handlers, Sound(g), Same(g), History
  PROVE  Sound(g)'
BY DEF Sound, Same, History, Kind

LEMMA OthersFresh ==
  ASSUME NEW g \in Handlers, Fresh(g), Same(g), files' = files
  PROVE  Fresh(g)'
BY DEF Fresh, CaughtUp, Same, Kind

\* Outside the mutex nothing is claimed of the copy.
LEMMA OutsideFresh ==
  ASSUME NEW g \in Handlers, Placed(g), ~Inside(g)
  PROVE  Fresh(g)
BY DEF Fresh, CaughtUp, Inside, Placed, Kind, Changes, Writes, Reads

LEMMA FreshStays ==
  ASSUME FreshInv, NEW g \in Handlers, bypassed' = bypassed, files' = files, Same(g)
  PROVE  ~bypassed' => Fresh(g)'
BY OthersFresh DEF FreshInv

-----------------------------------------------------------------------------
\* Types, action by action.

LEMMA FailedTypes ==
  ASSUME Types, NEW h \in Handlers
  PROVE  Failed(h) \in Locals
<1> DEFINE l == loc[h]
<1>1. l \in Locals
  BY DEF Types
<1> HIDE DEF l
<1>2. [l EXCEPT !.ok = FALSE] \in Locals
  BY <1>1 DEF Locals
<1> QED
  BY <1>2 DEF l, Failed

LEMMA FailTypes ==
  ASSUME Types, NEW h \in Handlers, Fails(h)
  PROVE  pc' \in [Handlers -> PCs] /\ loc' \in [Handlers -> Locals]
<1>1. AfterFailure(h) \in PCs
  BY DEF AfterFailure, PCs, Waits
<1>2. pc' \in [Handlers -> PCs]
  BY <1>1 DEF Types, Fails, Goes
<1>3. loc' \in [Handlers -> Locals]
  BY FailedTypes DEF Types, Fails
<1> QED
  BY <1>2, <1>3

LEMMA AnswerTypes ==
  ASSUME Types, NEW h \in Requests \union {Nobody}, NEW v \in MaybeVersions,
         AnswersWell(h, v) \/ AnswersError(h)
  PROVE  pc' \in [Handlers -> PCs] /\ loc' \in [Handlers -> Locals]
<1>1. CASE h = Nobody
  BY <1>1 DEF Types, AnswersWell, AnswersError
<1>2. CASE h # Nobody /\ AnswersWell(h, v)
  BY <1>2 DEF Types, AnswersWell, Goes, PCs, Waits, Locals, Handlers
<1>3. CASE h # Nobody /\ AnswersError(h)
  BY <1>3, FailTypes DEF AnswersError, Handlers
<1> QED
  BY <1>1, <1>2, <1>3

LEMMA RecordTypes ==
  ASSUME Types, NEW c \in Contents, Record(c)
  PROVE  /\ baseline' = drawn + 1 /\ drawn' = drawn + 1 /\ drawn + 1 \in Versions
         /\ image' \in [Versions -> Contents \union {Nobody}]
         /\ image'[drawn + 1] = c
         /\ \A v \in Versions \ {drawn + 1} : image'[v] = image[v]
BY BoundsAssumption DEF Types, Record, Versions, MaybeVersions

LEMMA TakesTypes ==
  ASSUME Types, NEW h \in Requests \union {Nobody}, NEW kind, NEW seen, Takes(h, kind, seen)
  PROVE  orphans' \subseteq [kind : Changes, seen : Contents]
BY DEF Types, Takes

LEMMA MutationTypes ==
  ASSUME ReconcileInv, NEW h \in Requests \union {Nobody}, NEW kind \in Changes,
         NEW seen \in Contents,
         \/ Refuse(h, kind, seen) \/ Untouched(h, kind, seen) \/ Accept(h, kind, seen)
         \/ \E c \in Contents : Begin(h, kind, seen, c),
         UNCHANGED <<mu, copy, troubles, bypassed>>
  PROVE  Types'
<1>0. Types
  BY DEF ReconcileInv
<1> USE DEF copy
<1>1. CASE Refuse(h, kind, seen)
  BY <1>0, <1>1, AnswerTypes, TakesTypes DEF Types, Refuse, MaybeVersions
<1>2. CASE Untouched(h, kind, seen)
  <2>1. 0 \in MaybeVersions
    BY BoundsAssumption DEF MaybeVersions
  <2> QED
    BY <1>0, <1>2, <2>1, AnswerTypes, TakesTypes DEF Types, Untouched
<1>3. CASE Accept(h, kind, seen)
  <2>1. Record(disk) /\ disk \in Contents
    BY <1>0, <1>3 DEF Accept, Types
  <2>2. drawn + 1 \in Versions /\ drawn + 1 \in MaybeVersions
    BY <1>0, <2>1, RecordTypes DEF Versions, MaybeVersions
  <2>3. pc' \in [Handlers -> PCs] /\ loc' \in [Handlers -> Locals]
    BY <1>0, <1>3, <2>2, AnswerTypes DEF Accept
  <2> QED
    BY <1>0, <1>3, <2>1, <2>2, <2>3, RecordTypes, TakesTypes DEF Types, Accept, Commit
<1>4. ASSUME NEW c \in Contents, Begin(h, kind, seen, c)
      PROVE  Types'
  <2>1. journal' \in [managed : MaybeVersions, before : Contents]
    BY <1>0, <1>4 DEF Types, Begin
  <2>2. run' \in [who : Requests \union {Nobody}, stage : {"none", "swapped", "pointed"},
                   target : Contents \union {Nobody}]
    BY <1>4 DEF Begin
  <2> QED
    BY <1>0, <1>4, <2>1, <2>2, TakesTypes DEF Types, Begin
<1> QED
  BY <1>1, <1>2, <1>3, <1>4

LEMMA HelperTypes ==
  ASSUME ReconcileInv, Helper
  PROVE  Types'
<1>0. Types /\ UNCHANGED <<mu, copy, troubles, bypassed>>
  BY DEF ReconcileInv, Helper
<1>a. run.who \in Requests \union {Nobody} /\ 0 \in MaybeVersions /\ NoRun \in
        [who : Requests \union {Nobody}, stage : {"none", "swapped", "pointed"},
         target : Contents \union {Nobody}]
  BY <1>0, BoundsAssumption DEF Types, NoRun, MaybeVersions
<1> USE DEF copy
<1>1. CASE Mutation
  BY <1>0, <1>1, MutationTypes DEF Mutation
<1>2. CASE Point
  <2>1. Record(run.target) /\ run.target \in Contents
    BY <1>2 DEF Point, ReconcileInv, HelperInv, Free
  <2>2. run' \in [who : Requests \union {Nobody}, stage : {"none", "swapped", "pointed"},
                   target : Contents \union {Nobody}]
    BY <1>0, <1>2 DEF Point, Types
  <2> QED
    BY <1>0, <1>2, <2>1, <2>2, RecordTypes DEF Types, Point, Versions, MaybeVersions
<1>3. CASE Finish
  <2>1. baseline \in Versions
    BY <1>3 DEF Finish, ReconcileInv, HelperInv, Types, Versions, MaybeVersions
  <2>2. pc' \in [Handlers -> PCs] /\ loc' \in [Handlers -> Locals]
    BY <1>0, <1>a, <1>3, AnswerTypes DEF Finish, Types
  <2> QED
    BY <1>0, <1>a, <1>3, <2>1, <2>2 DEF Types, Finish, Idle, Commit
<1>4. CASE Undo \/ Stick
  <2>1. pc' \in [Handlers -> PCs] /\ loc' \in [Handlers -> Locals]
    BY <1>0, <1>a, <1>4, AnswerTypes DEF Undo, Stick
  <2>2. ~Settled /\ journal \in [managed : MaybeVersions, before : Contents]
    BY <1>0, <1>4 DEF Undo, Stick, ReconcileInv, HelperInv, Settled, Types
  <2> QED
    BY <1>0, <1>a, <1>4, <2>1, <2>2 DEF Types, Undo, Stick, Idle, PutBack
<1>5. CASE ReadForBrowser
  BY <1>0, <1>5, RecordTypes DEF Types, ReadForBrowser, Commit, Versions, MaybeVersions
<1>6. ASSUME NEW h \in Handlers, ReadBaseline(h)
      PROVE  Types'
  <2>1. /\ baseline' \in MaybeVersions /\ drawn' \in MaybeVersions
        /\ image' \in [Versions -> Contents \union {Nobody}]
        /\ accepted' \subseteq Versions
    BY <1>0, <1>6, RecordTypes DEF ReadBaseline, Commit, Types, Versions, MaybeVersions
  <2>2. pc' \in [Handlers -> PCs] /\ loc' \in [Handlers -> Locals]
    BY <1>0, <1>6, <2>1 DEF ReadBaseline, Goes, Types, PCs, Locals
  <2> QED
    BY <1>0, <1>6, <2>1, <2>2 DEF Types, ReadBaseline
<1>7. ASSUME NEW h \in Handlers, ReadConfiguration(h)
      PROVE  Types'
  <2>1. pc' \in [Handlers -> PCs] /\ loc' \in [Handlers -> Locals]
    BY <1>0, <1>7, FailTypes DEF ReadConfiguration, Goes, Types, PCs, Locals
  <2> QED
    BY <1>0, <1>7, <2>1 DEF Types, ReadConfiguration
<1> QED
  BY <1>1, <1>2, <1>3, <1>4, <1>5, <1>6, <1>7 DEF Helper

LEMMA WebTypes ==
  ASSUME ReconcileInv, NEW h \in Handlers,
         \/ Step(h)
         \/ \E kind \in Changes \union Reads, seen \in Contents \union {Nobody} :
              h \in Requests /\ Arrive(h, kind, seen)
  PROVE  Types'
<1>0. Types /\ 0 \in MaybeVersions
  BY BoundsAssumption DEF ReconcileInv, MaybeVersions
<1> USE <1>0 DEF remote, copy
<1>1. ASSUME NEW kind \in Changes \union Reads, NEW seen \in Contents \union {Nobody},
             h \in Requests, Arrive(h, kind, seen)
      PROVE  Types'
  <2>1. [NoLocals EXCEPT !.kind = kind, !.seen = seen] \in Locals
    BY DEF NoLocals, Locals, Kinds
  <2>2. loc' \in [Handlers -> Locals]
    BY <1>1, <2>1 DEF Arrive, Types
  <2>3. pc' \in [Handlers -> PCs] /\ mu' \in Handlers \union {Nobody}
    BY <1>1 DEF Arrive, Goes, Lock, Types, PCs, Waits
  <2> QED
    BY <1>1, <2>2, <2>3 DEF Types, Arrive
<1>2. CASE LockHosts(h) \/ Setting(h)
  BY <1>2 DEF Types, LockHosts, Setting, Lock, Goes, PCs, Waits
<1>3. CASE GiveUp(h)
  <2>1. pc' \in [Handlers -> PCs] /\ loc' \in [Handlers -> Locals]
    BY <1>3, FailTypes DEF GiveUp
  <2>2. /\ orphans' \subseteq [kind : Changes, seen : Contents]
        /\ run' \in [who : Requests \union {Nobody}, stage : {"none", "swapped", "pointed"},
                     target : Contents \union {Nobody}]
    BY <1>3 DEF GiveUp, Abandon, Types, ReconcileInv, PlaceInv, Placed, Kind
  <2> QED
    BY <1>3, <2>1, <2>2 DEF Types, GiveUp
<1>4. CASE Save(h)
  <2>1. loc[h].base \in MaybeVersions /\ bypassed' \in BOOLEAN
    BY <1>4 DEF Types, Save, Locals
  <2>2. pc' \in [Handlers -> PCs] /\ loc' \in [Handlers -> Locals]
    BY <1>4 DEF Types, Save, Goes, AfterSync, PCs, Waits, Locals
  <2> QED
    BY <1>4, <2>1, <2>2 DEF Types, Save
<1>5. CASE DatabaseFails(h)
  BY <1>5, FailTypes DEF Types, DatabaseFails
<1>6. CASE Observe(h)
  <2>1. pc' \in [Handlers -> PCs]
    BY <1>6 DEF Types, Observe, Goes, PCs
  <2>2. loc' \in [Handlers -> Locals]
    <3> DEFINE drift == files = 0 \/ image[files] # loc[h].seen
    <3>1. drift \in BOOLEAN /\ loc' = [loc EXCEPT ![h].known = files, ![h].drift = drift]
      BY <1>6 DEF Observe
    <3> HIDE DEF drift
    <3>2. loc[h] \in Locals /\ files \in MaybeVersions
      BY DEF Types
    <3>3. [loc[h] EXCEPT !.known = files, !.drift = drift] \in Locals
      BY <3>1, <3>2 DEF Locals
    <3>4. loc' = [loc EXCEPT ![h] = [loc[h] EXCEPT !.known = files, !.drift = drift]]
      BY <3>1 DEF Types
    <3> QED
      BY <3>3, <3>4 DEF Types
  <2> QED
    BY <1>6, <2>1, <2>2 DEF Types, Observe
<1>7. CASE Pointer(h)
  <2>1. pc' \in [Handlers -> PCs] /\ loc' \in [Handlers -> Locals]
    BY <1>7 DEF Types, Pointer, Goes, PCs, Locals
  <2> QED
    BY <1>7, <2>1 DEF Types, Pointer
<1>8. CASE Answer(h)
  <2>1. NoLocals \in Locals
    BY DEF NoLocals, Locals, Kinds
  <2>2. pc' \in [Handlers -> PCs] /\ loc' \in [Handlers -> Locals]
    BY <1>8, <2>1 DEF Types, Answer, Goes, PCs
  <2> QED
    BY <1>8, <2>2 DEF Types, Answer
<1> QED
  BY <1>1, <1>2, <1>3, <1>4, <1>5, <1>6, <1>7, <1>8 DEF Step

LEMMA TroubleTypes ==
  ASSUME ReconcileInv, HelperRestarts \/ Restart \/ \E c \in Contents : Edit(c)
  PROVE  Types'
<1>0. Types /\ 0 \in MaybeVersions
  BY BoundsAssumption DEF ReconcileInv, MaybeVersions
<1> USE <1>0 DEF remote, copy
<1>1. CASE HelperRestarts
  <2>1. pc' \in [Handlers -> PCs]
    BY <1>1 DEF HelperRestarts, Types, PCs, Waits, AfterFailure
  <2>2. loc' \in [Handlers -> Locals]
    BY <1>1, FailedTypes DEF HelperRestarts, Types
  <2>3. run' \in [who : Requests \union {Nobody}, stage : {"none", "swapped", "pointed"},
                  target : Contents \union {Nobody}]
    BY <1>1 DEF HelperRestarts, Idle, NoRun
  <2>4. /\ disk' \in Contents /\ baseline' \in MaybeVersions
        /\ journal' \in [managed : MaybeVersions, before : Contents] \union {NoJournal}
    BY <1>1 DEF HelperRestarts, PutBack, Settled, Types
  <2> QED
    BY <1>1, <2>1, <2>2, <2>3, <2>4 DEF Types, HelperRestarts
<1>2. CASE Restart
  <2>1. NoLocals \in Locals
    BY DEF NoLocals, Locals, Kinds
  <2>2. pc' \in [Handlers -> PCs] /\ loc' \in [Handlers -> Locals] /\ Boot \in Handlers
    BY <1>2, <2>1 DEF Types, Restart, PCs, Waits, Handlers
  <2>3. /\ orphans' \subseteq [kind : Changes, seen : Contents]
        /\ run' \in [who : Requests \union {Nobody}, stage : {"none", "swapped", "pointed"},
                     target : Contents \union {Nobody}]
    BY <1>2 DEF Restart, Abandon, Types, ReconcileInv, PlaceInv, Placed, Kind
  <2> QED
    BY <1>2, <2>2, <2>3 DEF Types, Restart
<1>3. ASSUME NEW c \in Contents, Edit(c)
      PROVE  Types'
  BY <1>3 DEF Types, Edit
<1> QED
  BY <1>1, <1>2, <1>3

-----------------------------------------------------------------------------
\* The helper goes back to, and answers, only what is the newest accepted.

\* A handler's step leaves the helper's variables alone but for its waiters.
LEMMA WebHelper ==
  ASSUME ReconcileInv, UNCHANGED remote,
         run' = run \/ run' = [run EXCEPT !.who = Nobody]
  PROVE  HelperInv'
BY DEF ReconcileInv, Types, HelperInv, Free, Settled, Newest, remote

LEMMA HelperStep ==
  ASSUME ReconcileInv, Helper
  PROVE  HelperInv' /\ History
<1>0. Types /\ HelperInv
  BY DEF ReconcileInv
<1>a. accepted \subseteq 1 .. drawn /\ accepted \subseteq Versions /\ drawn \in Nat
  BY <1>0 DEF Types, HelperInv, MaybeVersions
<1>b. NoRun.stage = "none" /\ NoRun.who = Nobody
  BY DEF NoRun
\* A baseline that is recorded is newer than all, and their contents stay.
<1>c. ASSUME NEW c \in Contents, Record(c)
      PROVE  /\ baseline' = drawn + 1 /\ drawn' = drawn + 1 /\ drawn + 1 \in Versions
             /\ \A v \in accepted : image'[v] = image[v] /\ v <= drawn
  BY <1>0, <1>a, <1>c, RecordTypes
<1> USE <1>0, <1>a
<1>1. ASSUME NEW h \in Requests \union {Nobody}, NEW kind \in Changes, NEW seen \in Contents,
             Accept(h, kind, seen)
      PROVE  HelperInv' /\ History
  <2>1. Free /\ Settled /\ UNCHANGED <<journal, run>> /\ Record(disk) /\ disk \in Contents
    BY <1>1 DEF Accept, Takes, Types
  <2>2. accepted' = accepted \union {drawn + 1}
    BY <1>1 DEF Accept, Commit
  <2> QED
    BY <2>1, <2>2, <1>c DEF HelperInv, History, Free, Settled, Newest
<1>2. ASSUME NEW h \in Requests \union {Nobody}, NEW kind \in Changes, NEW seen \in Contents,
             NEW c \in Contents, Begin(h, kind, seen, c)
      PROVE  HelperInv' /\ History
  <2>1. /\ Settled /\ journal'.managed = baseline
        /\ run'.stage = "swapped" /\ run'.target = c
        /\ UNCHANGED <<baseline, image, accepted, drawn>>
    BY <1>2 DEF Begin
  <2>2. journal' # NoJournal
    BY <1>2, HandlersAssumption DEF Begin, NoJournal, Types
  <2> QED
    BY <2>1, <2>2 DEF HelperInv, History, Free, Settled, Newest
<1>3. ASSUME NEW h \in Requests \union {Nobody}, NEW kind \in Changes, NEW seen \in Contents,
             Refuse(h, kind, seen) \/ Untouched(h, kind, seen)
      PROVE  HelperInv' /\ History
  BY <1>3 DEF Refuse, Untouched, HelperInv, History, Free, Settled, Newest
<1>4. CASE Mutation
  BY <1>1, <1>2, <1>3, <1>4 DEF Mutation
<1>5. CASE Point
  <2>1. /\ ~Free /\ ~Settled /\ run.target \in Contents /\ Record(run.target)
        /\ UNCHANGED <<journal, accepted>>
        /\ run'.stage = "pointed" /\ run'.target = run.target
    BY <1>5 DEF Point, Free, HelperInv, Types
  <2> QED
    BY <2>1, <1>c DEF HelperInv, History, Free, Settled, Newest
<1>6. CASE Finish
  <2>1. /\ baseline = drawn /\ drawn > 0 /\ accepted' = accepted \union {drawn}
        /\ run' = NoRun /\ journal' = NoJournal /\ UNCHANGED <<baseline, image, drawn>>
    BY <1>6 DEF Finish, HelperInv, Idle, Commit
  <2> QED
    BY <2>1, <1>b DEF HelperInv, History, Free, Settled, Newest
<1>7. CASE Undo
  <2>1. /\ ~Settled /\ baseline' = journal.managed /\ journal' = NoJournal /\ run' = NoRun
        /\ UNCHANGED <<image, accepted, drawn>>
    BY <1>7 DEF Undo, HelperInv, Idle, PutBack
  <2> QED
    BY <2>1, <1>b DEF HelperInv, History, Free, Settled, Newest
<1>8. CASE Stick
  BY <1>8, <1>b DEF Stick, Idle, HelperInv, History, Free, Settled, Newest
<1>9. CASE ReadForBrowser \/ \E h \in Handlers : ReadBaseline(h)
  <2>1. /\ Free /\ Settled /\ UNCHANGED <<journal, run>>
        /\ \/ Record(disk) /\ disk \in Contents /\ accepted' = accepted \union {drawn + 1}
           \/ UNCHANGED <<image, baseline, accepted, drawn>>
    BY <1>9 DEF ReadForBrowser, ReadBaseline, Commit, Types
  <2>2. CASE Record(disk) /\ disk \in Contents /\ accepted' = accepted \union {drawn + 1}
    BY <2>1, <2>2, <1>c DEF HelperInv, History, Free, Settled, Newest
  <2>3. CASE UNCHANGED <<image, baseline, accepted, drawn>>
    BY <2>1, <2>3 DEF HelperInv, History, Free, Settled, Newest
  <2> QED
    BY <2>1, <2>2, <2>3
<1>10. CASE \E h \in Handlers : ReadConfiguration(h)
  BY <1>10 DEF ReadConfiguration, HelperInv, History, Free, Settled, Newest
<1> QED
  BY <1>4, <1>5, <1>6, <1>7, <1>8, <1>9, <1>10 DEF Helper

LEMMA HelperRestartStep ==
  ASSUME ReconcileInv, HelperRestarts
  PROVE  HelperInv' /\ History
<1>1. run' = NoRun /\ NoRun.stage = "none" /\ NoRun.who = Nobody
      /\ UNCHANGED <<image, accepted, drawn>>
  BY DEF HelperRestarts, Idle, NoRun
<1>2. CASE Settled
  BY <1>1, <1>2 DEF ReconcileInv, HelperRestarts, HelperInv, History, Free, Settled, Newest
<1>3. CASE ~Settled
  BY <1>1, <1>3 DEF ReconcileInv, HelperRestarts, PutBack, HelperInv, History, Free, Settled, Newest
<1> QED
  BY <1>2, <1>3

-----------------------------------------------------------------------------
\* Where handlers are, and who holds the mutex.

\* A helper's answer only reaches a handler that waits in its call.
LEMMA AnswerPlaced ==
  ASSUME ReconcileInv, NEW h \in Requests \union {Nobody}, NEW v \in MaybeVersions,
         AnswersWell(h, v) \/ AnswersError(h),
         h # Nobody => pc[h] = "call", mu' = mu,
         run' = NoRun \/ (run' = run /\ run.who = Nobody),
         NEW g \in Handlers
  PROVE  Placed(g)'
<1>0. Types /\ Placed(g) /\ NoRun.who = Nobody /\ Nobody \notin Handlers
  BY HandlersAssumption DEF ReconcileInv, PlaceInv, NoRun, Handlers
<1>1. CASE h # g
  <2>1. Same(g)
    BY <1>0, <1>1 DEF Same, AnswersWell, AnswersError, Fails, Failed, Goes, Types
  <2> QED
    BY <1>0, <2>1, OthersPlaced
<1>2. CASE h = g
  <2>1. /\ pc'[g] = "read" /\ loc'[g].kind = loc[g].kind /\ pc[g] = "call"
    BY <1>0, <1>2 DEF AnswersWell, AnswersError, Fails, Failed, AfterFailure, Goes, Types, Locals
  <2> QED
    BY <1>0, <2>1 DEF Placed, Inside, Returning, Kind, Changes, Writes, Reads
<1> QED
  BY <1>1, <1>2

\* Failing never takes a handler into the mutex, nor a success out of it.
LEMMA FailPlaced ==
  ASSUME ReconcileInv, NEW h \in Handlers, Fails(h),
         pc[h] \in Waits \union {"setting", "save", "observe", "pointer"}, mu' = mu,
         run'.who # Nobody => run'.who = run.who,
         run'.who # h,
         NEW g \in Handlers
  PROVE  Placed(g)'
<1>0. Types /\ Placed(g) /\ Nobody \notin Handlers
  BY HandlersAssumption DEF ReconcileInv, PlaceInv, Handlers
<1>1. CASE h # g
  <2>1. Same(g)
    BY <1>0, <1>1 DEF Same, Fails, Goes, Types
  <2> QED
    BY <1>0, <2>1, OthersPlaced
<1>2. CASE h = g
  <2>1. /\ pc'[g] = AfterFailure(g) /\ loc'[g].kind = loc[g].kind /\ loc'[g].ok = FALSE
    BY <1>0, <1>2 DEF Fails, Failed, Goes, Types, Locals
  <2> QED
    BY <1>0, <1>2, <2>1 DEF Placed, Inside, Returning, Kind, AfterFailure, Changes, Writes, Reads, Waits
<1> QED
  BY <1>1, <1>2

LEMMA HelperPlaced ==
  ASSUME ReconcileInv, Helper, NEW g \in Handlers
  PROVE  Placed(g)'
<1>0. Types /\ HelperInv /\ PlaceInv /\ Placed(g) /\ mu' = mu /\ Nobody \notin Handlers
  BY HandlersAssumption DEF ReconcileInv, PlaceInv, Helper, Handlers
<1>a. 0 \in MaybeVersions
  BY BoundsAssumption DEF MaybeVersions
<1>b. \A h \in Requests : run.who = h => pc[h] = "call"
  BY <1>0 DEF PlaceInv, Placed, Handlers
<1>1. ASSUME NEW h \in Requests \union {Nobody}, NEW kind \in Changes, NEW seen \in Contents,
             Refuse(h, kind, seen) \/ Untouched(h, kind, seen) \/ Accept(h, kind, seen)
      PROVE  Placed(g)'
  <2>1. /\ h # Nobody => pc[h] = "call"
        /\ run' = run /\ run.who = Nobody
    BY <1>0, <1>1 DEF Refuse, Untouched, Accept, Takes, HelperInv
  <2>2. \E v \in MaybeVersions : AnswersWell(h, v) \/ AnswersError(h)
    BY <1>0, <1>1, <1>a, RecordTypes DEF Refuse, Untouched, Accept, Types, Versions, MaybeVersions
  <2> QED
    BY <1>0, <2>1, <2>2, AnswerPlaced
<1>2. ASSUME NEW h \in Requests \union {Nobody}, NEW kind \in Changes, NEW seen \in Contents,
             NEW c \in Contents, Begin(h, kind, seen, c)
      PROVE  Placed(g)'
  BY <1>0, <1>2 DEF Begin, Takes, Placed, Inside, Returning, Kind
<1>3. CASE Mutation
  BY <1>1, <1>2, <1>3 DEF Mutation
<1>4. CASE Point \/ ReadForBrowser
  <2>1. Same(g) /\ run'.who = run.who
    BY <1>0, <1>4 DEF Point, ReadForBrowser, Same, Types
  <2> QED
    BY <1>0, <2>1, OthersPlaced
<1>5. CASE Finish \/ Undo \/ Stick
  <2>1. /\ run.who \in Requests \union {Nobody} /\ run' = NoRun
        /\ run.who # Nobody => pc[run.who] = "call"
    BY <1>0, <1>b, <1>5 DEF Finish, Undo, Stick, Idle, Types
  <2>2. \E v \in MaybeVersions : AnswersWell(run.who, v) \/ AnswersError(run.who)
    BY <1>0, <1>5, <1>a DEF Finish, Undo, Stick, Types
  <2> QED
    BY <1>0, <2>1, <2>2, AnswerPlaced
<1>6. ASSUME NEW h \in Handlers, ReadBaseline(h)
      PROVE  Placed(g)'
  <2>1. CASE g # h
    BY <1>0, <1>6, <2>1, OthersPlaced DEF ReadBaseline, Goes, Same, Types
  <2>2. CASE g = h
    <3>1. pc'[g] = "save" /\ loc'[g].kind = loc[g].kind /\ run' = run
      BY <1>0, <1>6, <2>2 DEF ReadBaseline, Goes, Types, Locals
    <3> QED
      BY <1>0, <1>6, <2>2, <3>1 DEF ReadBaseline, Placed, Inside, Returning, Kind
  <2> QED
    BY <2>1, <2>2
<1>7. ASSUME NEW h \in Handlers, ReadConfiguration(h)
      PROVE  Placed(g)'
  <2>0. pc[h] = "fetch" /\ run' = run /\ run.who = Nobody
    BY <1>0, <1>7 DEF ReadConfiguration, HelperInv
  <2>1. CASE Fails(h)
    BY <1>0, <2>0, <2>1, FailPlaced DEF Waits
  <2>2. CASE ~Fails(h) /\ g # h
    BY <1>0, <1>7, <2>0, <2>2, OthersPlaced DEF ReadConfiguration, Goes, Same, Types
  <2>3. CASE ~Fails(h) /\ g = h
    <3>1. /\ loc'[g].kind = loc[g].kind
          /\ IF Kind(g) = "hosts" THEN pc'[g] = "lock" /\ loc'[g] = loc[g]
             ELSE pc'[g] = "observe"
      BY <1>0, <1>7, <2>3 DEF ReadConfiguration, Goes, Types, Locals
    <3> QED
      BY <1>0, <2>0, <2>3, <3>1 DEF Placed, Inside, Returning, Kind
  <2> QED
    BY <2>1, <2>2, <2>3
<1> QED
  BY <1>3, <1>4, <1>5, <1>6, <1>7 DEF Helper

LEMMA StepPlaced ==
  ASSUME ReconcileInv, NEW h \in Handlers, Step(h), NEW g \in Handlers
  PROVE  Placed(g)'
<1>0. Types /\ Placed(g) /\ Placed(h) /\ Nobody \notin Handlers
  BY HandlersAssumption DEF ReconcileInv, PlaceInv, Handlers
<1> USE <1>0
<1>1. CASE GiveUp(h)
  <2>1. run'.who # h /\ (run'.who # Nobody => run'.who = run.who)
    BY <1>1 DEF GiveUp, Abandon, Types
  <2> QED
    BY <1>1, <2>1, FailPlaced DEF GiveUp
<1>2. CASE DatabaseFails(h)
  <2>1. run' = run /\ run.who # h
    BY <1>2 DEF DatabaseFails, Placed
  <2> QED
    BY <1>2, <2>1, FailPlaced DEF DatabaseFails
<1>3. CASE (LockHosts(h) \/ Setting(h) \/ Save(h) \/ Observe(h) \/ Pointer(h)) /\ g # h
  <2>1. Same(g) /\ run' = run /\ (mu = g <=> mu' = g)
    BY <1>0, <1>3 DEF LockHosts, Setting, Save, Observe, Pointer, Lock, Goes, Same, Types
  <2> QED
    BY <2>1, OthersPlaced
<1>4. CASE Answer(h) /\ g # h
  <2>1. Same(g) /\ run' = run /\ (mu = g <=> mu' = g)
    BY <1>0, <1>4 DEF Answer, Goes, Same, Types
  <2> QED
    BY <2>1, OthersPlaced
<1>5. CASE LockHosts(h) /\ g = h
  <2>1. /\ pc[g] = "lock" /\ pc'[g] = "call" /\ loc' = loc /\ mu' = g /\ run' = run
    BY <1>5 DEF LockHosts, Lock, Goes, Locking, Changes, Writes, Types
  <2> QED
    BY <2>1 DEF Placed, Inside, Returning, Kind, Changes, Writes
<1>6. CASE Setting(h) /\ g = h
  <2>1. pc[g] = "setting" /\ pc'[g] \in {"read", "fetch"} /\ UNCHANGED <<loc, mu, run>>
    BY <1>6 DEF Setting, Goes, Types
  <2> QED
    BY <2>1 DEF Placed, Inside, Returning, Kind, Reads
<1>7. CASE Save(h) /\ g = h
  <2>1. /\ pc[g] = "save" /\ pc'[g] = AfterSync(g) /\ UNCHANGED <<mu, run>>
        /\ loc'[g].kind = loc[g].kind
    BY <1>7 DEF Save, Goes, Types, Locals
  <2> QED
    BY <2>1 DEF Placed, Inside, Returning, Kind, AfterSync, Reads
<1>8. CASE (Observe(h) \/ Pointer(h)) /\ g = h
  <2>1. /\ pc[g] \in {"observe", "pointer"} /\ pc'[g] \in {"pointer", "answer"}
        /\ loc'[g].kind = loc[g].kind /\ UNCHANGED <<mu, run>>
    BY <1>8 DEF Observe, Pointer, Goes, Types, Locals
  <2> QED
    BY <2>1 DEF Placed, Inside, Returning, Kind, Reads
<1>9. CASE Answer(h) /\ g = h
  <2>1. pc[g] = "answer" /\ pc'[g] = "idle" /\ run' = run /\ mu' # g
    BY <1>0, <1>9 DEF Answer, Goes, Types
  <2> QED
    BY <2>1 DEF Placed, Inside, Returning, Kind
<1> QED
  BY <1>1, <1>2, <1>3, <1>4, <1>5, <1>6, <1>7, <1>8, <1>9 DEF Step

LEMMA ArrivePlaced ==
  ASSUME ReconcileInv, NEW h \in Requests, NEW kind \in Changes \union Reads,
         NEW seen \in Contents \union {Nobody}, Arrive(h, kind, seen), NEW g \in Handlers
  PROVE  Placed(g)'
<1>0. Types /\ Placed(g) /\ Placed(h) /\ h \in Handlers /\ run' = run
  BY DEF ReconcileInv, PlaceInv, Handlers, Arrive
<1>1. CASE g # h
  <2>1. Same(g) /\ (mu = g <=> mu' = g)
    BY <1>0, <1>1, HandlersAssumption DEF Arrive, Lock, Goes, Same, Types, Handlers
  <2> QED
    BY <1>0, <2>1, OthersPlaced
<1>2. CASE g = h
  <2>1. /\ pc[g] = "idle" /\ loc'[g].kind = kind /\ loc'[g].seen = seen
        /\ kind \in Changes \ {"other"} => seen \in Contents
        /\ kind = "hosts" => pc'[g] = "fetch"
        /\ kind \in Changes \ {"hosts"} => pc'[g] = "call" /\ mu' = g
        /\ kind \in Reads => pc'[g] = "setting" /\ (kind = "config" => mu' = g)
        /\ kind \in {"hosts", "status"} => mu' # g
    BY <1>0, <1>2 DEF Arrive, Lock, Locking, Goes, Types, NoLocals, Changes, Writes, Reads, Placed,
       Returning
  <2> QED
    BY <1>0, <2>1 DEF Placed, Inside, Returning, Kind, Changes, Writes, Reads
<1> QED
  BY <1>1, <1>2

LEMMA TroublePlaced ==
  ASSUME ReconcileInv, HelperRestarts \/ Restart \/ \E c \in Contents : Edit(c),
         NEW g \in Handlers
  PROVE  Placed(g)'
<1>0. /\ Types /\ Placed(g) /\ NoRun.who = Nobody /\ Nobody \notin Handlers
      /\ Boot \in Handlers /\ \A h \in Requests : run.who = h => pc[h] = "call"
  BY HandlersAssumption DEF ReconcileInv, PlaceInv, Placed, NoRun, Handlers
<1>1. CASE HelperRestarts
  <2>1. run'.who = Nobody /\ mu' = mu
    BY <1>0, <1>1 DEF HelperRestarts, Idle
  <2>2. CASE pc[g] \in Waits
    <3>1. pc'[g] = AfterFailure(g) /\ loc'[g] = Failed(g)
      BY <1>1, <2>2 DEF HelperRestarts
    <3>2. loc'[g].kind = loc[g].kind /\ loc'[g].ok = FALSE
      BY <1>0, <3>1 DEF Failed, Types, Locals
    <3> QED
      BY <1>0, <2>1, <2>2, <3>1, <3>2 DEF Placed, Inside, Returning, Kind, AfterFailure, Changes, Writes,
         Reads, Waits
  <2>3. CASE pc[g] \notin Waits
    BY <1>0, <1>1, <2>1, <2>3, OthersPlaced DEF HelperRestarts, Same
  <2> QED
    BY <2>2, <2>3
<1>2. CASE Restart
  <2>1. run'.who = Nobody /\ mu' = Boot
    BY <1>0, <1>2 DEF Restart, Abandon, Types, Handlers
  <2>2. pc'[g] = (IF g = Boot THEN "read" ELSE "idle") /\ loc'[g].kind = "boot"
    BY <1>2 DEF Restart, NoLocals
  <2> QED
    BY <1>0, <2>1, <2>2 DEF Placed, Inside, Returning, Kind, Changes, Writes, Reads
<1>3. CASE \E c \in Contents : Edit(c)
  BY <1>0, <1>3, OthersPlaced DEF Edit, Same
<1> QED
  BY <1>1, <1>2, <1>3

-----------------------------------------------------------------------------
\* What a handler knows is sound, and without a bypass fresh.

\* How one handler's step, or an answer to it, moves it.  Everything else in
\* Good(h)' is about what did not change.
Good(h) == Sound(h) /\ (~bypassed => Fresh(h))

LEMMA GoodParts == ReconcileInv => \A h \in Handlers : Good(h)
BY DEF ReconcileInv, CopyInv, FreshInv, Good

LEMMA OthersGood ==
  ASSUME NEW g \in Handlers, Good(g), Same(g), History, files' = files, bypassed' = bypassed
  PROVE  Good(g)'
BY OthersSound, OthersFresh DEF Good

\* Nothing is claimed of one that failed, before it has read the baseline.
LEMMA FailedGood ==
  ASSUME ReconcileInv, NEW g \in Handlers, Good(g), History, files' = files,
         bypassed' = bypassed, pc'[g] = AfterFailure(g), loc'[g] = Failed(g)
  PROVE  Good(g)'
<1>1. /\ pc'[g] \in {"read", "answer"} /\ loc'[g].ok = FALSE
      /\ loc'[g].mine = loc[g].mine /\ loc'[g].kind = loc[g].kind
  BY DEF AfterFailure, Failed, ReconcileInv, Types, Locals
<1> QED
  BY <1>1 DEF Good, Sound, Fresh, CaughtUp, Kind, History

LEMMA FailGood ==
  ASSUME ReconcileInv, NEW h \in Handlers, Fails(h), History, files' = files,
         bypassed' = bypassed, NEW g \in Handlers
  PROVE  Good(g)'
<1>1. CASE g = h
  BY <1>1, GoodParts, FailedGood DEF Fails, Goes, ReconcileInv, Types
<1>2. CASE g # h
  BY <1>2, GoodParts, OthersGood DEF Fails, Goes, Same, ReconcileInv, Types
<1> QED
  BY <1>1, <1>2

LEMMA AnswerGood ==
  ASSUME ReconcileInv, NEW h \in Requests \union {Nobody}, NEW v \in accepted' \union {0},
         AnswersWell(h, v) \/ AnswersError(h), History, files' = files, bypassed' = bypassed,
         NEW g \in Handlers
  PROVE  Good(g)'
<1>0. Types /\ Good(g) /\ (h # Nobody => h \in Handlers)
  BY GoodParts DEF ReconcileInv, Handlers
<1>1. CASE h # Nobody /\ AnswersError(h)
  BY <1>0, <1>1, FailGood DEF AnswersError
<1>2. CASE h = Nobody \/ h # g
  <2>1. Same(g) \/ (h # Nobody /\ AnswersError(h))
    BY <1>0, <1>2 DEF AnswersWell, AnswersError, Goes, Same, Types
  <2> QED
    BY <1>0, <1>1, <2>1, OthersGood
<1>3. CASE AnswersWell(h, v) /\ h = g /\ h # Nobody
  <2>1. /\ pc'[g] = "read" /\ loc'[g].mine = v
    BY <1>0, <1>3 DEF AnswersWell, Goes, Types, Locals
  <2> QED
    BY <2>1 DEF Good, Sound, Fresh, CaughtUp
<1> QED
  BY <1>1, <1>2, <1>3

LEMMA HelperGood ==
  ASSUME ReconcileInv, Helper, NEW g \in Handlers
  PROVE  Good(g)'
<1>0. /\ Types /\ HelperInv /\ CopyInv /\ Good(g) /\ files' = files /\ bypassed' = bypassed
  BY GoodParts DEF ReconcileInv, Helper, copy
<1>a. History /\ HelperInv'
  BY HelperStep
<1> USE <1>0, <1>a
<1>1. ASSUME NEW h \in Requests \union {Nobody}, NEW kind \in Changes, NEW seen \in Contents,
             Refuse(h, kind, seen) \/ Untouched(h, kind, seen) \/ Accept(h, kind, seen)
      PROVE  Good(g)'
  <2>1. \E v \in accepted' \union {0} : AnswersWell(h, v) \/ AnswersError(h)
    BY <1>1 DEF Refuse, Untouched, Accept, Commit
  <2> QED
    BY <2>1, AnswerGood
<1>2. CASE Mutation
  BY <1>1, <1>2, OthersGood DEF Mutation, Begin, Same
<1>3. CASE Point \/ ReadForBrowser
  BY <1>3, OthersGood DEF Point, ReadForBrowser, Same
<1>4. CASE Finish \/ Undo \/ Stick
  <2>1. run.who \in Requests \union {Nobody}
    BY DEF Types
  <2>2. \E v \in accepted' \union {0} : AnswersWell(run.who, v) \/ AnswersError(run.who)
    BY <1>4 DEF Finish, Undo, Stick, Commit
  <2> QED
    BY <2>1, <2>2, AnswerGood
<1>5. ASSUME NEW h \in Handlers, ReadBaseline(h)
      PROVE  Good(g)'
  <2>1. CASE g # h
    BY <1>5, <2>1, OthersGood DEF ReadBaseline, Goes, Same, Types
  <2>2. CASE g = h
    \* What was read is the newest accepted: no older than the handler's own
    \* mutation, nor than the copy.
    <3>1. /\ baseline' \in accepted' /\ \A w \in accepted' : w <= baseline'
      <4>1. Settled' /\ (baseline = 0 => baseline' \in accepted')
        BY <1>5, RecordTypes DEF ReadBaseline, Settled, Commit, Types
      <4>2. baseline # 0 => baseline' = baseline /\ accepted' = accepted
        BY <1>5 DEF ReadBaseline
      <4> QED
        BY <1>5, <4>1, <4>2 DEF ReadBaseline, HelperInv, Newest, Settled
    <3>2. /\ pc'[g] = "save" /\ loc'[g].base = baseline'
          /\ loc'[g].mine = loc[g].mine /\ loc'[g].kind = loc[g].kind
      BY <1>5, <2>2 DEF ReadBaseline, Goes, Types, Locals
    <3>3. /\ loc[g].mine \in accepted' \union {0} /\ files \in accepted' \union {0}
      BY DEF CopyInv, Sound, History
    <3>4. accepted' \subseteq Nat /\ \A w \in accepted' : w >= 0
      BY HelperTypes, BoundsAssumption DEF Types, Versions
    <3>5. baseline' >= loc[g].mine /\ baseline' >= files
      BY <3>1, <3>3, <3>4
    <3> QED
      BY <3>1, <3>2, <3>3, <3>5 DEF Good, Sound, Fresh, CaughtUp, Kind
  <2> QED
    BY <2>1, <2>2
<1>6. ASSUME NEW h \in Handlers, ReadConfiguration(h)
      PROVE  Good(g)'
  <2>1. CASE Fails(h)
    BY <2>1, FailGood
  <2>2. CASE ~Fails(h) /\ g # h
    BY <1>6, <2>2, OthersGood DEF ReadConfiguration, Goes, Same, Types
  <2>3. CASE ~Fails(h) /\ g = h
    <3>1. /\ pc'[g] \in {"lock", "observe"} /\ loc'[g].mine = loc[g].mine
      BY <1>6, <2>3 DEF ReadConfiguration, Goes, Types, Locals
    <3> QED
      BY <3>1 DEF Good, Sound, Fresh, CaughtUp, History
  <2> QED
    BY <2>1, <2>2, <2>3
<1> QED
  BY <1>2, <1>3, <1>4, <1>5, <1>6 DEF Helper

\* A handler's own step, but Save: neither the copy nor what was accepted change.
LEMMA StepGood ==
  ASSUME ReconcileInv, NEW h \in Handlers, Step(h), ~Save(h), NEW g \in Handlers
  PROVE  Good(g)'
<1>0. /\ Types /\ Good(g) /\ Placed(g)
  BY GoodParts DEF ReconcileInv, PlaceInv
<1>a. History /\ files' = files /\ bypassed' = bypassed
  BY DEF Step, LockHosts, Setting, GiveUp, DatabaseFails, Observe, Pointer, Answer, remote,
     copy, History
<1> USE <1>0, <1>a
<1>1. CASE GiveUp(h) \/ DatabaseFails(h)
  BY <1>1, FailGood DEF GiveUp, DatabaseFails
<1>2. CASE (LockHosts(h) \/ Setting(h) \/ Observe(h) \/ Pointer(h) \/ Answer(h)) /\ g # h
  BY <1>2, OthersGood DEF LockHosts, Setting, Observe, Pointer, Answer, Goes, Same, Types
<1>3. CASE (LockHosts(h) \/ Setting(h)) /\ g = h
  <2>1. pc'[g] \in {"call", "read", "fetch"} /\ loc' = loc
    BY <1>3 DEF LockHosts, Setting, Goes, Types
  <2> QED
    BY <2>1 DEF Good, Sound, Fresh, CaughtUp, Kind, History
<1>4. CASE Observe(h) /\ g = h
  \* No drift means that what was read is what an accepted baseline holds.
  <2>1. /\ pc'[g] = "pointer" /\ loc'[g].known = files /\ loc'[g].seen = loc[g].seen
        /\ loc'[g].drift = (files = 0 \/ image[files] # loc[g].seen)
        /\ loc'[g].mine = loc[g].mine
    BY <1>4 DEF Observe, Goes, Types, Locals
  <2>2. files \in accepted \union {0} /\ image' = image /\ accepted' = accepted
    BY <1>4 DEF ReconcileInv, CopyInv, Observe, remote
  <2> QED
    BY <2>1, <2>2 DEF Good, Sound, Fresh, CaughtUp, Kind
<1>5. CASE Pointer(h) /\ g = h
  <2>1. /\ pc[g] = "pointer" /\ pc'[g] = "answer" /\ loc'[g].shown = files
        /\ loc'[g].known = loc[g].known /\ loc'[g].kind = loc[g].kind
        /\ loc'[g].seen = loc[g].seen /\ loc'[g].ok = loc[g].ok
        /\ loc'[g].drift = loc[g].drift /\ loc'[g].mine = loc[g].mine
    BY <1>5 DEF Pointer, Goes, Types, Locals, ReconcileInv, CopyInv
  <2>2. Kind(g) \in Reads
    BY <2>1 DEF Placed
  <2> QED
    BY <2>1, <2>2 DEF Good, Sound, Fresh, CaughtUp, Kind, History, Reads, Changes, Writes
<1>6. CASE Answer(h) /\ g = h
  <2>1. pc'[g] = "idle" /\ loc'[g].mine = 0
    BY <1>6 DEF Answer, Goes, Types, NoLocals
  <2> QED
    BY <2>1 DEF Good, Sound, Fresh, CaughtUp
<1> QED
  BY <1>1, <1>2, <1>3, <1>4, <1>5, <1>6 DEF Step

\* Only one handler inside the mutex saves at a time; GET /status saves beside
\* it, and from then on nothing is claimed.
LEMMA SaveGood ==
  ASSUME ReconcileInv, NEW h \in Handlers, Save(h), NEW g \in Handlers
  PROVE  Good(g)'
<1>0. /\ Types /\ Good(g) /\ Good(h) /\ Placed(g) /\ Placed(h) /\ Placed(g)'
  BY GoodParts, StepPlaced DEF ReconcileInv, PlaceInv, Step
<1>1. History /\ UNCHANGED <<accepted, image, mu>> /\ pc[h] = "save" /\ files' = loc[h].base
  BY DEF Save, remote, History
<1> USE <1>0, <1>1
<1>2. Sound(g)'
  <2>1. CASE g # h
    BY <2>1, OthersSound DEF Save, Goes, Same, Good, Types
  <2>2. CASE g = h
    <3>1. pc'[g] \in {"fetch", "answer"} /\ loc'[g].mine = loc[g].mine /\ loc'[g].kind = loc[g].kind
          /\ (pc'[g] = "answer" => Kind(g) \notin Reads)
      BY <2>2 DEF Save, Goes, AfterSync, Types, Locals
    <3> QED
      BY <3>1 DEF Good, Sound, Kind
  <2> QED
    BY <2>1, <2>2
<1>3. ASSUME ~bypassed'
      PROVE  Fresh(g)'
  <2>1. ~bypassed /\ Kind(h) # "status"
    BY <1>3 DEF Save, Types
  <2>2. mu = h
    BY <2>1 DEF Placed, Inside
  <2>3. CASE g # h
    <3>1. ~Inside(g)'
      BY <2>2, <2>3 DEF Save, Goes, Same, Placed, Inside, Returning, Kind, Types
    <3> QED
      BY <3>1 DEF Placed, Inside, Fresh, CaughtUp, Kind, Changes, Writes, Reads
  <2>4. CASE g = h
    <3>1. /\ pc'[g] \in {"fetch", "answer"} /\ loc'[g].mine = loc[g].mine
          /\ loc'[g].kind = loc[g].kind /\ (pc'[g] = "answer" => Kind(g) \notin Reads)
      BY <2>4 DEF Save, Goes, AfterSync, Types, Locals
    <3>2. files' >= loc[g].mine
      BY <2>1, <2>4 DEF Good, Fresh
    <3> QED
      BY <3>1, <3>2 DEF Fresh, CaughtUp, Kind, Reads
  <2> QED
    BY <2>3, <2>4
<1> QED
  BY <1>2, <1>3 DEF Good

LEMMA ArriveGood ==
  ASSUME ReconcileInv, NEW h \in Requests, NEW kind \in Changes \union Reads,
         NEW seen \in Contents \union {Nobody}, Arrive(h, kind, seen), NEW g \in Handlers
  PROVE  Good(g)'
<1>0. /\ Types /\ Good(g) /\ History /\ files' = files /\ bypassed' = bypassed
  BY GoodParts DEF ReconcileInv, Arrive, remote, copy, History
<1>1. CASE g # h
  BY <1>0, <1>1, OthersGood DEF Arrive, Goes, Same, Types
<1>2. CASE g = h
  <2>1. pc'[g] \in {"call", "fetch", "setting"} /\ loc'[g].mine = 0
    BY <1>0, <1>2 DEF Arrive, Goes, NoLocals, Types
  <2> QED
    BY <2>1 DEF Good, Sound, Fresh, CaughtUp
<1> QED
  BY <1>1, <1>2

LEMMA TroubleGood ==
  ASSUME ReconcileInv, HelperRestarts \/ Restart \/ \E c \in Contents : Edit(c),
         NEW g \in Handlers
  PROVE  Good(g)'
<1>0. /\ Types /\ Good(g) /\ History /\ files' = files /\ bypassed' = bypassed
  BY GoodParts, HelperRestartStep DEF ReconcileInv, HelperRestarts, Restart, Edit, remote, copy,
     History
<1>1. CASE HelperRestarts
  <2>1. CASE pc[g] \in Waits
    BY <1>0, <1>1, <2>1, FailedGood DEF HelperRestarts
  <2>2. CASE pc[g] \notin Waits
    BY <1>0, <1>1, <2>2, OthersGood DEF HelperRestarts, Same
  <2> QED
    BY <2>1, <2>2
<1>2. CASE Restart
  <2>1. pc'[g] \in {"read", "idle"} /\ loc'[g].mine = 0
    BY <1>2 DEF Restart, NoLocals
  <2> QED
    BY <2>1 DEF Good, Sound, Fresh, CaughtUp
<1>3. CASE \E c \in Contents : Edit(c)
  BY <1>0, <1>3, OthersGood DEF Edit, Same
<1> QED
  BY <1>1, <1>2, <1>3

-----------------------------------------------------------------------------
LEMMA CopyStays ==
  ASSUME ReconcileInv, History, copy' = copy
  PROVE  files' = pointer' /\ files' \in accepted' \union {0}
BY DEF ReconcileInv, CopyInv, History, copy

LEMMA NextInv ==
  ASSUME ReconcileInv, Next
  PROVE  ReconcileInv'
<1>1. Types'
  BY HelperTypes, WebTypes, TroubleTypes DEF Next, Handlers
<1>2. \A g \in Handlers : Placed(g)'
  BY HelperPlaced, StepPlaced, ArrivePlaced, TroublePlaced DEF Next
<1>3. \A g \in Handlers : Good(g)'
  BY HelperGood, StepGood, SaveGood, ArriveGood, TroubleGood DEF Next
<1>4. HelperInv' /\ files' = pointer' /\ files' \in accepted' \union {0}
  <2>1. CASE Helper
    BY <2>1, HelperStep, CopyStays DEF Helper
  <2>2. CASE HelperRestarts
    BY <2>2, HelperRestartStep, CopyStays DEF HelperRestarts
  <2>3. CASE \E c \in Contents : Edit(c)
    <3>1. UNCHANGED <<baseline, journal, accepted, drawn, run, copy, image>>
      BY <2>3 DEF Edit
    <3> QED
      BY <3>1, CopyStays DEF ReconcileInv, HelperInv, Free, Settled, Newest, History
  <2>4. ASSUME NEW h \in Handlers, Save(h)
        PROVE  HelperInv' /\ files' = pointer' /\ files' \in accepted' \union {0}
    <3>1. /\ UNCHANGED remote /\ run' = run /\ files' = loc[h].base /\ pointer' = loc[h].base
          /\ loc[h].base \in accepted
      BY <2>4 DEF Save, ReconcileInv, CopyInv, Sound
    <3> QED
      BY <3>1, WebHelper DEF remote
  <2>5. ASSUME NEW h \in Handlers, \/ Step(h) /\ ~Save(h)
                                  \/ Restart
                                  \/ \E kind \in Changes \union Reads,
                                        seen \in Contents \union {Nobody} : Arrive(h, kind, seen)
        PROVE  HelperInv' /\ files' = pointer' /\ files' \in accepted' \union {0}
    <3>1. UNCHANGED remote /\ copy' = copy /\ History
      BY <2>5 DEF Step, LockHosts, Setting, GiveUp, DatabaseFails, Observe, Pointer, Answer,
         Arrive, Restart, History, remote, copy
    <3>2. run' = run \/ run' = [run EXCEPT !.who = Nobody]
      BY <2>5 DEF Step, LockHosts, Setting, GiveUp, DatabaseFails, Observe, Pointer, Answer,
         Arrive, Restart, Abandon
    <3> QED
      BY <3>1, <3>2, WebHelper, CopyStays
  <2> QED
    BY <2>1, <2>2, <2>3, <2>4, <2>5 DEF Next, Handlers
<1> QED
  BY <1>1, <1>2, <1>3, <1>4 DEF ReconcileInv, PlaceInv, CopyInv, FreshInv, Good

LEMMA StutterInv ==
  ASSUME ReconcileInv, UNCHANGED vars
  PROVE  ReconcileInv'
<1>1. Types'
  BY DEF ReconcileInv, Types, vars
<1>2. HelperInv'
  BY DEF ReconcileInv, HelperInv, Free, Settled, Newest, vars
<1>3. PlaceInv'
  BY OthersPlaced DEF ReconcileInv, PlaceInv, Same, vars
<1>4. CopyInv'
  BY OthersSound DEF ReconcileInv, CopyInv, Same, History, vars
<1>5. FreshInv'
  BY OthersFresh DEF ReconcileInv, FreshInv, Same, vars
<1> QED
  BY <1>1, <1>2, <1>3, <1>4, <1>5 DEF ReconcileInv

\* The inductive invariant: what the helper would answer is the newest accepted
\* baseline, and what a handler inside the mutex has read of it is no older than
\* its own mutation and than the copy.
THEOREM Invariant == Spec => []ReconcileInv
<1>1. ReconcileInv /\ [Next]_vars => ReconcileInv'
  BY NextInv, StutterInv
<1> QED
  BY InitInv, <1>1, PTL DEF Spec

\* Types, mutual exclusion of mutate, GET /config and Bootstrap, and no holder
\* that is gone or waits for the mutex itself.
THEOREM TypesHold == Spec => []TypeOK
  BY Invariant, InvParts, PTL

\* Whatever is lost and whoever dies, SQLite holds the baseline of a transaction
\* that committed (mutate, syncBaseline, SaveBaseline).
THEOREM CopyIsAccepted == Spec => []CopyWasAccepted
  BY Invariant, InvParts, PTL

\* No response of GET /config or GET /status denies drift of a content that was
\* never accepted, and GET /config names the baseline it compared with
\* (ObserveFiles, configuration under the mutex).
THEOREM DriftIsHonest == Spec => []HonestDrift
  BY Invariant, InvParts, PTL

\* A mutation answered with 200 is in the copy (mutate), unless GET /status has
\* saved beside it.
THEOREM AnsweredMutationIsCopied == Spec => []AnsweredIsCopied
  BY Invariant, InvParts, PTL

\* The copy only moves forward (syncBaseline under the mutex).
THEOREM CopyNeverGoesBack == Spec => NeverGoesBack
<1>1. ReconcileInv /\ [Next]_vars => [~bypassed' => files' >= files]_vars
  <2> SUFFICES ASSUME ReconcileInv, Next, ~bypassed'
               PROVE  files' >= files
    OBVIOUS
  <2>0. files \in Nat
    BY BoundsAssumption DEF ReconcileInv, Types, MaybeVersions
  <2>1. ASSUME NEW h \in Handlers, Save(h)
        PROVE  files' >= files
    <3>1. ~bypassed /\ Kind(h) # "status" /\ pc[h] = "save" /\ files' = loc[h].base
      BY <2>1 DEF Save, ReconcileInv, Types
    <3> QED
      BY <3>1 DEF ReconcileInv, FreshInv, Fresh
  <2>2. CASE \A h \in Handlers : ~Save(h)
    <3>1. files' = files
      BY <2>2 DEF Next, Helper, HelperRestarts, Edit, Arrive, Step, LockHosts, Setting, GiveUp,
         DatabaseFails, Observe, Pointer, Answer, Restart, copy
    <3> QED
      BY <2>0, <3>1
  <2> QED
    BY <2>1, <2>2
<1> QED
  BY Invariant, <1>1, PTL DEF Spec, NeverGoesBack

-----------------------------------------------------------------------------
\* No handler goes round in circles: the steps it has left at most.
Left(h) ==
  CASE pc[h] = "idle"    -> 0
    [] pc[h] = "answer"  -> 1
    [] pc[h] = "pointer" -> 2
    [] pc[h] = "observe" -> 3
    [] pc[h] = "fetch"   -> IF Kind(h) = "hosts" THEN 9 ELSE 4
    [] pc[h] = "save"    -> 5
    [] pc[h] = "read"    -> 6
    [] pc[h] \in {"call", "setting"} -> 7
    [] pc[h] = "lock"    -> 8

Advances(h) == Left(h)' < Left(h)

LEMMA LeftBounded ==
  ASSUME Types, NEW h \in Handlers
  PROVE  Left(h) \in 0 .. 9
<1>1. pc[h] \in PCs
  BY DEF Types
<1> QED
  BY <1>1 DEF Left, PCs, Waits

\* An error shortens a request: it has its answer left, or the reconciliation
\* that comes behind a mutation all the same.
LEMMA FailedAdvances ==
  ASSUME NEW g, pc[g] \in Waits \union {"setting", "save", "observe", "pointer"},
         pc'[g] = AfterFailure(g)
  PROVE  Advances(g)
<1>1. CASE pc[g] = "call"
  BY <1>1 DEF AfterFailure, Advances, Left
<1>2. CASE pc[g] # "call"
  <2>1. Left(g)' = 1
    BY <1>2 DEF AfterFailure, Left
  <2>2. Left(g) \in 2 .. 9
    BY <1>2 DEF Left, Waits
  <2> QED
    BY <2>1, <2>2 DEF Advances
<1> QED
  BY <1>1, <1>2

LEMMA FailAdvances ==
  ASSUME Types, NEW h \in Handlers, Fails(h),
         pc[h] \in Waits \union {"setting", "save", "observe", "pointer"}
  PROVE  Advances(h) /\ \A g \in Handlers \ {h} : Same(g)
<1>1. pc'[h] = AfterFailure(h)
  BY DEF Fails, Goes, Types
<1>2. \A g \in Handlers \ {h} : Same(g)
  BY DEF Fails, Goes, Types, Same
<1> QED
  BY <1>1, <1>2, FailedAdvances

LEMMA AnswerAdvances ==
  ASSUME Types, NEW h \in Requests \union {Nobody}, NEW v,
         AnswersWell(h, v) \/ AnswersError(h),
         h # Nobody => pc[h] = "call",
         NEW g \in Handlers
  PROVE  Advances(g) \/ Same(g)
<1>1. CASE h = Nobody
  BY <1>1 DEF AnswersWell, AnswersError, Same
<1>2. CASE h # Nobody /\ AnswersError(h)
  BY <1>2, FailAdvances DEF AnswersError, Handlers, Waits
<1>3. CASE h # Nobody /\ AnswersWell(h, v)
  <2>1. pc[h] = "call" /\ pc'[h] = "read" /\ \A x \in Handlers \ {h} : Same(x)
    BY <1>3 DEF AnswersWell, Goes, Types, Same, Handlers
  <2> QED
    BY <2>1 DEF Advances, Left
<1> QED
  BY <1>1, <1>2, <1>3

LEMMA HelperAdvances ==
  ASSUME ReconcileInv, Helper, NEW g \in Handlers
  PROVE  Advances(g) \/ Same(g)
<1>0. Types /\ \A h \in Requests : run.who = h => pc[h] = "call"
  BY DEF ReconcileInv, PlaceInv, Placed, Handlers
<1>1. ASSUME NEW h \in Requests \union {Nobody}, NEW kind \in Changes, NEW seen \in Contents,
             Refuse(h, kind, seen) \/ Untouched(h, kind, seen) \/ Accept(h, kind, seen)
      PROVE  Advances(g) \/ Same(g)
  <2>1. h # Nobody => pc[h] = "call"
    BY <1>1 DEF Refuse, Untouched, Accept, Takes
  <2>2. \E v : AnswersWell(h, v) \/ AnswersError(h)
    BY <1>1 DEF Refuse, Untouched, Accept
  <2> QED
    BY <1>0, <2>1, <2>2, AnswerAdvances
<1>2. ASSUME NEW h, NEW kind, NEW seen, NEW c, Begin(h, kind, seen, c)
      PROVE  Same(g)
  BY <1>2 DEF Begin, Same
<1>3. CASE Point \/ ReadForBrowser
  BY <1>3 DEF Point, ReadForBrowser, Same
<1>4. CASE Finish \/ Undo \/ Stick
  <2>1. run.who \in Requests \union {Nobody}
    BY <1>0 DEF Types
  <2>2. \E v : AnswersWell(run.who, v) \/ AnswersError(run.who)
    BY <1>4 DEF Finish, Undo, Stick
  <2> QED
    BY <1>0, <2>1, <2>2, AnswerAdvances
<1>5. ASSUME NEW h \in Handlers, ReadBaseline(h)
      PROVE  Advances(g) \/ Same(g)
  <2>1. pc[h] = "read" /\ pc'[h] = "save" /\ \A x \in Handlers \ {h} : Same(x)
    BY <1>0, <1>5 DEF ReadBaseline, Goes, Types, Same
  <2> QED
    BY <2>1 DEF Advances, Left
<1>6. ASSUME NEW h \in Handlers, ReadConfiguration(h)
      PROVE  Advances(g) \/ Same(g)
  <2>1. CASE Fails(h)
    BY <1>0, <1>6, <2>1, FailAdvances DEF ReadConfiguration, Waits
  <2>2. CASE ~Fails(h)
    <3>1. /\ pc[h] = "fetch" /\ \A x \in Handlers \ {h} : Same(x)
          /\ IF Kind(h) = "hosts" THEN pc'[h] = "lock" ELSE pc'[h] = "observe"
      BY <1>0, <1>6, <2>2 DEF ReadConfiguration, Goes, Types, Same
    <3>2. Advances(h)
      BY <3>1 DEF Advances, Left
    <3> QED
      BY <3>1, <3>2
  <2> QED
    BY <2>1, <2>2
<1> QED
  BY <1>1, <1>2, <1>3, <1>4, <1>5, <1>6 DEF Helper, Mutation

LEMMA StepAdvances ==
  ASSUME ReconcileInv, NEW h \in Handlers, Step(h)
  PROVE  Advances(h) /\ \A g \in Handlers \ {h} : Same(g)
<1>0. Types /\ Placed(h)
  BY DEF ReconcileInv, PlaceInv
<1>1. CASE GiveUp(h) \/ DatabaseFails(h)
  BY <1>0, <1>1, FailAdvances DEF GiveUp, DatabaseFails
<1>2. CASE LockHosts(h) \/ Setting(h) \/ Save(h) \/ Observe(h) \/ Pointer(h) \/ Answer(h)
  <2>1. \A g \in Handlers \ {h} : Same(g)
    BY <1>0, <1>2 DEF LockHosts, Setting, Save, Observe, Pointer, Answer, Goes, Types, Same
  <2>2. \/ pc[h] = "lock" /\ pc'[h] = "call"
        \/ pc[h] = "setting" /\ pc'[h] = "read"
        \/ pc[h] \in {"setting", "save"} /\ pc'[h] = "fetch" /\ Kind(h)' = Kind(h) /\ Kind(h) \in Reads
        \/ pc[h] = "save" /\ pc'[h] = "answer"
        \/ pc[h] = "observe" /\ pc'[h] = "pointer"
        \/ pc[h] = "pointer" /\ pc'[h] = "answer"
        \/ pc[h] = "answer" /\ pc'[h] = "idle"
    <3>1. CASE LockHosts(h)
      BY <1>0, <3>1 DEF LockHosts, Goes, Types
    <3>2. CASE Setting(h)
      BY <1>0, <3>2 DEF Setting, Goes, Types, Placed, Kind
    <3>3. CASE Save(h)
      <4>1. pc[h] = "save" /\ pc'[h] = AfterSync(h) /\ Kind(h)' = Kind(h)
        BY <1>0, <3>3 DEF Save, Goes, Types, Locals, Kind
      <4> QED
        BY <4>1 DEF AfterSync
    <3>4. CASE Observe(h) \/ Pointer(h) \/ Answer(h)
      BY <1>0, <3>4 DEF Observe, Pointer, Answer, Goes, Types
    <3> QED
      BY <1>2, <3>1, <3>2, <3>3, <3>4
  <2> QED
    BY <2>1, <2>2 DEF Advances, Left, Reads
<1> QED
  BY <1>1, <1>2 DEF Step

\* A request ends after nine steps at most, its own and the helper's answers to
\* it, whatever the helper, the database and the other requests do; and whoever
\* holds the mutex has no lock to wait for (TypeOK).  So nobody waits for ever
\* for the mutex, as long as each holder goes on: an answer of the helper that
\* does not come is given up by the deadline (mutate, configuration, Bootstrap).
THEOREM RequestsAreBounded ==
  Spec => /\ [](\A h \in Handlers : Left(h) \in 0 .. 9)
          /\ [][\A h \in Handlers :
                  /\ Step(h) => Advances(h)
                  /\ Advances(h) \/ Same(h) \/ pc[h] = "idle" \/ Restart]_vars
<1>1. ReconcileInv => \A h \in Handlers : Left(h) \in 0 .. 9
  BY LeftBounded DEF ReconcileInv
<1>2. ASSUME ReconcileInv, Next, NEW g \in Handlers
      PROVE  Advances(g) \/ Same(g) \/ pc[g] = "idle" \/ Restart
  <2>1. CASE HelperRestarts
    <3>1. CASE pc[g] \in Waits
      BY <2>1, <3>1, FailedAdvances DEF HelperRestarts
    <3>2. CASE pc[g] \notin Waits
      BY <2>1, <3>2 DEF HelperRestarts, Same
    <3> QED
      BY <3>1, <3>2
  <2>2. ASSUME NEW c \in Contents, Edit(c)
        PROVE  Same(g)
    BY <2>2 DEF Edit, Same
  <2>3. ASSUME NEW h \in Requests, NEW kind, NEW seen, Arrive(h, kind, seen)
        PROVE  Same(g) \/ pc[g] = "idle"
    BY <1>2, <2>3 DEF Arrive, Goes, Same, ReconcileInv, Types
  <2>4. ASSUME NEW h \in Handlers, Step(h)
        PROVE  Advances(g) \/ Same(g)
    BY <1>2, <2>4, StepAdvances
  <2> QED
    BY <1>2, <2>1, <2>2, <2>3, <2>4, HelperAdvances DEF Next
<1>3. ReconcileInv /\ [Next]_vars =>
        [\A h \in Handlers : /\ Step(h) => Advances(h)
                             /\ Advances(h) \/ Same(h) \/ pc[h] = "idle" \/ Restart]_vars
  BY <1>2, StepAdvances
<1> QED
  BY Invariant, <1>1, <1>3, PTL DEF Spec
=============================================================================
