-------------------------- MODULE ConfigEventsProofs --------------------------
(***************************************************************************)
(* No change is lost on its way to the browsers, for every number of       *)
(* streams, slots, changes, saves and errors.  The inductive invariant is  *)
(* TypeOK, NoDeafDirectory and NoLostChange together: that a change is     *)
(* seen needs that an unwatched directory is about to be attached.         *)
(* Between two changes everybody comes to rest, with the present state     *)
(* shown; only a handler that is stuck in its first send never gets there. *)
(***************************************************************************)
EXTENDS ConfigEvents, FiniteSetTheorems, TLAPS

EventsInv == TypeOK /\ NoDeafDirectory /\ NoLostChange

\* The part of TypeOK that does not count.
Types ==
  /\ version \in 1 .. MaxChanges + 1
  /\ present \in {{}, {"conf"}, Dirs} /\ watched \subseteq Dirs
  /\ queued \in BOOLEAN /\ errors \in BOOLEAN /\ timer \in BOOLEAN
  /\ wpc \in WPCs
  /\ save \in {"idle", "working", "unlock"} /\ saves \in 0 .. MaxSaves
  /\ pc \in [Streams -> PCs]
  /\ full \subseteq Subscribers
  /\ held \in [Streams -> 0 .. MaxChanges + 1]
  /\ shown \in [Streams -> 0 .. MaxChanges + 1]
  /\ standing \in [Streams -> {"valid", "revoked", "expired", "gone"}]
  /\ raised \in 0 .. MaxErrors

SlotLimit == Cardinality(Holders) <= Slots

LEMMA TypeOKParts == TypeOK <=> Types /\ SlotLimit
  BY DEF TypeOK, Types, SlotLimit

-----------------------------------------------------------------------------
LEMMA DirectoryTypes ==
  ASSUME Types, Directory
  PROVE  Types'
<1> USE LimitsAssumption DEF disks, watcher, mutation, streams, outside
<1>1. ASSUME NEW d \in Dirs, Edit(d)
      PROVE  Types'
  BY <1>1 DEF Types, Edit, Subscribers
<1>2. ASSUME NEW d \in Dirs, Vanish(d)
      PROVE  Types'
  <2>1. present' \in {{}, {"conf"}, Dirs}
    BY <1>2 DEF Types, Vanish, Dirs
  <2> QED
    BY <1>2, <2>1 DEF Types, Vanish, Seen, Subscribers
<1>3. ASSUME NEW d \in Dirs, NEW with \in SUBSET Dirs, Appear(d, with)
      PROVE  Types'
  <2>1. present' \in {{}, {"conf"}, Dirs}
    BY <1>3 DEF Types, Appear, Dirs
  <2> QED
    BY <1>3, <2>1 DEF Types, Appear, Seen, Subscribers
<1>4. CASE Overflow
  BY <1>4 DEF Types, Overflow, Subscribers
<1> QED
  BY <1>1, <1>2, <1>3, <1>4 DEF Directory

LEMMA WatchTypes ==
  ASSUME Types, Watch
  PROVE  Types'
<1> USE DEF disks, watcher, mutation, streams, Subscribers
<1>1. CASE AttachConf
  BY <1>1 DEF Types, AttachConf, Attach, Dirs, WPCs
<1>2. CASE AttachServices
  BY <1>2 DEF Types, AttachServices, Attach, Dirs, WPCs
<1>3. CASE Changed
  BY <1>3 DEF Types, Changed, Tokens, WPCs
<1>4. CASE TakeEvent
  BY <1>4 DEF Types, TakeEvent
<1>5. CASE TakeError
  BY <1>5 DEF Types, TakeError, WPCs
<1>6. CASE Tick
  BY <1>6 DEF Types, Tick, WPCs
<1> QED
  BY <1>1, <1>2, <1>3, <1>4, <1>5, <1>6 DEF Watch

LEMMA MutateTypes ==
  ASSUME Types, Mutate
  PROVE  Types'
<1> USE DEF disks, watcher, mutation, streams, Subscribers
<1>1. CASE SaveBegins
  BY <1>1, LimitsAssumption DEF Types, SaveBegins
<1>2. CASE SaveNotifies
  BY <1>2 DEF Types, SaveNotifies, Tokens
<1>3. CASE SaveUnlocks
  BY <1>3 DEF Types, SaveUnlocks
<1> QED
  BY <1>1, <1>2, <1>3 DEF Mutate

LEMMA HandlerTypes ==
  ASSUME Types, NEW s \in Streams, Handler(s) \/ Client(s)
  PROVE  Types'
<1> USE DEF disks, watcher, mutation, streams, outside, Subscribers, PCs, SlotPCs, Step, Ends
<1>1. CASE Subscribe(s)
  BY <1>1 DEF Types, Subscribe
<1>2. CASE Hello(s)
  BY <1>2 DEF Types, Hello
<1>3. CASE TakeSlot(s)
  BY <1>3 DEF Types, TakeSlot
<1>4. CASE Update(s)
  BY <1>4 DEF Types, Update
<1>5. CASE LockMutex(s)
  BY <1>5 DEF Types, LockMutex
<1>6. CASE Read(s)
  BY <1>6, LimitsAssumption DEF Types, Read
<1>7. CASE Write(s)
  BY <1>7, LimitsAssumption DEF Types, Write
<1>8. CASE WriteFails(s) \/ Done(s) \/ Heartbeat(s) \/ HeartbeatFails(s)
  BY <1>8 DEF Types, WriteFails, Done, Heartbeat, HeartbeatFails
<1>9. CASE Unsubscribe(s)
  BY <1>9, LimitsAssumption DEF Types, Unsubscribe
<1>10. ASSUME NEW to \in {"revoked", "expired", "gone"}, LosesStanding(s, to)
       PROVE  Types'
  BY <1>10 DEF Types, LosesStanding
<1> QED
  BY <1>1, <1>2, <1>3, <1>4, <1>5, <1>6, <1>7, <1>8, <1>9, <1>10 DEF Handler, Client

\* Only TakeSlot adds a holder, and only when there is a slot.
LEMMA SlotStep ==
  ASSUME TypeOK, Next
  PROVE  SlotLimit'
<1> DEFINE Fewer == Holders' \subseteq Holders
<1> USE DEF Holders, Looping, SlotPCs
<1>0. IsFiniteSet(Holders) /\ Cardinality(Holders) \in Nat
  BY StreamsAssumption, FS_Subset, FS_CardinalityType
<1>1. ASSUME Fewer
      PROVE  SlotLimit'
  <2>1. Cardinality(Holders') <= Cardinality(Holders) /\ Cardinality(Holders') \in Nat
    BY <1>0, <1>1, FS_Subset, FS_CardinalityType
  <2> QED
    BY <1>0, <2>1, TypeOKParts, LimitsAssumption DEF SlotLimit
<1>2. CASE Directory \/ Watch \/ Mutate
  <2>1. pc' = pc
    BY <1>2 DEF Directory, Edit, Vanish, Appear, Overflow, Watch, AttachConf,
       AttachServices, Attach, Changed, TakeEvent, TakeError, Tick, Mutate, SaveBegins,
       SaveNotifies, SaveUnlocks, streams
  <2> QED
    BY <1>1, <2>1
<1>3. ASSUME NEW s \in Streams, Handler(s) \/ Client(s)
      PROVE  SlotLimit'
  <2> USE DEF Step, Ends
  <2>1. CASE TakeSlot(s)
    <3>1. CASE ~SlotFree
      BY <1>1, <2>1, <3>1 DEF TakeSlot, TypeOK
    <3>2. CASE SlotFree
      <4>1. Holders' = Holders \union {s} /\ s \notin Holders
        BY <2>1, <3>2 DEF TakeSlot, TypeOK
      <4>2. Cardinality(Holders') = Cardinality(Holders) + 1
        BY <1>0, <4>1, FS_AddElement
      <4> QED
        BY <1>0, <3>2, <4>2, LimitsAssumption DEF SlotFree, SlotLimit
    <3> QED
      BY <3>1, <3>2
  <2>2. CASE Subscribe(s) \/ Hello(s) \/ Update(s) \/ LockMutex(s) \/ Read(s) \/ Write(s)
    BY <1>1, <2>2 DEF TypeOK, Subscribe, Hello, Update, LockMutex, Read, Write
  <2>3. CASE WriteFails(s) \/ Done(s) \/ Heartbeat(s) \/ HeartbeatFails(s) \/ Unsubscribe(s)
    BY <1>1, <2>3 DEF TypeOK, WriteFails, Done, Heartbeat, HeartbeatFails, Unsubscribe
  <2>4. ASSUME NEW to \in {"revoked", "expired", "gone"}, LosesStanding(s, to)
        PROVE  Fewer
    BY <2>4 DEF LosesStanding
  <2> QED
    BY <1>1, <1>3, <2>1, <2>2, <2>3, <2>4 DEF Handler, Client
<1> QED
  BY <1>2, <1>3 DEF Next

LEMMA TypeStep ==
  ASSUME TypeOK, Next
  PROVE  TypeOK'
<1>1. Types'
  BY TypeOKParts, DirectoryTypes, WatchTypes, MutateTypes, HandlerTypes DEF Next
<1>2. SlotLimit'
  BY SlotStep
<1> QED
  BY <1>1, <1>2 DEF TypeOK, Types, SlotLimit

-----------------------------------------------------------------------------
\* A directory loses its watch, or appears without one, only with an event.
LEMMA DeafStep ==
  ASSUME TypeOK, NoDeafDirectory, Next
  PROVE  NoDeafDirectory'
<1> USE DEF NoDeafDirectory, AttachAhead, disks, watcher, mutation, streams, outside
<1>1. CASE Directory
  <2>1. ASSUME NEW d \in Dirs, Edit(d)
        PROVE  NoDeafDirectory'
    BY <2>1 DEF Edit, TypeOK
  <2>2. ASSUME NEW d \in Dirs, Vanish(d)
        PROVE  NoDeafDirectory'
    BY <2>2 DEF Vanish, Seen, Dirs, TypeOK
  <2>3. ASSUME NEW d \in Dirs, NEW with \in SUBSET Dirs, Appear(d, with)
        PROVE  NoDeafDirectory'
    BY <2>3 DEF Appear, Seen, Dirs, TypeOK
  <2>4. CASE Overflow
    BY <2>4 DEF Overflow
  <2> QED
    BY <1>1, <2>1, <2>2, <2>3, <2>4 DEF Directory
<1>2. CASE AttachConf \/ AttachServices
  BY <1>2 DEF AttachConf, AttachServices, Attach, Dirs, TypeOK
<1>3. CASE Changed \/ TakeEvent \/ TakeError \/ Tick
  BY <1>3 DEF Changed, TakeEvent, TakeError, Tick
<1>4. CASE Mutate
  BY <1>4 DEF Mutate, SaveBegins, SaveNotifies, SaveUnlocks
<1>5. ASSUME NEW s \in Streams, Handler(s) \/ Client(s)
      PROVE  NoDeafDirectory'
  <2>1. UNCHANGED <<disks, watcher>>
    BY <1>5 DEF Handler, Client, Subscribe, Hello, TakeSlot, Update, LockMutex, Read,
       Write, Ends, WriteFails, Done, Heartbeat, HeartbeatFails, Unsubscribe, LosesStanding
  <2> QED
    BY <2>1
<1> QED
  BY <1>1, <1>2, <1>3, <1>4, <1>5 DEF Next, Watch

\* Every change of the directory leaves a notification ahead.
LEMMA ChangeIsNoticed ==
  ASSUME TypeOK, NoDeafDirectory, NEW d \in Dirs,
         Edit(d) \/ Vanish(d) \/ \E with \in SUBSET Dirs : Appear(d, with)
  PROVE  NotifyAhead'
<1> USE DEF NoDeafDirectory, AttachAhead, NotifyAhead, mutation, streams
<1>1. CASE Edit(d)
  BY <1>1 DEF Edit, TypeOK
<1>2. CASE Vanish(d)
  BY <1>2 DEF Vanish, Seen, Dirs, TypeOK
<1>3. ASSUME NEW with \in SUBSET Dirs, Appear(d, with)
      PROVE  NotifyAhead'
  BY <1>3 DEF Appear, Seen, Dirs, TypeOK
<1> QED
  BY <1>1, <1>2, <1>3

\* Whoever is at one of these steps is owed the present state.
Owed(s) == Looping(s) \/ pc[s] = "slot"

LEMMA LostStep ==
  ASSUME TypeOK, NoDeafDirectory, NoLostChange, Next
  PROVE  NoLostChange'
<1> USE DEF disks, watcher, mutation, streams, outside
<1> SUFFICES ASSUME NEW t \in Streams, Owed(t)', ~NotifyAhead'
             PROVE  UpToDate(t)'
  BY DEF NoLostChange, Owed
<1>1. Owed(t) /\ ~NotifyAhead => UpToDate(t)
  BY DEF NoLostChange, Owed
<1>2. CASE Directory
  <2>1. CASE Overflow
    BY <2>1 DEF Overflow, NotifyAhead
  <2> QED
    BY <1>2, <2>1, ChangeIsNoticed DEF Directory
<1>3. CASE Watch
  <2>1. CASE Changed
    BY <2>1 DEF Changed, Tokens, Subscribers, UpToDate, Owed, Looping, SlotPCs
  <2>2. CASE AttachConf \/ AttachServices \/ TakeEvent \/ TakeError \/ Tick
    BY <2>2 DEF AttachConf, AttachServices, Attach, TakeEvent, TakeError, Tick, NotifyAhead
  <2> QED
    BY <1>3, <2>1, <2>2 DEF Watch
<1>4. CASE Mutate
  BY <1>1, <1>4 DEF Mutate, SaveBegins, SaveNotifies, SaveUnlocks, NotifyAhead,
     UpToDate, Owed, Looping
<1>5. ASSUME NEW s \in Streams, Handler(s) \/ Client(s)
      PROVE  UpToDate(t)'
  <2> USE DEF Step, Ends, SlotPCs, Looping, Owed, UpToDate, NotifyAhead
  <2>1. CASE Subscribe(s) \/ Hello(s) \/ TakeSlot(s)
    BY <1>1, <2>1 DEF Subscribe, Hello, TakeSlot, TypeOK
  <2>2. CASE Update(s) \/ LockMutex(s)
    BY <1>1, <2>2 DEF Update, LockMutex, TypeOK
  <2>3. CASE Read(s) \/ Write(s)
    BY <1>1, <2>3 DEF Read, Write, TypeOK
  <2>4. CASE WriteFails(s) \/ Done(s) \/ Heartbeat(s) \/ HeartbeatFails(s)
    BY <1>1, <2>4 DEF WriteFails, Done, Heartbeat, HeartbeatFails, TypeOK
  <2>5. CASE Unsubscribe(s)
    BY <1>1, <2>5 DEF Unsubscribe, TypeOK
  <2>6. ASSUME NEW to \in {"revoked", "expired", "gone"}, LosesStanding(s, to)
        PROVE  UpToDate(t)'
    BY <1>1, <2>6 DEF LosesStanding
  <2> QED
    BY <1>5, <2>1, <2>2, <2>3, <2>4, <2>5, <2>6 DEF Handler, Client
<1> QED
  BY <1>2, <1>3, <1>4, <1>5 DEF Next

-----------------------------------------------------------------------------
LEMMA EventsInitial == Init => EventsInv
<1> SUFFICES ASSUME Init
             PROVE  EventsInv
  OBVIOUS
<1>1. Types
  <2>1. pc \in [Streams -> PCs] /\ full \subseteq Subscribers
    BY DEF Init, PCs, Subscribers
  <2>2. /\ held \in [Streams -> 0 .. MaxChanges + 1]
        /\ shown \in [Streams -> 0 .. MaxChanges + 1]
        /\ version \in 1 .. MaxChanges + 1
    BY LimitsAssumption DEF Init
  <2>3. saves \in 0 .. MaxSaves /\ raised \in 0 .. MaxErrors
    BY LimitsAssumption DEF Init
  <2> QED
    BY <2>1, <2>2, <2>3 DEF Init, Types, WPCs
<1>2. SlotLimit
  <2>1. Holders = {}
    BY DEF Init, Holders, Looping, SlotPCs
  <2> QED
    BY <2>1, FS_EmptySet, LimitsAssumption DEF SlotLimit
<1>3. NoDeafDirectory /\ NoLostChange
  BY DEF Init, NoDeafDirectory, AttachAhead, NoLostChange, NotifyAhead
<1> QED
  BY <1>1, <1>2, <1>3, TypeOKParts DEF EventsInv

LEMMA EventsStep == EventsInv /\ [Next]_vars => EventsInv'
<1>1. ASSUME EventsInv, Next
      PROVE  EventsInv'
  BY <1>1, TypeStep, DeafStep, LostStep DEF EventsInv
<1>2. ASSUME EventsInv, UNCHANGED vars
      PROVE  EventsInv'
  BY <1>2 DEF EventsInv, vars, TypeOK, Subscribers, Holders, Looping, NoDeafDirectory,
     AttachAhead, NoLostChange, UpToDate, NotifyAhead
<1> QED
  BY <1>1, <1>2

LEMMA EventsInvariant == Spec => []EventsInv
  BY EventsInitial, EventsStep, PTL DEF Spec

\* Every variable keeps its type and the streams never outnumber the slots.
THEOREM EventsTypes == Spec => []TypeOK
<1>1. EventsInv => TypeOK
  BY DEF EventsInv
<1> QED
  BY <1>1, EventsInvariant, PTL

\* The watcher never goes deaf: watch.go attaches again before it announces.
THEOREM WatcherNeverDeaf == Spec => []NoDeafDirectory
<1>1. EventsInv => NoDeafDirectory
  BY DEF EventsInv
<1> QED
  BY <1>1, EventsInvariant, PTL

\* No change is lost between the watcher, the channels of events.go and the
\* handlers, whatever the number of streams.
THEOREM NoChangeIsLost == Spec => []NoLostChange
<1>1. EventsInv => NoLostChange
  BY DEF EventsInv
<1> QED
  BY <1>1, EventsInvariant, PTL

-----------------------------------------------------------------------------
\* What is left to do until stream s shows the present state, the costliest part
\* first: the watcher's events, its timer, its steps to the next announcement,
\* the token, and the handler's steps to the end of its delivery.

One(b) == IF b THEN 1 ELSE 0

WatcherLeft ==
  IF wpc = "conf" THEN 3 ELSE IF wpc = "services" THEN 2 ELSE IF wpc = "changed" THEN 1 ELSE 0

HandlerLeft(s) ==
  IF pc[s] = "lock" THEN 3 ELSE IF pc[s] = "read" THEN 2 ELSE IF pc[s] = "write" THEN 1 ELSE 0

Ahead(s) ==
  <<One(queued) + One(errors), One(timer), WatcherLeft, One(s \in full), HandlerLeft(s)>>

\* Some part of what is left became less, and none before it more.
Nearer(s) ==
  \E n \in 1 .. 5 : Ahead(s)'[n] < Ahead(s)[n] /\ \A m \in 1 .. n - 1 : Ahead(s)'[m] = Ahead(s)[m]

Settled(s) == Looping(s) /\ \A n \in 1 .. 5 : Ahead(s)[n] = 0

SameAhead(s) == Ahead(s)' = Ahead(s)

Settles(s) ==
  Looping(s) /\ Looping(s)' => Nearer(s) \/ Directory \/ SaveNotifies \/ SameAhead(s)

LEMMA NearerAt ==
  ASSUME NEW s \in Streams, NEW n \in 1 .. 5, Ahead(s)'[n] < Ahead(s)[n],
         \A m \in 1 .. n - 1 : Ahead(s)'[m] = Ahead(s)[m]
  PROVE  Nearer(s)
BY DEF Nearer

LEMMA AheadCounts == \A s \in Streams : \A n \in 1 .. 5 : Ahead(s)[n] \in Nat
<1>1. \A b \in BOOLEAN : One(b) \in Nat
  BY DEF One
<1>2. One(queued) \in Nat /\ One(errors) \in Nat /\ One(timer) \in Nat
  BY DEF One
<1>3. ASSUME NEW s \in Streams
      PROVE  One(s \in full) \in Nat /\ WatcherLeft \in Nat /\ HandlerLeft(s) \in Nat
  BY DEF One, WatcherLeft, HandlerLeft
<1> QED
  BY <1>2, <1>3 DEF Ahead

LEMMA WatchIsNearer ==
  ASSUME TypeOK, NEW s \in Streams, Watch
  PROVE  Nearer(s)
<1>1. CASE AttachConf \/ AttachServices \/ Changed
  <2>1. UNCHANGED <<queued, errors, timer>>
    BY <1>1 DEF AttachConf, AttachServices, Attach, Changed
  <2>2. WatcherLeft' < WatcherLeft
    BY <1>1 DEF AttachConf, AttachServices, Attach, Changed, WatcherLeft
  <2>3. Ahead(s)'[3] < Ahead(s)[3] /\ Ahead(s)'[1] = Ahead(s)[1] /\ Ahead(s)'[2] = Ahead(s)[2]
    BY <2>1, <2>2 DEF Ahead
  <2> QED
    BY <2>3, NearerAt
<1>2. CASE TakeEvent
  <2>1. queued /\ ~queued' /\ errors' = errors
    BY <1>2 DEF TakeEvent
  <2>2. Ahead(s)'[1] < Ahead(s)[1]
    BY <2>1 DEF Ahead, One
  <2> QED
    BY <2>2, NearerAt
<1>3. CASE TakeError
  <2>1. queued' = queued /\ errors /\ ~errors'
    BY <1>3 DEF TakeError
  <2>2. Ahead(s)'[1] < Ahead(s)[1]
    BY <2>1 DEF Ahead, One
  <2> QED
    BY <2>2, NearerAt
<1>4. CASE Tick
  <2>1. UNCHANGED <<queued, errors>> /\ timer /\ ~timer'
    BY <1>4 DEF Tick
  <2>2. Ahead(s)'[2] < Ahead(s)[2] /\ Ahead(s)'[1] = Ahead(s)[1]
    BY <2>1 DEF Ahead, One
  <2> QED
    BY <2>2, NearerAt
<1> QED
  BY <1>1, <1>2, <1>3, <1>4 DEF Watch

\* A handler's step leaves the watcher alone, and the other streams.
LEMMA HandlerFrame ==
  ASSUME TypeOK, NEW s \in Streams, NEW t \in Streams, Handler(t) \/ Client(t)
  PROVE  /\ UNCHANGED <<queued, errors, timer, wpc>>
         /\ s # t => pc'[s] = pc[s] /\ (s \in full' <=> s \in full)
<1> USE DEF outside, watcher, disks, mutation, Step, Ends, TypeOK
<1>1. CASE Subscribe(t) \/ \E to \in {"revoked", "expired", "gone"} : LosesStanding(t, to)
  BY <1>1 DEF Subscribe, LosesStanding
<1>2. CASE Hello(t) \/ TakeSlot(t) \/ Update(t)
  BY <1>2 DEF Hello, TakeSlot, Update
<1>3. CASE LockMutex(t) \/ Read(t) \/ Write(t)
  BY <1>3 DEF LockMutex, Read, Write
<1>4. CASE WriteFails(t) \/ Done(t) \/ Heartbeat(t) \/ HeartbeatFails(t) \/ Unsubscribe(t)
  BY <1>4 DEF WriteFails, Done, Heartbeat, HeartbeatFails, Unsubscribe
<1> QED
  BY <1>1, <1>2, <1>3, <1>4 DEF Handler, Client

LEMMA HandlerIsNearer ==
  ASSUME TypeOK, NEW s \in Streams, Handler(s) \/ Client(s), Looping(s), Looping(s)'
  PROVE  Nearer(s) \/ SameAhead(s)
<1> USE DEF Step, Ends, Looping, SlotPCs
<1>0. UNCHANGED <<queued, errors, timer, wpc>>
  BY HandlerFrame
<1>1. /\ Ahead(s)'[1] = Ahead(s)[1] /\ Ahead(s)'[2] = Ahead(s)[2] /\ Ahead(s)'[3] = Ahead(s)[3]
      /\ WatcherLeft' = WatcherLeft
  BY <1>0 DEF Ahead, WatcherLeft
<1>2. CASE Update(s)
  <2>1. s \in full /\ s \notin full'
    BY <1>2 DEF Update
  <2>2. Ahead(s)'[4] < Ahead(s)[4]
    BY <2>1 DEF Ahead, One
  <2> QED
    BY <1>1, <2>2, NearerAt
<1>3. CASE LockMutex(s) \/ Read(s) \/ Write(s)
  <2>1. full' = full /\ HandlerLeft(s)' < HandlerLeft(s)
    BY <1>3 DEF LockMutex, Read, Write, HandlerLeft, TypeOK
  <2>2. Ahead(s)'[5] < Ahead(s)[5] /\ Ahead(s)'[4] = Ahead(s)[4]
    BY <2>1 DEF Ahead
  <2> QED
    BY <1>1, <2>2, NearerAt
<1>4. CASE \E to \in {"revoked", "expired", "gone"} : LosesStanding(s, to)
  <2>1. full' = full /\ pc' = pc
    BY <1>4 DEF LosesStanding
  <2> QED
    BY <1>0, <1>1, <2>1 DEF SameAhead, Ahead, HandlerLeft
<1>5. CASE Subscribe(s) \/ Hello(s) \/ TakeSlot(s) \/ Unsubscribe(s)
  BY <1>5 DEF Subscribe, Hello, TakeSlot, Unsubscribe
<1>6. CASE WriteFails(s) \/ Done(s) \/ Heartbeat(s) \/ HeartbeatFails(s)
  BY <1>6 DEF WriteFails, Done, Heartbeat, HeartbeatFails, TypeOK
<1> QED
  BY <1>2, <1>3, <1>4, <1>5, <1>6 DEF Handler, Client

\* Between two changes, watcher and handlers come to rest: no step of theirs puts
\* off what a stream waits for, and when nothing is left to do an open stream
\* shows what is on disk (config.Watch, stream in events.go).
THEOREM ChangesSettle ==
  Spec => /\ [](\A s \in Streams : \A n \in 1 .. 5 : Ahead(s)[n] \in Nat)
          /\ [](\A s \in Streams : Settled(s) => shown[s] = version)
          /\ [][\A s \in Streams : Settles(s)]_vars
<1>1. EventsInv => \A s \in Streams : Settled(s) => shown[s] = version
  <2> SUFFICES ASSUME EventsInv, NEW s \in Streams, Settled(s)
               PROVE  shown[s] = version
    OBVIOUS
  <2>1. /\ One(queued) + One(errors) = 0 /\ One(timer) = 0 /\ WatcherLeft = 0
        /\ One(s \in full) = 0 /\ HandlerLeft(s) = 0
    BY DEF Settled, Ahead
  <2>2. ~queued /\ ~errors /\ ~timer /\ s \notin full
    BY <2>1 DEF One
  <2>3. wpc = "wait" /\ pc[s] = "select"
    BY <2>1 DEF WatcherLeft, HandlerLeft, EventsInv, TypeOK, WPCs, Settled, Looping, SlotPCs
  <2> QED
    BY <2>2, <2>3 DEF EventsInv, NoLostChange, NotifyAhead, UpToDate, Settled
<1>2. ASSUME EventsInv, [Next]_vars
      PROVE  [\A s \in Streams : Settles(s)]_vars
  <2> SUFFICES ASSUME NEW s \in Streams, Looping(s), Looping(s)', Next
               PROVE  Nearer(s) \/ Directory \/ SaveNotifies \/ SameAhead(s)
    BY <1>2 DEF Settles
  <2>1. TypeOK
    BY <1>2 DEF EventsInv
  <2>2. CASE SaveBegins \/ SaveUnlocks
    BY <2>2 DEF SaveBegins, SaveUnlocks, watcher, streams, SameAhead, Ahead, WatcherLeft, HandlerLeft
  <2>3. ASSUME NEW t \in Streams, Handler(t) \/ Client(t), s # t
        PROVE  SameAhead(s)
    <3>1. UNCHANGED <<queued, errors, timer, wpc>> /\ pc'[s] = pc[s] /\ (s \in full' <=> s \in full)
      BY <2>1, <2>3, HandlerFrame
    <3> QED
      BY <3>1 DEF SameAhead, Ahead, One, WatcherLeft, HandlerLeft
  <2> QED
    BY <2>1, <2>2, <2>3, WatchIsNearer, HandlerIsNearer DEF Next, Mutate
<1> QED
  BY EventsInvariant, AheadCounts, <1>1, <1>2, PTL DEF Spec

-----------------------------------------------------------------------------
\* A handler whose channel was filled between its registration and its own send.
Stuck(s) == pc[s] = "hello" /\ s \in full

\* Once a handler is stuck in its first send it stays: neither the end of its
\* session, nor its client's leaving, nor anybody else's step frees it (the
\* blocking send of configEvents).  What EveryStreamStarts runs into has no end.
THEOREM StuckForGood == Spec => \A s \in Streams : [](Stuck(s) => []Stuck(s))
<1> SUFFICES ASSUME NEW s \in Streams
             PROVE  Spec => [](Stuck(s) => []Stuck(s))
  OBVIOUS
<1>1. ASSUME EventsInv, Stuck(s), [Next]_vars
      PROVE  Stuck(s)'
  <2> USE <1>1 DEF Stuck, EventsInv
  <2>1. CASE Directory
    BY <2>1 DEF Directory, Edit, Vanish, Appear, Overflow, streams
  <2>2. CASE Watch
    BY <2>2 DEF Watch, AttachConf, AttachServices, Attach, Changed, TakeEvent, TakeError, Tick, streams
  <2>3. CASE Mutate
    BY <2>3 DEF Mutate, SaveBegins, SaveNotifies, SaveUnlocks, streams
  <2>4. ASSUME NEW t \in Streams, Handler(t) \/ Client(t), t # s
        PROVE  Stuck(s)'
    BY <2>4, HandlerFrame
  <2>5. CASE Handler(s) \/ Client(s)
    <3>1. CASE \E to \in {"revoked", "expired", "gone"} : LosesStanding(s, to)
      BY <3>1 DEF LosesStanding
    <3> QED
      BY <2>5, <3>1 DEF Handler, Client, Subscribe, Hello, TakeSlot, Update, LockMutex, Read, Write,
         WriteFails, Done, Heartbeat, HeartbeatFails, Unsubscribe, Step, Ends
  <2>6. CASE UNCHANGED vars
    BY <2>6 DEF vars
  <2> QED
    BY <2>1, <2>2, <2>3, <2>4, <2>5, <2>6 DEF Next
<1> QED
  BY EventsInvariant, <1>1, PTL DEF Spec
=============================================================================
