----------------------------- MODULE ConfigEvents -----------------------------
(***************************************************************************)
(* How a change of /etc/avahi reaches the open browsers: the fsnotify      *)
(* watcher (internal/config/watch.go), the subscribers' one-place channels *)
(* and the event-stream handlers (internal/api/events.go), beside the      *)
(* mutations that notify them too (internal/api/routes.go mutate).         *)
(*                                                                         *)
(* The watcher, every handler and a mutation are goroutines of their own;  *)
(* each step below is what one of them does between two points at which    *)
(* another can run.  The directory is a version number: what matters is    *)
(* whether the value a browser was shown last is that of the last change.  *)
(* A value that could not be read is delivered as an error in its place    *)
(* and counts as shown.  Files are changed by anyone, the helper included. *)
(***************************************************************************)
EXTENDS Naturals, FiniteSets

CONSTANTS
  Streams,      \* requests to GET /config/events
  Slots,        \* stream slots the other kinds of stream leave
  MaxChanges,   \* bound: changes of the directory
  MaxSaves,     \* bound: mutations through the API
  MaxErrors     \* bound: errors on the watcher's channel

ASSUME StreamsAssumption == IsFiniteSet(Streams)
ASSUME LimitsAssumption ==
  Slots \in Nat /\ MaxChanges \in Nat /\ MaxSaves \in Nat /\ MaxErrors \in Nat

Dirs == {"conf", "services"}   \* /etc/avahi and /etc/avahi/services

VARIABLES
  version,           \* of what is on disk; 0 is before the first
  present, watched,  \* the directories that exist, and that have a watch
  queued, errors,    \* an event of ours, or an error, waits for the watcher
  timer,             \* the debounce timer runs
  wpc,               \* the watcher: waiting, in attach(), before changed()
  save, saves,       \* the mutation that holds the server's mutex
  pc,                \* each handler's next step
  full,              \* the subscribers whose channel holds a token
  held, shown,       \* the version read, and the one last delivered
  standing,          \* the client and its session
  raised             \* errors so far

disks    == <<version, present>>
watcher  == <<watched, queued, errors, timer, wpc, raised>>
mutation == <<save, saves>>
streams  == <<pc, full, held, shown, standing>>
outside  == <<disks, watcher, mutation>>
vars == <<version, present, watched, queued, errors, timer, wpc, save, saves,
          pc, full, held, shown, standing, raised>>

WPCs == {"conf", "services", "changed", "wait"}
\* A handler holds a slot from "select" to "write", the mutex in "read".
SlotPCs == {"select", "lock", "read", "write"}
PCs == {"closed", "hello", "slot", "leave"} \union SlotPCs

Looping(s)  == pc[s] \in SlotPCs
Holders     == {s \in Streams : Looping(s)}
Subscribers == {s \in Streams : pc[s] # "closed"}
MutexFree   == save = "idle" /\ \A s \in Streams : pc[s] # "read"

Init ==
  /\ version = 1
  /\ present \in {{}, {"conf"}, Dirs}
  /\ watched = {}
  /\ queued = FALSE /\ errors = FALSE /\ timer = FALSE
  /\ wpc = "conf"
  /\ save = "idle" /\ saves = 0
  /\ pc = [s \in Streams |-> "closed"]
  /\ full = {}
  /\ held = [s \in Streams |-> 0]
  /\ shown = [s \in Streams |-> 0]
  /\ standing = [s \in Streams |-> "valid"]
  /\ raised = 0

-----------------------------------------------------------------------------
\* The directory and the kernel.  Its parent is always watched, so creating,
\* removing and replacing /etc/avahi itself is always seen.

Seen(d) == d \in watched \/ (d = "services" /\ "conf" \in watched)

Edit(d) ==
  /\ d \in present
  /\ version <= MaxChanges /\ version' = version + 1
  /\ queued' = (queued \/ d \in watched)
  /\ UNCHANGED <<present, watched, errors, timer, wpc, raised, mutation, streams>>

\* A directory appears, empty or with content (mkdir, or a rename into place).
Appear(d, with) ==
  /\ d \notin present /\ d \in with
  /\ IF d = "conf" THEN with \subseteq Dirs ELSE with = Dirs /\ "conf" \in present
  /\ version <= MaxChanges /\ version' = version + 1
  /\ present' = with
  /\ queued' = (queued \/ d = "conf" \/ Seen(d))
  /\ UNCHANGED <<watched, errors, timer, wpc, raised, mutation, streams>>

\* A directory goes away, and the watches on it and below it with it.
Vanish(d) ==
  /\ d \in present
  /\ version <= MaxChanges /\ version' = version + 1
  /\ queued' = (queued \/ d = "conf" \/ Seen(d))
  /\ IF d = "conf" THEN present' = {} /\ watched' = {}
     ELSE present' = present \ {d} /\ watched' = watched \ {d}
  /\ UNCHANGED <<errors, timer, wpc, raised, mutation, streams>>

\* The kernel's queue overflows while it holds events of ours.
Overflow ==
  /\ queued
  /\ raised < MaxErrors /\ raised' = raised + 1
  /\ errors' = TRUE
  /\ UNCHANGED <<disks, watched, queued, timer, wpc, mutation, streams>>

-----------------------------------------------------------------------------
\* config.Watch

\* attach() adds a watch for each of the two directories that exists.
Attach(d, here, there) ==
  /\ wpc = here /\ wpc' = there
  /\ watched' = IF d \in present THEN watched \union {d} ELSE watched
  /\ UNCHANGED <<disks, queued, errors, timer, raised, mutation, streams>>

AttachConf     == Attach("conf", "conf", "services")
AttachServices == Attach("services", "services", "changed")

\* Variant: a channel without a place, which only a waiting handler receives from.
TokensUnbuffered == {s \in Streams : pc[s] = "select"}

\* notifyConfig, under configMu: a token for every subscriber without one.
Tokens == Subscribers

Changed ==
  /\ wpc = "changed" /\ wpc' = "wait"
  /\ full' = full \union Tokens
  /\ UNCHANGED <<disks, watched, queued, errors, timer, raised, mutation,
                 pc, held, shown, standing>>

\* The events that wait are taken and the debounce timer is set again.
TakeEvent ==
  /\ wpc = "wait" /\ queued
  /\ queued' = FALSE /\ timer' = TRUE
  /\ UNCHANGED <<disks, watched, errors, wpc, raised, mutation, streams>>

\* An error is reported and announced, without attach().
TakeError ==
  /\ wpc = "wait" /\ errors
  /\ errors' = FALSE
  /\ wpc' = "changed"
  /\ UNCHANGED <<disks, watched, queued, timer, raised, mutation, streams>>

\* Variant: a tick announces the change and leaves the watches as they are.
TickDetached ==
  /\ wpc = "wait" /\ timer
  /\ timer' = FALSE
  /\ wpc' = "changed"
  /\ UNCHANGED <<disks, watched, queued, errors, raised, mutation, streams>>

Tick ==
  /\ wpc = "wait" /\ timer
  /\ timer' = FALSE
  /\ wpc' = "conf"
  /\ UNCHANGED <<disks, watched, queued, errors, raised, mutation, streams>>

Watch == AttachConf \/ AttachServices \/ Changed \/ TakeEvent \/ TakeError \/ Tick

-----------------------------------------------------------------------------
\* mutate holds the server's mutex from before the helper is called until its
\* deferred notifyConfig has run.  What the helper writes is an Edit; the call
\* may also have been given up on while the helper goes on.

SaveBegins ==
  /\ MutexFree
  /\ saves < MaxSaves /\ saves' = saves + 1
  /\ save' = "working"
  /\ UNCHANGED <<disks, watcher, streams>>

SaveNotifies ==
  /\ save = "working" /\ save' = "unlock"
  /\ full' = full \union Tokens
  /\ UNCHANGED <<disks, watcher, saves, pc, held, shown, standing>>

SaveUnlocks ==
  /\ save = "unlock" /\ save' = "idle"
  /\ UNCHANGED <<disks, watcher, saves, streams>>

-----------------------------------------------------------------------------
\* The handlers.

Step(s, from, to) == pc[s] = from /\ pc' = [pc EXCEPT ![s] = to]

\* configEvents registers its channel under configMu.
Subscribe(s) ==
  Step(s, "closed", "hello") /\ UNCHANGED <<outside, full, held, shown, standing>>

\* Its own token, so that the stream begins with the present state: a blocking
\* send, outside configMu.
Hello(s) ==
  /\ Step(s, "hello", "slot")
  /\ s \notin full /\ full' = full \union {s}
  /\ UNCHANGED <<outside, held, shown, standing>>

\* Variant: one stream more than there are slots.
SlotFreeLoose == Cardinality(Holders) <= Slots

SlotFree == Cardinality(Holders) < Slots

\* stream takes a slot, or answers 429.
TakeSlot(s) ==
  /\ Step(s, "slot", IF SlotFree THEN "select" ELSE "leave")
  /\ UNCHANGED <<outside, full, held, shown, standing>>

\* A token: the value is read, unless the session has expired.
Update(s) ==
  /\ Step(s, "select", IF standing[s] = "expired" THEN "leave" ELSE "lock")
  /\ s \in full /\ full' = full \ {s}
  /\ UNCHANGED <<outside, held, shown, standing>>

LockMutex(s) ==
  /\ Step(s, "lock", "read") /\ MutexFree
  /\ UNCHANGED <<outside, full, held, shown, standing>>

\* configuration() answers, or fails; either way that is what is delivered.
Read(s) ==
  /\ Step(s, "read", "write")
  /\ held' = [held EXCEPT ![s] = version]
  /\ UNCHANGED <<outside, full, shown, standing>>

\* Variant: the token is taken out when the value has been delivered.
WriteDrains(s) ==
  /\ Step(s, "write", "select")
  /\ shown' = [shown EXCEPT ![s] = held[s]] /\ held' = [held EXCEPT ![s] = 0]
  /\ full' = full \ {s}
  /\ UNCHANGED <<outside, standing>>

Write(s) ==
  /\ Step(s, "write", "select")
  /\ shown' = [shown EXCEPT ![s] = held[s]] /\ held' = [held EXCEPT ![s] = 0]
  /\ UNCHANGED <<outside, full, standing>>

Ends(s, from) == Step(s, from, "leave") /\ UNCHANGED <<outside, full, held, shown, standing>>

\* The client is gone, or did not read for ten seconds.
WriteFails(s) == Ends(s, "write")

Done(s) == standing[s] = "gone" /\ Ends(s, "select")

\* Variant: a heartbeat that does not look at the session.
HeartbeatBlind(s) == FALSE

\* A heartbeat ends the stream of a session that is no longer good.  (One that
\* finds it good changes nothing.)
Heartbeat(s) == standing[s] \in {"revoked", "expired"} /\ Ends(s, "select")

\* The session cannot be looked up, or the heartbeat not be written.
HeartbeatFails(s) == Ends(s, "select")

\* The deferred functions: the channel is no longer registered, and nothing of
\* the request remains.
Unsubscribe(s) ==
  /\ Step(s, "leave", "closed")
  /\ full' = full \ {s}
  /\ held' = [held EXCEPT ![s] = 0] /\ shown' = [shown EXCEPT ![s] = 0]
  /\ standing' = [standing EXCEPT ![s] = "valid"]
  /\ UNCHANGED outside

\* Logout, the end of the session's twelve hours, a closed tab.
LosesStanding(s, to) ==
  /\ pc[s] # "closed"
  /\ \/ standing[s] = "valid"
     \/ standing[s] = "revoked" /\ to \in {"expired", "gone"}
     \/ standing[s] = "expired" /\ to = "gone"
  /\ standing' = [standing EXCEPT ![s] = to]
  /\ UNCHANGED <<outside, pc, full, held, shown>>

-----------------------------------------------------------------------------
Directory ==
  \/ \E d \in Dirs : Edit(d) \/ Vanish(d) \/ \E with \in SUBSET Dirs : Appear(d, with)
  \/ Overflow

Mutate == SaveBegins \/ SaveNotifies \/ SaveUnlocks

Handler(s) ==
  \/ Hello(s) \/ TakeSlot(s) \/ Update(s) \/ LockMutex(s) \/ Read(s)
  \/ Write(s) \/ WriteFails(s) \/ Done(s) \/ Heartbeat(s) \/ HeartbeatFails(s)
  \/ Unsubscribe(s)

Client(s) ==
  Subscribe(s) \/ \E to \in {"revoked", "expired", "gone"} : LosesStanding(s, to)

Next == Directory \/ Watch \/ Mutate \/ \E s \in Streams : Handler(s) \/ Client(s)

\* Goroutines that can run do, the mutex is not withheld from one waiter for
\* ever, timers and tickers fire, calls return.  Nobody must change a file,
\* save, connect, log out or leave.
Fairness ==
  /\ WF_vars(Watch)
  /\ WF_vars(Tick)
  /\ WF_vars(SaveNotifies) /\ WF_vars(SaveUnlocks)
  /\ \A s \in Streams :
       /\ WF_vars(Hello(s)) /\ WF_vars(TakeSlot(s)) /\ WF_vars(Update(s))
       /\ SF_vars(LockMutex(s)) /\ WF_vars(Read(s))
       /\ WF_vars(Write(s) \/ WriteFails(s))
       /\ WF_vars(Done(s)) /\ WF_vars(Heartbeat(s))
       /\ WF_vars(Unsubscribe(s))

Spec == Init /\ [][Next]_vars /\ Fairness

-----------------------------------------------------------------------------
\* Properties.

\* Every variable has its type, and no more streams are open than slots.
TypeOK ==
  /\ version \in 1 .. MaxChanges + 1
  /\ present \in {{}, {"conf"}, Dirs} /\ watched \subseteq Dirs
  /\ queued \in BOOLEAN /\ errors \in BOOLEAN /\ timer \in BOOLEAN
  /\ wpc \in WPCs
  /\ save \in {"idle", "working", "unlock"} /\ saves \in 0 .. MaxSaves
  /\ pc \in [Streams -> PCs]
  /\ full \subseteq Subscribers
  /\ held \in [Streams -> 0 .. MaxChanges + 1]
  /\ shown \in [Streams -> 0 .. MaxChanges + 1]
  /\ standing \in [Streams -> {"valid", "revoked", "expired", "gone"}]
  /\ raised \in 0 .. MaxErrors
  /\ Cardinality(Holders) <= Slots

\* The watcher has still to call attach() on d.
AttachAhead(d) ==
  queued \/ timer \/ wpc = "conf" \/ (d = "services" /\ wpc = "services")

\* A directory that exists without a watch, having been replaced or created at
\* any moment, is about to be attached: the watcher never goes deaf on it.
NoDeafDirectory == \A d \in present \ watched : AttachAhead(d)

\* The watcher has still to call changed().
NotifyAhead == queued \/ timer \/ errors \/ wpc # "wait"

\* The handler will deliver, or has delivered, what is on disk now.
UpToDate(s) ==
  \/ s \in full
  \/ pc[s] \in {"lock", "read"}
  \/ pc[s] = "write" /\ held[s] = version
  \/ pc[s] = "select" /\ shown[s] = version

\* No change falls between the watcher, the tokens and the handlers: whoever
\* has an open stream was shown the present state, is about to be, or will be
\* notified again.
NoLostChange ==
  \A s \in Streams : (Looping(s) \/ pc[s] = "slot") => UpToDate(s) \/ NotifyAhead

\* An open stream is shown the last change in the end.
ChangeReachesStreams ==
  \A s \in Streams :
    (Looping(s) /\ shown[s] # version) ~> (shown[s] = version \/ ~Looping(s))

\* The stream of a client that left or of a session that was ended by logout or
\* by age ends, and gives its slot back.
StreamEnds ==
  \A s \in Streams : (Looping(s) /\ standing[s] # "valid") ~> ~Looping(s)

\* A stream that was asked for begins (the test of the streams expects the
\* initial state first).  False of the code: a notification between the
\* registration and the blocking send fills the channel, and nobody reads it.
EveryStreamStarts == \A s \in Streams : (pc[s] = "hello") ~> (pc[s] # "hello")
=============================================================================
