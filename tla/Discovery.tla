------------------------------- MODULE Discovery -------------------------------
(***************************************************************************)
(* Service discovery (internal/avahi/browser.go): a cache of the services  *)
(* Avahi announces, driven by D-Bus signals.  The browse loop, the         *)
(* resolver workers, Avahi itself and the streams that show the cache run  *)
(* beside each other; a browse that fails starts again from nothing.       *)
(*                                                                         *)
(* A service is what its identity key names; of what a resolver answers    *)
(* only success or failure counts, and of a state sent to a stream only    *)
(* whether it is the current one.  D-Bus keeps the order of the signals of *)
(* one connection, and a resolver's answer carries the identity that was   *)
(* asked for.                                                              *)
(***************************************************************************)
EXTENDS Naturals, Sequences, FiniteSets, SequencesExt

CONSTANTS
  Services,      \* the identities that may be announced
  Types,         \* service types (with their domain)
  TypeOf,        \* the type of each service
  Workers, Idle, \* the resolver goroutines, and what one without a request holds
  Streams,       \* requests to GET /discovery/events
  QueueLimit,    \* jobs that may wait (512)
  ResultLimit,   \* results that may wait (512)
  TypeLimit,     \* types browsed at once (256)
  ServiceLimit,  \* services known at once (4096)
  MaxChanges,    \* bound: announcements and withdrawals
  MaxFailures    \* bound: browses that fail for an outside reason

ASSUME ServicesAssumption ==
  IsFiniteSet(Services) /\ IsFiniteSet(Types) /\ TypeOf \in [Services -> Types]
ASSUME WorkersAssumption == IsFiniteSet(Workers)
ASSUME IdleAssumption == Idle \notin [service : Services, generation : Nat \ {0}]
ASSUME LimitsAssumption ==
  /\ QueueLimit \in Nat /\ ResultLimit \in Nat \ {0}
  /\ TypeLimit \in Nat /\ ServiceLimit \in Nat
  /\ MaxChanges \in Nat /\ MaxFailures \in Nat

VARIABLES
  announced, changes,   \* what Avahi sees on the network
  conn,                 \* the browse: "down", "opening", "open", "closing"
  signals,              \* delivered on the connection, not yet handled
  types,                \* the types that have a browser
  generations,          \* of each service; 0: none, as in Go's map
  generation,           \* the last one given
  services, connected,  \* the cache
  jobs, results,        \* the two queues
  working,              \* the request each worker is resolving
  channel,              \* each stream's one-place channel: which state it holds
  seen,                 \* the state a stream delivered last
  failures

network == <<announced, changes>>
loop    == <<types, generations, generation>>
queues  == <<jobs, results, working>>
cache   == <<services, connected>>
output  == <<channel, seen>>
vars == <<announced, changes, conn, signals, types, generations, generation,
          services, connected, jobs, results, working, channel, seen, failures>>

Absent   == [state |-> "absent", of |-> 0]
Requests == [service : Services, generation : Nat \ {0}]
Signals  == [kind : {"type"}, item : Types] \union [kind : {"new", "remove"}, item : Services]

Signal(kind, item) == [kind |-> kind, item |-> item]
Reports(kind, order) == [i \in DOMAIN order |-> Signal(kind, order[i])]
Known == {k \in Services : generations[k] # 0}
OfType(t) == {k \in announced : TypeOf[k] = t}

Init ==
  /\ announced \in SUBSET Services /\ changes = 0
  /\ conn = "down" /\ signals = <<>>
  /\ types = {}
  /\ generations = [k \in Services |-> 0] /\ generation = 0
  /\ services = [k \in Services |-> Absent] /\ connected = FALSE
  /\ jobs = <<>> /\ results = <<>> /\ working = [w \in Workers |-> Idle]
  /\ channel = [s \in Streams |-> "closed"] /\ seen = [s \in Streams |-> "nothing"]
  /\ failures = 0

-----------------------------------------------------------------------------
\* Avahi, as the code uses it: the type browser reports a type when its first
\* service appears, a service browser reports its own type's services.

Announce(k) ==
  /\ k \notin announced
  /\ changes < MaxChanges /\ changes' = changes + 1
  /\ announced' = announced \union {k}
  /\ LET t == TypeOf[k] IN
     signals' = signals
       \o (IF conn \in {"opening", "open"} /\ OfType(t) = {}
           THEN <<Signal("type", t)>> ELSE <<>>)
       \o (IF t \in types THEN <<Signal("new", k)>> ELSE <<>>)
  /\ UNCHANGED <<conn, loop, cache, queues, output, failures>>

\* That a type is gone is reported too; the loop ignores it.
Withdraw(k) ==
  /\ k \in announced
  /\ changes < MaxChanges /\ changes' = changes + 1
  /\ announced' = announced \ {k}
  /\ signals' = IF TypeOf[k] \in types
                THEN Append(signals, Signal("remove", k)) ELSE signals
  /\ UNCHANGED <<conn, loop, cache, queues, output, failures>>

-----------------------------------------------------------------------------
\* notify, in the critical section of every change of the cache: whatever waits
\* in a stream's channel is replaced by the new state.

Subscribed == {s \in Streams : channel[s] # "closed"}

Outdate == seen' = [s \in Streams |-> IF seen[s] = "nothing" THEN "nothing" ELSE "stale"]

\* Variant: a state is dropped when the channel is full.
NotifyDrops ==
  /\ channel' = [s \in Streams |->
                   CASE channel[s] = "closed" -> "closed"
                     [] channel[s] = "empty"  -> "current"
                     [] OTHER                 -> "stale"]
  /\ Outdate

Notify ==
  /\ channel' = [s \in Streams |-> IF s \in Subscribed THEN "current" ELSE "closed"]
  /\ Outdate

Reset(up) ==
  /\ services' = [k \in Services |-> Absent]
  /\ connected' = up
  /\ Notify

Upsert(k, state, of) ==
  /\ services' = [services EXCEPT ![k] = [state |-> state, of |-> of]]
  /\ UNCHANGED connected
  /\ Notify

RemoveItem(k) ==
  /\ services' = [services EXCEPT ![k] = Absent]
  /\ UNCHANGED connected
  /\ Notify

-----------------------------------------------------------------------------
\* Run and the setup of browse.

\* The matches are in place before the type browser, so none of its signals is
\* missed; it begins with the types that are there.
Connect ==
  /\ conn = "down"
  /\ conn' = "opening"
  /\ \E order \in SetToSeqs({t \in Types : OfType(t) # {}}) : signals' = Reports("type", order)
  /\ UNCHANGED <<network, loop, cache, queues, output, failures>>

ConnectFails ==
  /\ conn = "down"
  /\ failures < MaxFailures /\ failures' = failures + 1
  /\ Reset(FALSE)
  /\ UNCHANGED <<network, conn, signals, loop, queues>>

BrowseBegins ==
  /\ conn = "opening"
  /\ conn' = "open"
  /\ Reset(TRUE)
  /\ UNCHANGED <<network, signals, loop, queues, failures>>

\* browse returns an error: its context ends, the workers stop, and its
\* channels, types and generations go with it.  The cache is still shown.
Stop ==
  /\ conn' = "closing"
  /\ signals' = <<>>
  /\ types' = {}
  /\ generations' = [k \in Services |-> 0] /\ generation' = 0
  /\ jobs' = <<>> /\ results' = <<>> /\ working' = [w \in Workers |-> Idle]

\* D-Bus or Avahi is gone, a browser failed, or a signal was not understood.
BrowseFails ==
  /\ conn \in {"opening", "open"}
  /\ failures < MaxFailures /\ failures' = failures + 1
  /\ Stop
  /\ UNCHANGED <<network, cache, output>>

BrowseEnded ==
  /\ conn = "closing"
  /\ conn' = "down"
  /\ Reset(FALSE)
  /\ UNCHANGED <<network, signals, loop, queues, failures>>

-----------------------------------------------------------------------------
\* The loop of browse.

Received(kind, item) ==
  /\ conn = "open" /\ signals # <<>>
  /\ Head(signals) = Signal(kind, item)

\* A type that is browsed already changes nothing.
TypeAgain(t) ==
  /\ Received("type", t) /\ t \in types
  /\ signals' = Tail(signals)
  /\ UNCHANGED <<network, conn, loop, cache, queues, output, failures>>

\* Variant: past the limit the type is left out, and the browse goes on.
NewTypeSkipped(t) ==
  /\ Received("type", t) /\ t \notin types
  /\ IF Cardinality(types) < TypeLimit
     THEN /\ types' = types \union {t}
          /\ \E order \in SetToSeqs(OfType(t)) :
               signals' = Tail(signals) \o Reports("new", order)
     ELSE signals' = Tail(signals) /\ UNCHANGED types
  /\ UNCHANGED <<network, conn, generations, generation, cache, queues, output, failures>>

\* The new browser begins with the services that are there.
NewType(t) ==
  /\ Received("type", t) /\ t \notin types
  /\ IF Cardinality(types) < TypeLimit
     THEN /\ types' = types \union {t}
          /\ \E order \in SetToSeqs(OfType(t)) :
               signals' = Tail(signals) \o Reports("new", order)
          /\ UNCHANGED <<conn, generations, generation, queues>>
     ELSE Stop
  /\ UNCHANGED <<network, cache, output, failures>>

\* Variant: one service more than the limit.
KnownFullLoose == Cardinality(Known) > ServiceLimit

KnownFull == Cardinality(Known) >= ServiceLimit

TooManyServices(k) ==
  /\ Received("new", k) /\ KnownFull
  /\ Stop
  /\ UNCHANGED <<network, cache, output, failures>>

\* Variant: a request that finds the queue full is dropped.
EnqueueDropping(request) ==
  /\ signals' = Tail(signals)
  /\ generations' = [generations EXCEPT ![request.service] = request.generation]
  /\ generation' = request.generation
  /\ jobs' = IF Len(jobs) < QueueLimit THEN Append(jobs, request) ELSE jobs
  /\ UNCHANGED <<conn, types, results, working>>

\* A queue that is full ends the browse, when the service is shown already.
Enqueue(request) ==
  IF Len(jobs) < QueueLimit
  THEN /\ signals' = Tail(signals)
       /\ generations' = [generations EXCEPT ![request.service] = request.generation]
       /\ generation' = request.generation
       /\ jobs' = Append(jobs, request)
       /\ UNCHANGED <<conn, types, results, working>>
  ELSE Stop

NewItem(k) ==
  /\ Received("new", k) /\ ~KnownFull
  /\ Upsert(k, "pending", generation + 1)
  /\ Enqueue([service |-> k, generation |-> generation + 1])
  /\ UNCHANGED <<network, failures>>

ItemRemoved(k) ==
  /\ Received("remove", k)
  /\ signals' = Tail(signals)
  /\ generations' = [generations EXCEPT ![k] = 0]
  /\ RemoveItem(k)
  /\ UNCHANGED <<network, conn, types, generation, queues, failures>>

\* Variant: a result is for any generation of its service that is known.
WantedKnown(result) == generations[result.request.service] # 0

Wanted(result) == generations[result.request.service] = result.request.generation

\* A result is shown only if it is of the service's present generation.
Result ==
  /\ conn = "open" /\ results # <<>>
  /\ results' = Tail(results)
  /\ LET r == Head(results) IN
     IF Wanted(r) THEN Upsert(r.request.service, r.outcome, r.request.generation)
     ELSE UNCHANGED <<cache, output>>
  /\ UNCHANGED <<network, conn, signals, loop, jobs, working, failures>>

-----------------------------------------------------------------------------
\* The workers.

Take(w) ==
  /\ working[w] = Idle /\ jobs # <<>>
  /\ working' = [working EXCEPT ![w] = Head(jobs)]
  /\ jobs' = Tail(jobs)
  /\ UNCHANGED <<network, conn, signals, loop, cache, results, output, failures>>

\* The resolver answers or its five seconds are over; the worker waits for a
\* place among the results.
Resolve(w, outcome) ==
  /\ working[w] # Idle /\ Len(results) < ResultLimit
  /\ working' = [working EXCEPT ![w] = Idle]
  /\ results' = Append(results, [request |-> working[w], outcome |-> outcome])
  /\ UNCHANGED <<network, conn, signals, loop, cache, jobs, output, failures>>

-----------------------------------------------------------------------------
\* The streams (Subscribe here, discoveryEvents in internal/api/routes.go).

Subscribe(s) ==
  /\ channel[s] = "closed"
  /\ channel' = [channel EXCEPT ![s] = "current"]
  /\ UNCHANGED <<network, conn, signals, loop, cache, queues, seen, failures>>

Deliver(s) ==
  /\ channel[s] \in {"current", "stale"}
  /\ seen' = [seen EXCEPT ![s] = channel[s]]
  /\ channel' = [channel EXCEPT ![s] = "empty"]
  /\ UNCHANGED <<network, conn, signals, loop, cache, queues, failures>>

Unsubscribe(s) ==
  /\ channel[s] # "closed"
  /\ channel' = [channel EXCEPT ![s] = "closed"]
  /\ seen' = [seen EXCEPT ![s] = "nothing"]
  /\ UNCHANGED <<network, conn, signals, loop, cache, queues, failures>>

-----------------------------------------------------------------------------
Avahi == \E k \in Services : Announce(k) \/ Withdraw(k)

Run == Connect \/ BrowseBegins \/ BrowseEnded

Handle ==
  \/ \E t \in Types : TypeAgain(t) \/ NewType(t)
  \/ \E k \in Services : TooManyServices(k) \/ NewItem(k) \/ ItemRemoved(k)

Work(w) == Take(w) \/ \E outcome \in {"resolved", "failed"} : Resolve(w, outcome)

Next ==
  \/ Avahi \/ Run \/ ConnectFails \/ BrowseFails \/ Handle \/ Result
  \/ \E w \in Workers : Work(w)
  \/ \E s \in Streams : Subscribe(s) \/ Deliver(s) \/ Unsubscribe(s)

\* The loop selects among what is ready, calls return or time out, Run tries
\* again every two seconds, and an open stream writes what it is sent.
Spec ==
  /\ Init /\ [][Next]_vars
  /\ WF_vars(Run) /\ WF_vars(Handle) /\ WF_vars(Result)
  /\ \A w \in Workers : WF_vars(Work(w))
  /\ \A s \in Streams : WF_vars(Deliver(s))

-----------------------------------------------------------------------------
\* Properties.

\* Every variable has its type, and no queue or table is past its limit.
TypeOK ==
  /\ announced \subseteq Services /\ changes \in 0 .. MaxChanges
  /\ conn \in {"down", "opening", "open", "closing"}
  /\ signals \in Seq(Signals)
  /\ types \subseteq Types /\ Cardinality(types) <= TypeLimit
  /\ generations \in [Services -> Nat] /\ generation \in Nat
  /\ Cardinality(Known) <= ServiceLimit
  /\ services \in [Services -> [state : {"absent", "pending", "resolved", "failed"}, of : Nat]]
  /\ connected \in BOOLEAN
  /\ jobs \in Seq(Requests) /\ Len(jobs) <= QueueLimit
  /\ results \in Seq([request : Requests, outcome : {"resolved", "failed"}])
  /\ Len(results) <= ResultLimit
  /\ working \in [Workers -> Requests \union {Idle}]
  /\ channel \in [Streams -> {"closed", "empty", "current", "stale"}]
  /\ seen \in [Streams -> {"nothing", "current", "stale"}]
  /\ failures \in 0 .. MaxFailures

\* What is shown of a service belongs to its latest announcement: a result that
\* arrives after the service went, or went and came back, brings nothing back.
ShownIsLatest ==
  conn = "open" =>
    \A k \in Services : services[k].of = generations[k] /\
                        (services[k] = Absent <=> generations[k] = 0)

\* What the waiting signals will make of service k: what the last one about it
\* says.
Outcome(k) ==
  LET about == {i \in DOMAIN signals : signals[i].kind # "type" /\ signals[i].item = k}
  IN  IF about = {} THEN services[k] # Absent
      ELSE \E last \in about : signals[last].kind = "new" /\ \A j \in about : j <= last

\* A browse misses nothing: the cache with the signals that wait is what Avahi
\* announces, and a type not browsed yet is among those signals.
NothingMissed ==
  conn \in {"opening", "open"} =>
    \A k \in Services :
      IF TypeOf[k] \in types THEN Outcome(k) <=> k \in announced
      ELSE /\ services[k] = Absent
           /\ k \in announced => \E i \in DOMAIN signals : signals[i] = Signal("type", TypeOf[k])

\* However slow a stream is, what it holds next, or delivered last when it holds
\* nothing, is the current state.
StreamsUpToDate ==
  \A s \in Subscribed : channel[s] = "current" \/ (channel[s] = "empty" /\ seen[s] = "current")

Fits ==
  /\ Cardinality(announced) <= ServiceLimit /\ Cardinality(announced) <= QueueLimit
  /\ Cardinality({TypeOf[k] : k \in announced}) <= TypeLimit

Mirrored ==
  \A k \in Services :
    IF k \in announced THEN services[k].state \in {"resolved", "failed"}
    ELSE services[k] = Absent

\* When the network keeps still and fits the limits, the cache comes to show
\* exactly what is announced, with every service resolved or marked as failed,
\* whatever overflowed on the way.
Converges == <>[]Fits => <>[]Mirrored
=============================================================================
