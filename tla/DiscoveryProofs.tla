---------------------------- MODULE DiscoveryProofs ----------------------------
(***************************************************************************)
(* A late answer of the resolver brings nothing back, a browse misses      *)
(* nothing, every stream ends with the current state, and no limit is      *)
(* passed, for every set of services, every limit and any number of        *)
(* workers and streams.  LoopInv adds what ShownIsLatest needs: requests   *)
(* carry a generation that is not 0 through both queues, and there are no  *)
(* generations outside an open browse.  BrowseInv adds what NothingMissed  *)
(* needs: only a type that is browsed has signals about services.  OwesInv *)
(* says that nothing pending is forgotten, so that a browse with nothing   *)
(* left to do shows what Avahi announces; and what is left to do only      *)
(* shrinks while Avahi is silent.                                          *)
(***************************************************************************)
EXTENDS Discovery, FiniteSetTheorems, TLAPS

Answers == [request : Requests, outcome : {"resolved", "failed"}]

LoopTypes ==
  /\ conn \in {"down", "opening", "open", "closing"}
  /\ generations \in [Services -> Nat] /\ generation \in Nat
  /\ services \in [Services -> [state : {"absent", "pending", "resolved", "failed"}, of : Nat]]
  /\ jobs \in Seq(Requests) /\ results \in Seq(Answers)
  /\ working \in [Workers -> Requests \union {Idle}]

NoneOutside == conn # "open" => generations = [k \in Services |-> 0]

LoopInv == LoopTypes /\ NoneOutside /\ ShownIsLatest

loopVars == <<conn, generations, generation, services, jobs, results, working>>

LEMMA LoopFrame ==
  ASSUME LoopInv, UNCHANGED loopVars
  PROVE  LoopInv'
BY DEF LoopInv, LoopTypes, NoneOutside, ShownIsLatest, loopVars

\* What the end of a browse, and the reset that follows it, leave.
LEMMA StopKeeps ==
  ASSUME LoopInv, Stop,
         services' \in [Services -> [state : {"absent", "pending", "resolved", "failed"}, of : Nat]]
  PROVE  LoopInv'
BY DEF Stop, LoopInv, LoopTypes, NoneOutside, ShownIsLatest

LEMMA ResetKeeps ==
  ASSUME LoopInv, conn # "open", NEW up, Reset(up),
         conn' \in {"down", "open"}, UNCHANGED <<generations, generation, jobs, results, working>>
  PROVE  LoopInv'
<1> USE DEF LoopInv, NoneOutside
<1>1. services' = [k \in Services |-> Absent] /\ generations' = [k \in Services |-> 0]
  BY DEF Reset
<1>2. LoopTypes'
  BY <1>1 DEF LoopTypes, Absent
<1>3. NoneOutside' /\ ShownIsLatest'
  BY <1>1 DEF ShownIsLatest, Absent
<1> QED
  BY <1>2, <1>3

-----------------------------------------------------------------------------
LEMMA OutsideStep ==
  ASSUME LoopInv, Avahi \/ Run \/ ConnectFails \/ BrowseFails
  PROVE  LoopInv'
<1> USE DEF network, loop, queues, cache, output
<1>1. CASE Avahi
  BY <1>1, LoopFrame DEF Avahi, Announce, Withdraw, loopVars
<1>2. CASE Connect
  BY <1>2 DEF Connect, LoopInv, LoopTypes, NoneOutside, ShownIsLatest
<1>3. CASE BrowseBegins
  BY <1>3, ResetKeeps DEF BrowseBegins
<1>4. CASE BrowseEnded
  BY <1>4, ResetKeeps DEF BrowseEnded
<1>5. CASE ConnectFails
  BY <1>5, ResetKeeps DEF ConnectFails
<1>6. CASE BrowseFails
  BY <1>6, StopKeeps DEF BrowseFails, LoopInv, LoopTypes
<1> QED
  BY <1>1, <1>2, <1>3, <1>4, <1>5, <1>6 DEF Run

\* An announcement gives the entry and the service the same new generation.
LEMMA NewItemStep ==
  ASSUME LoopInv, NEW k \in Services, NewItem(k)
  PROVE  LoopInv'
<1> DEFINE request == [service |-> k, generation |-> generation + 1]
<1>1. request \in Requests
  BY DEF LoopInv, LoopTypes, Requests
<1>2. services' = [services EXCEPT ![k] = [state |-> "pending", of |-> generation + 1]]
  BY DEF NewItem, Upsert
<1>3. services' \in [Services -> [state : {"absent", "pending", "resolved", "failed"}, of : Nat]]
  BY <1>2 DEF LoopInv, LoopTypes
<1>4. CASE Stop
  BY <1>3, <1>4, StopKeeps
<1>5. CASE /\ generations' = [generations EXCEPT ![k] = generation + 1]
           /\ generation' = generation + 1
           /\ jobs' = Append(jobs, request)
           /\ UNCHANGED <<conn, results, working>>
  <2>1. LoopTypes'
    BY <1>1, <1>3, <1>5 DEF LoopInv, LoopTypes
  <2>2. conn = "open" /\ generation + 1 # 0
    BY DEF NewItem, Received, LoopInv, LoopTypes
  <2>3. NoneOutside' /\ ShownIsLatest'
    BY <1>2, <1>5, <2>2 DEF LoopInv, LoopTypes, NoneOutside, ShownIsLatest, Absent
  <2> QED
    BY <2>1, <2>3 DEF LoopInv
<1> QED
  BY <1>4, <1>5 DEF NewItem, Enqueue

LEMMA HandleStep ==
  ASSUME LoopInv, Handle
  PROVE  LoopInv'
<1> USE DEF network, loop, queues, cache, output
<1>1. ASSUME NEW t \in Types, TypeAgain(t)
      PROVE  LoopInv'
  BY <1>1, LoopFrame DEF TypeAgain, loopVars
<1>2. ASSUME NEW t \in Types, NewType(t)
      PROVE  LoopInv'
  <2>1. (Stop /\ services' = services) \/ UNCHANGED loopVars
    BY <1>2 DEF NewType, loopVars
  <2>2. CASE Stop /\ services' = services
    BY <2>2, StopKeeps DEF LoopInv, LoopTypes
  <2> QED
    BY <2>1, <2>2, LoopFrame
<1>3. ASSUME NEW k \in Services, TooManyServices(k)
      PROVE  LoopInv'
  BY <1>3, StopKeeps DEF TooManyServices, LoopInv, LoopTypes
<1>4. ASSUME NEW k \in Services, ItemRemoved(k)
      PROVE  LoopInv'
  BY <1>4 DEF ItemRemoved, RemoveItem, Received, Absent, LoopInv, LoopTypes,
     NoneOutside, ShownIsLatest
<1> QED
  BY <1>1, <1>2, <1>3, <1>4, NewItemStep DEF Handle

\* A result that is wanted carries the generation its service has.
LEMMA ResultStep ==
  ASSUME LoopInv, Result
  PROVE  LoopInv'
<1> USE DEF network, loop, queues, cache, output
<1> DEFINE r == Head(results)
<1>1. /\ r \in Answers /\ r.request.service \in Services
      /\ r.request.generation \in Nat /\ r.request.generation # 0
      /\ r.outcome \in {"resolved", "failed"}
      /\ results' \in Seq(Answers)
  <2>1. r \in Answers /\ results' \in Seq(Answers)
    BY DEF Result, LoopInv, LoopTypes
  <2>2. r.request \in Requests /\ r.outcome \in {"resolved", "failed"}
    BY <2>1 DEF Answers
  <2> QED
    BY <2>1, <2>2 DEF Requests
<1>2. CASE Wanted(r)
  <2>1. services' = [services EXCEPT ![r.request.service] =
                       [state |-> r.outcome, of |-> r.request.generation]]
    BY <1>2 DEF Result, Upsert
  <2>2. LoopTypes'
    BY <1>1, <2>1 DEF Result, LoopInv, LoopTypes
  <2>3. NoneOutside' /\ ShownIsLatest'
    BY <1>1, <1>2, <2>1 DEF Result, Wanted, LoopInv, LoopTypes, NoneOutside,
       ShownIsLatest, Absent
  <2> QED
    BY <2>2, <2>3 DEF LoopInv
<1>3. CASE ~Wanted(r)
  BY <1>1, <1>3 DEF Result, LoopInv, LoopTypes, NoneOutside, ShownIsLatest
<1> QED
  BY <1>2, <1>3

LEMMA WorkStep ==
  ASSUME LoopInv, NEW w \in Workers, Work(w)
  PROVE  LoopInv'
<1> USE DEF network, loop, queues, cache, output
<1>1. CASE Take(w)
  <2>1. Head(jobs) \in Requests /\ Tail(jobs) \in Seq(Requests)
    BY <1>1 DEF Take, LoopInv, LoopTypes
  <2> QED
    BY <1>1, <2>1 DEF Take, LoopInv, LoopTypes, NoneOutside, ShownIsLatest
<1>2. ASSUME NEW outcome \in {"resolved", "failed"}, Resolve(w, outcome)
      PROVE  LoopInv'
  <2>1. working[w] \in Requests
    BY <1>2 DEF Resolve, LoopInv, LoopTypes
  <2>2. [request |-> working[w], outcome |-> outcome] \in Answers
    BY <2>1 DEF Answers
  <2>3. results' \in Seq(Answers)
    BY <1>2, <2>2 DEF Resolve, LoopInv, LoopTypes
  <2> QED
    BY <1>2, <2>3 DEF Resolve, LoopInv, LoopTypes, NoneOutside, ShownIsLatest
<1> QED
  BY <1>1, <1>2 DEF Work

LEMMA LoopStep == LoopInv /\ [Next]_vars => LoopInv'
<1> SUFFICES ASSUME LoopInv, [Next]_vars
             PROVE  LoopInv'
  OBVIOUS
<1>1. ASSUME NEW s \in Streams, Subscribe(s) \/ Deliver(s) \/ Unsubscribe(s)
      PROVE  LoopInv'
  BY <1>1, LoopFrame DEF Subscribe, Deliver, Unsubscribe, loopVars, loop, queues, cache
<1>2. CASE UNCHANGED vars
  BY <1>2, LoopFrame DEF vars, loopVars
<1> QED
  BY <1>1, <1>2, OutsideStep, HandleStep, ResultStep, WorkStep DEF Next

LEMMA LoopInitial == Init => LoopInv
<1> SUFFICES ASSUME Init
             PROVE  LoopInv
  OBVIOUS
<1>1. LoopTypes
  BY DEF Init, LoopTypes, Absent
<1> QED
  BY <1>1 DEF Init, LoopInv, NoneOutside, ShownIsLatest

\* Whatever order the resolver answers in, what is shown of a service belongs to
\* its latest announcement, and to nothing once it was withdrawn.
THEOREM LateResultsAreHarmless == Spec => []ShownIsLatest
<1>1. LoopInv => ShownIsLatest
  BY DEF LoopInv
<1> QED
  BY <1>1, LoopInitial, LoopStep, PTL DEF Spec

-----------------------------------------------------------------------------
StreamsInv ==
  /\ channel \in [Streams -> {"closed", "empty", "current", "stale"}]
  /\ seen \in [Streams -> {"nothing", "current", "stale"}]
  /\ StreamsUpToDate

LEMMA NotifyKeeps ==
  ASSUME StreamsInv, Notify
  PROVE  StreamsInv'
BY DEF StreamsInv, Notify, Outdate, StreamsUpToDate, Subscribed

LEMMA StreamsStep == StreamsInv /\ [Next]_vars => StreamsInv'
<1> SUFFICES ASSUME StreamsInv, [Next]_vars
             PROVE  StreamsInv'
  OBVIOUS
<1> USE DEF network, loop, queues, cache, output
<1>0. ASSUME UNCHANGED output
      PROVE  StreamsInv'
  BY <1>0 DEF StreamsInv, StreamsUpToDate, Subscribed
<1>1. CASE Avahi \/ Run \/ ConnectFails \/ BrowseFails
  BY <1>0, <1>1, NotifyKeeps DEF Avahi, Announce, Withdraw, Run, Connect, BrowseBegins,
     BrowseEnded, ConnectFails, BrowseFails, Reset
<1>2. CASE Handle
  BY <1>0, <1>2, NotifyKeeps DEF Handle, TypeAgain, NewType, TooManyServices, NewItem,
     ItemRemoved, Upsert, RemoveItem
<1>3. CASE Result
  BY <1>0, <1>3, NotifyKeeps DEF Result, Upsert
<1>4. ASSUME NEW w \in Workers, Work(w)
      PROVE  StreamsInv'
  BY <1>0, <1>4 DEF Work, Take, Resolve
<1>5. ASSUME NEW s \in Streams, Subscribe(s) \/ Deliver(s) \/ Unsubscribe(s)
      PROVE  StreamsInv'
  BY <1>5 DEF Subscribe, Deliver, Unsubscribe, StreamsInv, StreamsUpToDate, Subscribed
<1>6. CASE UNCHANGED vars
  BY <1>0, <1>6 DEF vars
<1> QED
  BY <1>1, <1>2, <1>3, <1>4, <1>5, <1>6 DEF Next

LEMMA StreamsInitial == Init => StreamsInv
  BY DEF Init, StreamsInv, StreamsUpToDate, Subscribed

\* Coalescing never leaves a slow stream with an old state as its last.
THEOREM SlowStreamsCatchUp == Spec => []StreamsUpToDate
<1>1. StreamsInv => StreamsUpToDate
  BY DEF StreamsInv
<1> QED
  BY <1>1, StreamsInitial, StreamsStep, PTL DEF Spec

-----------------------------------------------------------------------------
\* Signals in the order they wait.  IsAbout and OutcomeIn are the parts of
\* Outcome, for any sequence of signals and any entry of the cache.
IsAbout(x, k) == x.kind # "type" /\ x.item = k
AboutIn(s, k) == {i \in DOMAIN s : IsAbout(s[i], k)}
OutcomeIn(s, k, entry) ==
  IF AboutIn(s, k) = {} THEN entry # Absent
  ELSE \E last \in AboutIn(s, k) : s[last].kind = "new" /\ \A j \in AboutIn(s, k) : j <= last

LEMMA OutcomeIs ==
  /\ \A k : Outcome(k) <=> OutcomeIn(signals, k, services[k])
  /\ \A k : Outcome(k)' <=> OutcomeIn(signals', k, services'[k])
BY DEF Outcome, OutcomeIn, AboutIn, IsAbout

\* Handling the first signal, when the entry becomes what that signal says.
LEMMA OutcomeTail ==
  ASSUME NEW s \in Seq(Signals), s # <<>>, NEW k, NEW old, NEW new,
         new # Absent <=> IF IsAbout(Head(s), k) THEN Head(s).kind = "new" ELSE old # Absent
  PROVE  OutcomeIn(Tail(s), k, new) <=> OutcomeIn(s, k, old)
<1>1. /\ DOMAIN s = 1 .. Len(s) /\ DOMAIN Tail(s) = 1 .. Len(s) - 1 /\ Len(s) \in Nat \ {0}
      /\ Head(s) = s[1] /\ \A i \in 1 .. Len(s) - 1 : Tail(s)[i] = s[i + 1]
  OBVIOUS
<1>2. \A i \in DOMAIN s : i \in AboutIn(s, k) <=> IsAbout(s[i], k)
  BY DEF AboutIn
<1>3. \A i \in DOMAIN Tail(s) : i \in AboutIn(Tail(s), k) <=> i + 1 \in AboutIn(s, k)
  BY <1>1 DEF AboutIn
<1>4. AboutIn(s, k) \subseteq DOMAIN s /\ AboutIn(Tail(s), k) \subseteq DOMAIN Tail(s)
  BY DEF AboutIn
<1>5. \A i \in AboutIn(s, k) : i = 1 \/ i - 1 \in AboutIn(Tail(s), k)
  BY <1>1, <1>3, <1>4
<1>6. CASE AboutIn(Tail(s), k) = {}
  <2>1. AboutIn(s, k) = IF IsAbout(Head(s), k) THEN {1} ELSE {}
    BY <1>1, <1>2, <1>4, <1>5, <1>6
  <2> QED
    BY <1>1, <1>6, <2>1 DEF OutcomeIn
<1>7. CASE AboutIn(Tail(s), k) # {}
  <2>1. AboutIn(s, k) # {}
    BY <1>3, <1>4, <1>7
  <2>2. ASSUME NEW i \in AboutIn(Tail(s), k), s[i + 1].kind = "new",
               \A j \in AboutIn(Tail(s), k) : j <= i
        PROVE  OutcomeIn(s, k, old)
    <3>1. i + 1 \in AboutIn(s, k) /\ \A j \in AboutIn(s, k) : j <= i + 1
      BY <1>1, <1>3, <1>4, <1>5, <2>2
    <3> QED
      BY <2>1, <2>2, <3>1 DEF OutcomeIn
  <2>3. ASSUME NEW i \in AboutIn(s, k), s[i].kind = "new", \A j \in AboutIn(s, k) : j <= i
        PROVE  OutcomeIn(Tail(s), k, new)
    <3>1. i # 1 /\ i - 1 \in AboutIn(Tail(s), k)
      BY <1>1, <1>3, <1>4, <1>5, <1>7, <2>3
    <3>2. \A j \in AboutIn(Tail(s), k) : j <= i - 1
      BY <1>1, <1>3, <1>4, <2>3
    <3>3. Tail(s)[i - 1].kind = "new"
      BY <1>1, <1>4, <2>3, <3>1
    <3> QED
      BY <1>7, <3>1, <3>2, <3>3 DEF OutcomeIn
  <2> QED
    BY <1>1, <1>4, <1>7, <2>1, <2>2, <2>3 DEF OutcomeIn
<1> QED
  BY <1>6, <1>7

LEMMA OutcomeAppend ==
  ASSUME NEW s \in Seq(Signals), NEW x \in Signals, NEW k, NEW entry
  PROVE  OutcomeIn(Append(s, x), k, entry) <=>
           IF IsAbout(x, k) THEN x.kind = "new" ELSE OutcomeIn(s, k, entry)
<1> DEFINE t == Append(s, x)
<1>1. /\ DOMAIN s = 1 .. Len(s) /\ DOMAIN t = 1 .. Len(s) + 1 /\ Len(s) \in Nat
      /\ t[Len(s) + 1] = x /\ \A i \in 1 .. Len(s) : t[i] = s[i]
  OBVIOUS
<1> HIDE DEF t
<1>2. AboutIn(t, k) = AboutIn(s, k) \union (IF IsAbout(x, k) THEN {Len(s) + 1} ELSE {})
  BY <1>1 DEF AboutIn
<1>3. \A i \in AboutIn(s, k) : i \in 1 .. Len(s)
  BY <1>1 DEF AboutIn
<1>4. CASE IsAbout(x, k)
  <2>1. Len(s) + 1 \in AboutIn(t, k) /\ \A j \in AboutIn(t, k) : j <= Len(s) + 1
    BY <1>1, <1>2, <1>3, <1>4
  <2>2. \A i \in AboutIn(t, k) : (\A j \in AboutIn(t, k) : j <= i) => i = Len(s) + 1
    BY <1>1, <1>2, <1>3, <1>4
  <2> QED
    BY <1>1, <1>4, <2>1, <2>2 DEF OutcomeIn, t
<1>5. CASE ~IsAbout(x, k)
  BY <1>1, <1>2, <1>3, <1>5 DEF OutcomeIn, t
<1> QED
  BY <1>4, <1>5

\* An order of a finite set names each of its elements, once.
LEMMA OrderCovers ==
  ASSUME NEW S, IsFiniteSet(S), NEW order \in SetToSeqs(S)
  PROVE  /\ order \in Seq(S)
         /\ \A x \in S : \E i \in DOMAIN order : order[i] = x
         /\ \A i, j \in DOMAIN order : order[i] = order[j] => i = j
<1> DEFINE D == 1 .. Cardinality(S)
<1>1. Cardinality(S) \in Nat
  BY FS_CardinalityType
<1>2. order \in [D -> S] /\ \A i, j \in D : i # j => order[i] # order[j]
  BY DEF SetToSeqs
<1>3. ASSUME NEW x \in S, \A i \in D : order[i] # x
      PROVE  FALSE
  <2>1. IsFiniteSet(S \ {x}) /\ Cardinality(S \ {x}) = Cardinality(S) - 1
    BY FS_RemoveElement
  <2>2. IsFiniteSet(D) /\ Cardinality(D) = Cardinality(S)
    BY <1>1, FS_Interval
  <2>3. order \in [D -> S \ {x}] /\ Cardinality(S \ {x}) < Cardinality(D)
    BY <1>1, <1>2, <1>3, <2>1, <2>2
  <2>4. \E i, j \in D : i # j /\ order[i] = order[j]
    <3> HIDE DEF D
    <3> QED
      BY <2>1, <2>2, <2>3, FS_PigeonHole
  <2> QED
    BY <1>2, <2>4
<1> QED
  BY <1>1, <1>2, <1>3

LEMMA OfTypeFinite ==
  ASSUME announced \subseteq Services, NEW t
  PROVE  IsFiniteSet(OfType(t)) /\ OfType(t) \subseteq Services
<1>1. OfType(t) \subseteq Services
  BY DEF OfType
<1> QED
  BY <1>1, FS_Subset, ServicesAssumption

LEMMA Concatenation ==
  ASSUME NEW s \in Seq(Signals), NEW t \in Seq(Signals)
  PROVE  /\ s \o t \in Seq(Signals) /\ DOMAIN (s \o t) = 1 .. Len(s) + Len(t)
         /\ DOMAIN s = 1 .. Len(s) /\ Len(s) \in Nat /\ Len(t) \in Nat
         /\ \A i \in 1 .. Len(s) : (s \o t)[i] = s[i]
         /\ \A i \in 1 .. Len(t) : (s \o t)[Len(s) + i] = t[i]
OBVIOUS

\* A new browser reports services of its type.
LEMMA ReportsAre ==
  ASSUME announced \subseteq Services, NEW t, NEW order \in SetToSeqs(OfType(t))
  PROVE  /\ order \in Seq(OfType(t)) /\ Reports("new", order) \in Seq(Signals)
         /\ Len(Reports("new", order)) = Len(order)
         /\ \A i \in 1 .. Len(order) :
              Reports("new", order)[i].kind = "new" /\ Reports("new", order)[i].item = order[i]
<1>1. order \in Seq(OfType(t)) /\ OfType(t) \subseteq Services
  BY OrderCovers, OfTypeFinite
<1>2. DOMAIN order = 1 .. Len(order) /\ Len(order) \in Nat /\ \A i \in DOMAIN order : order[i] \in OfType(t)
  BY <1>1
<1>3. Reports("new", order) = [i \in 1 .. Len(order) |-> Signal("new", order[i])]
  BY <1>2 DEF Reports
<1>4. \A i \in 1 .. Len(order) : Signal("new", order[i]) \in Signals
  BY <1>1, <1>2 DEF Signal, Signals
<1>5. \A i \in 1 .. Len(order) : Signal("new", order[i]).kind = "new" /\ Signal("new", order[i]).item = order[i]
  BY DEF Signal
<1> QED
  BY <1>1, <1>2, <1>3, <1>4, <1>5

\* A new browser reports each of its services once, and nothing else.
LEMMA OutcomeReports ==
  ASSUME announced \subseteq Services, NEW s \in Seq(Signals), NEW t \in Types,
         NEW order \in SetToSeqs(OfType(t)), NEW k \in Services, NEW entry
  PROVE  /\ s \o Reports("new", order) \in Seq(Signals)
         /\ TypeOf[k] # t =>
              (OutcomeIn(s \o Reports("new", order), k, entry) <=> OutcomeIn(s, k, entry))
         /\ TypeOf[k] = t /\ AboutIn(s, k) = {} /\ entry = Absent =>
              (OutcomeIn(s \o Reports("new", order), k, entry) <=> k \in announced)
<1> DEFINE reports == Reports("new", order)
           all == s \o reports
<1>1. /\ order \in Seq(OfType(t)) /\ OfType(t) \subseteq Services
      /\ \A x \in OfType(t) : \E i \in DOMAIN order : order[i] = x
      /\ \A i, j \in DOMAIN order : order[i] = order[j] => i = j
  BY OrderCovers, OfTypeFinite
<1>2. /\ DOMAIN order = 1 .. Len(order) /\ Len(order) \in Nat
      /\ \A i \in DOMAIN order : order[i] \in OfType(t)
  BY <1>1
<1>5. reports \in Seq(Signals) /\ Len(reports) = Len(order)
  BY ReportsAre
<1>6. \A i \in 1 .. Len(order) : reports[i].kind = "new" /\ reports[i].item = order[i]
  BY ReportsAre
<1> HIDE DEF reports
<1>7. /\ all \in Seq(Signals) /\ DOMAIN all = 1 .. Len(s) + Len(order)
      /\ DOMAIN s = 1 .. Len(s) /\ Len(s) \in Nat
      /\ \A i \in 1 .. Len(s) : all[i] = s[i]
      /\ \A i \in 1 .. Len(order) : all[Len(s) + i] = reports[i]
  BY <1>2, <1>5
<1> HIDE DEF all
<1>8. ASSUME NEW i \in DOMAIN all
      PROVE  i \in AboutIn(all, k) <=>
               i \in AboutIn(s, k) \/ (i - Len(s) \in DOMAIN order /\ order[i - Len(s)] = k)
  <2>1. CASE i <= Len(s)
    BY <1>2, <1>7, <2>1 DEF AboutIn, IsAbout
  <2>2. CASE i > Len(s)
    <3>1. i - Len(s) \in 1 .. Len(order) /\ i = Len(s) + (i - Len(s))
      BY <1>2, <1>7, <2>2
    <3>2. all[i] = reports[i - Len(s)]
      BY <1>7, <3>1
    <3>3. IsAbout(all[i], k) <=> order[i - Len(s)] = k
      BY <1>6, <3>1, <3>2 DEF IsAbout
    <3> QED
      BY <1>2, <1>7, <2>2, <3>1, <3>3 DEF AboutIn
  <2> QED
    BY <1>2, <1>7, <2>1, <2>2
<1>9. AboutIn(all, k) \subseteq DOMAIN all /\ AboutIn(s, k) \subseteq DOMAIN s /\ DOMAIN s \subseteq DOMAIN all
  BY <1>2, <1>7 DEF AboutIn
<1>10. CASE k \notin OfType(t)
  <2>1. AboutIn(all, k) = AboutIn(s, k)
    BY <1>2, <1>8, <1>9, <1>10
  <2>2. OutcomeIn(all, k, entry) <=> OutcomeIn(s, k, entry)
    BY <1>7, <1>9, <2>1 DEF OutcomeIn
  <2> QED
    BY <1>7, <1>10, <2>1, <2>2 DEF OutcomeIn, OfType, all, reports
<1>11. CASE k \in OfType(t)
  <2>1. PICK i \in DOMAIN order : order[i] = k
    BY <1>1, <1>11
  <2>2. Len(s) + i \in DOMAIN all
    BY <1>2, <1>7
  <2>3. Len(s) + i \in AboutIn(all, k)
    BY <1>2, <1>7, <1>8, <2>1, <2>2
  <2>4. ASSUME NEW j \in AboutIn(all, k)
        PROVE  j <= Len(s) + i
    <3>1. j \in DOMAIN all /\ j \in Int /\ i \in Nat \ {0}
      BY <1>2, <1>7, <1>9
    <3>2. CASE j \in AboutIn(s, k)
      BY <1>2, <1>7, <1>9, <3>1, <3>2
    <3>3. CASE j - Len(s) \in DOMAIN order /\ order[j - Len(s)] = k
      <4>1. j - Len(s) = i
        BY <1>1, <2>1, <3>3
      <4> QED
        BY <1>7, <3>1, <4>1
    <3> QED
      BY <1>8, <3>1, <3>2, <3>3
  <2>5. all[Len(s) + i].kind = "new"
    BY <1>2, <1>6, <1>7
  <2>6. OutcomeIn(all, k, entry)
    BY <2>3, <2>4, <2>5 DEF OutcomeIn
  <2> QED
    BY <1>7, <1>11, <2>6 DEF OfType, all, reports
<1> QED
  BY <1>10, <1>11

-----------------------------------------------------------------------------
BrowseTypes ==
  /\ announced \subseteq Services /\ types \subseteq Types
  /\ signals \in Seq(Signals)

\* Only a type that is browsed reports services.
OnlyBrowsed ==
  \A i \in DOMAIN signals : signals[i].kind # "type" => TypeOf[signals[i].item] \in types

NothingBefore ==
  /\ conn # "open" => types = {}
  /\ conn \in {"down", "opening"} => \A k \in Services : services[k] = Absent

BrowseInv == BrowseTypes /\ OnlyBrowsed /\ NothingBefore /\ NothingMissed

LEMMA BrowseFrame ==
  ASSUME BrowseInv, UNCHANGED <<announced, conn, signals, types>>,
         \A k \in Services : services'[k] = Absent <=> services[k] = Absent
  PROVE  BrowseInv'
<1>1. BrowseTypes' /\ OnlyBrowsed' /\ NothingBefore'
  BY DEF BrowseInv, BrowseTypes, OnlyBrowsed, NothingBefore
<1>2. ASSUME NEW k \in Services
      PROVE  Outcome(k)' <=> Outcome(k)
  BY DEF Outcome
<1>3. NothingMissed'
  BY <1>2 DEF BrowseInv, NothingMissed
<1> QED
  BY <1>1, <1>3 DEF BrowseInv

LEMMA BrowseStops ==
  ASSUME BrowseInv, Stop, UNCHANGED announced
  PROVE  BrowseInv'
BY DEF BrowseInv, BrowseTypes, OnlyBrowsed, NothingBefore, NothingMissed, Stop

\* Whatever is announced, there is a signal of its type or of itself.
LEMMA AvahiStep ==
  ASSUME BrowseInv, Avahi
  PROVE  BrowseInv'
<1> USE DEF network, loop, queues, cache, output, BrowseInv, BrowseTypes
<1>1. ASSUME NEW k \in Services, Announce(k)
      PROVE  BrowseInv'
  <2> DEFINE t == TypeOf[k]
             some == IF conn \in {"opening", "open"} /\ OfType(t) = {}
                     THEN Append(signals, Signal("type", t)) ELSE signals
  <2>1. t \in Types /\ Signal("type", t) \in Signals /\ Signal("new", k) \in Signals
    BY ServicesAssumption DEF Signal, Signals
  <2>2. some \in Seq(Signals)
    BY <2>1
  <2>3. signals' = IF t \in types THEN Append(some, Signal("new", k)) ELSE some
    <3>1. \A s \in Seq(Signals), x \in Signals : s \o <<>> = s /\ s \o <<x>> = Append(s, x)
      OBVIOUS
    <3>2. some = signals \o (IF conn \in {"opening", "open"} /\ OfType(t) = {}
                             THEN <<Signal("type", t)>> ELSE <<>>)
      BY <2>1, <3>1
    <3>3. signals' = some \o (IF t \in types THEN <<Signal("new", k)>> ELSE <<>>)
      BY <1>1, <3>2 DEF Announce
    <3> HIDE DEF some
    <3> QED
      BY <2>1, <2>2, <3>1, <3>3
  <2>4. /\ BrowseTypes' /\ announced' = announced \union {k} /\ k \notin announced
        /\ UNCHANGED <<conn, types, services>>
    BY <1>1, <2>1, <2>2, <2>3 DEF Announce
  <2>5. \A i \in DOMAIN some : some[i] = Signal("type", t) \/ (i \in DOMAIN signals /\ some[i] = signals[i])
    BY <2>1
  <2>6. \A i \in DOMAIN signals : i \in DOMAIN some /\ some[i] = signals[i]
    BY <2>1
  <2>7. \A i \in DOMAIN signals' : \/ (i \in DOMAIN some /\ signals'[i] = some[i])
                                   \/ (signals'[i] = Signal("new", k) /\ t \in types)
    BY <2>1, <2>2, <2>3
  <2>8. \A i \in DOMAIN some : i \in DOMAIN signals' /\ signals'[i] = some[i]
    BY <2>1, <2>2, <2>3
  <2>9. OnlyBrowsed'
    BY <2>4, <2>5, <2>7 DEF OnlyBrowsed, Signal
  <2>10. NothingBefore'
    BY <2>4 DEF NothingBefore
  <2>11. ASSUME NEW x \in Services
         PROVE  OutcomeIn(signals', x, services[x]) <=>
                  IF x = k /\ t \in types THEN TRUE ELSE OutcomeIn(signals, x, services[x])
    <3>1. OutcomeIn(some, x, services[x]) <=> OutcomeIn(signals, x, services[x])
      <4>1. ~IsAbout(Signal("type", t), x)
        BY DEF IsAbout, Signal
      <4> QED
        BY <2>1, <4>1, OutcomeAppend
    <3>2. IsAbout(Signal("new", k), x) <=> x = k
      BY DEF IsAbout, Signal
    <3>3. Signal("new", k).kind = "new"
      BY DEF Signal
    <3>4. CASE t \in types
      <4>1. signals' = Append(some, Signal("new", k))
        BY <2>3, <3>4
      <4>2. OutcomeIn(Append(some, Signal("new", k)), x, services[x]) <=>
              IF IsAbout(Signal("new", k), x) THEN Signal("new", k).kind = "new"
              ELSE OutcomeIn(some, x, services[x])
        <5> HIDE DEF some, BrowseInv, BrowseTypes
        <5> QED
          BY <2>1, <2>2, OutcomeAppend
      <4> HIDE DEF some, BrowseInv, BrowseTypes
      <4> QED
        BY <3>1, <3>2, <3>3, <3>4, <4>1, <4>2
    <3>5. CASE t \notin types
      BY <2>3, <3>1, <3>5
    <3> QED
      BY <3>4, <3>5
  <2>12. ASSUME conn \in {"opening", "open"}, NEW x \in Services
         PROVE  IF TypeOf[x] \in types' THEN Outcome(x)' <=> x \in announced'
                ELSE /\ services'[x] = Absent
                     /\ x \in announced' =>
                          \E i \in DOMAIN signals' : signals'[i] = Signal("type", TypeOf[x])
    <3>1. CASE TypeOf[x] \in types
      BY <2>4, <2>11, <2>12, <3>1, OutcomeIs DEF NothingMissed
    <3>2. CASE TypeOf[x] \notin types
      <4>1. services[x] = Absent
        BY <2>12, <3>2 DEF NothingMissed
      <4>2. CASE x # k
        BY <2>4, <2>6, <2>8, <2>12, <3>2, <4>1, <4>2 DEF NothingMissed
      <4>3. CASE x = k
        <5>1. CASE OfType(t) = {}
          <6>1. some[Len(signals) + 1] = Signal("type", t) /\ Len(signals) + 1 \in DOMAIN some
            BY <2>1, <2>12, <5>1
          <6> QED
            BY <2>4, <2>8, <3>2, <4>1, <4>3, <6>1
        <5>2. CASE OfType(t) # {}
          <6>1. PICK y \in announced : y \in Services /\ TypeOf[y] = t
            BY <5>2 DEF OfType
          <6>2. \E i \in DOMAIN signals : signals[i] = Signal("type", t)
            BY <2>12, <3>2, <4>3, <6>1 DEF NothingMissed
          <6> QED
            BY <2>4, <2>6, <2>8, <3>2, <4>1, <4>3, <6>2
        <5> QED
          BY <5>1, <5>2
      <4> QED
        BY <4>2, <4>3
    <3> QED
      BY <2>4, <3>1, <3>2
  <2>13. NothingMissed'
    BY <2>4, <2>12 DEF NothingMissed
  <2> QED
    BY <2>4, <2>9, <2>10, <2>13
<1>2. ASSUME NEW k \in Services, Withdraw(k)
      PROVE  BrowseInv'
  <2>1. Signal("remove", k) \in Signals /\ Signal("remove", k).kind = "remove"
        /\ \A x : IsAbout(Signal("remove", k), x) <=> x = k
    BY DEF Signal, Signals, IsAbout
  <2>2. /\ signals' = IF TypeOf[k] \in types THEN Append(signals, Signal("remove", k)) ELSE signals
        /\ announced' = announced \ {k} /\ UNCHANGED <<conn, types, services>>
    BY <1>2 DEF Withdraw
  <2>3. BrowseTypes' /\ NothingBefore'
    BY <2>1, <2>2 DEF NothingBefore
  <2>4. /\ \A i \in DOMAIN signals : i \in DOMAIN signals' /\ signals'[i] = signals[i]
        /\ \A i \in DOMAIN signals' : \/ (i \in DOMAIN signals /\ signals'[i] = signals[i])
                                      \/ (signals'[i] = Signal("remove", k) /\ TypeOf[k] \in types)
    BY <2>1, <2>2
  <2>5. OnlyBrowsed'
    BY <2>2, <2>4 DEF OnlyBrowsed, Signal
  <2>6. ASSUME NEW x \in Services, TypeOf[x] \in types
        PROVE  OutcomeIn(signals', x, services[x]) <=>
                 (x # k /\ OutcomeIn(signals, x, services[x]))
    <3>1. CASE TypeOf[k] \in types
      BY <2>1, <2>2, <3>1, OutcomeAppend
    <3>2. CASE TypeOf[k] \notin types
      BY <2>2, <2>6, <3>2
    <3> QED
      BY <3>1, <3>2
  <2>7. NothingMissed'
    BY <2>2, <2>4, <2>6, OutcomeIs DEF NothingMissed
  <2> QED
    BY <2>3, <2>5, <2>7
<1> QED
  BY <1>1, <1>2 DEF Avahi

LEMMA RunStep ==
  ASSUME BrowseInv, Run \/ ConnectFails \/ BrowseFails
  PROVE  BrowseInv'
<1> USE DEF network, loop, queues, cache, output, BrowseInv, BrowseTypes
<1>1. CASE Connect
  <2> DEFINE S == {t \in Types : OfType(t) # {}}
  <2>1. PICK order \in SetToSeqs(S) : signals' = Reports("type", order)
    BY <1>1 DEF Connect
  <2>2. IsFiniteSet(S)
    BY FS_Subset, ServicesAssumption
  <2>3. order \in Seq(S) /\ \A t \in S : \E i \in DOMAIN order : order[i] = t
    BY <2>2, OrderCovers
  <2>4. DOMAIN order = 1 .. Len(order) /\ Len(order) \in Nat /\ \A i \in DOMAIN order : order[i] \in Types
    BY <2>3
  <2>5. signals' = [i \in 1 .. Len(order) |-> Signal("type", order[i])]
    BY <2>1, <2>4 DEF Reports
  <2>6. \A i \in 1 .. Len(order) : Signal("type", order[i]) \in Signals
    BY <2>4 DEF Signal, Signals
  <2>7. BrowseTypes'
    BY <1>1, <2>4, <2>5, <2>6 DEF Connect
  <2>8. OnlyBrowsed'
    BY <2>5 DEF OnlyBrowsed, Signal
  <2>9. NothingBefore' /\ types' = {} /\ announced' = announced /\ \A k \in Services : services'[k] = Absent
    BY <1>1 DEF Connect, NothingBefore
  <2>10. ASSUME NEW k \in announced
         PROVE  \E i \in DOMAIN signals' : signals'[i] = Signal("type", TypeOf[k])
    <3>1. TypeOf[k] \in S
      BY <2>10, ServicesAssumption DEF OfType
    <3> QED
      BY <2>3, <2>4, <2>5, <3>1
  <2> QED
    BY <2>7, <2>8, <2>9, <2>10 DEF NothingMissed
<1>2. CASE BrowseBegins
  <2>1. /\ \A k \in Services : services'[k] = Absent /\ services[k] = Absent
        /\ types = {} /\ UNCHANGED <<announced, signals, types>>
        /\ conn = "opening" /\ conn' = "open"
    BY <1>2 DEF BrowseBegins, Reset, NothingBefore
  <2> QED
    BY <2>1 DEF OnlyBrowsed, NothingBefore, NothingMissed
<1>3. CASE BrowseEnded
  BY <1>3 DEF BrowseEnded, Reset, OnlyBrowsed, NothingBefore, NothingMissed
<1>4. CASE ConnectFails
  BY <1>4 DEF ConnectFails, Reset, OnlyBrowsed, NothingBefore, NothingMissed
<1>5. CASE BrowseFails
  BY <1>5, BrowseStops DEF BrowseFails
<1> QED
  BY <1>1, <1>2, <1>3, <1>4, <1>5 DEF Run

\* What the loop does with the first signal keeps what the others will make of
\* the cache, when the entry becomes what that signal says.
LEMMA TailKeeps ==
  ASSUME BrowseInv, signals # <<>>, conn = "open", signals' = Tail(signals),
         UNCHANGED <<announced, conn, types>>,
         \A t \in Types : Head(signals) = Signal("type", t) => t \in types,
         \A k \in Services :
           services'[k] # Absent <=> IF IsAbout(Head(signals), k) THEN Head(signals).kind = "new"
                                     ELSE services[k] # Absent
  PROVE  BrowseInv'
<1> USE DEF BrowseInv, BrowseTypes
<1>1. /\ DOMAIN signals = 1 .. Len(signals) /\ Len(signals) \in Nat \ {0} /\ Head(signals) = signals[1]
      /\ signals' \in Seq(Signals) /\ DOMAIN signals' = 1 .. Len(signals) - 1
      /\ \A i \in DOMAIN signals' : signals'[i] = signals[i + 1]
  OBVIOUS
<1>2. BrowseTypes' /\ OnlyBrowsed' /\ NothingBefore'
  BY <1>1 DEF OnlyBrowsed, NothingBefore
<1>3. ASSUME NEW k \in Services
      PROVE  Outcome(k)' <=> Outcome(k)
  BY OutcomeIs, OutcomeTail
<1>4. ASSUME NEW k \in Services, TypeOf[k] \notin types
      PROVE  /\ services'[k] = Absent
             /\ k \in announced => \E i \in DOMAIN signals' : signals'[i] = Signal("type", TypeOf[k])
  <2>1. ~IsAbout(Head(signals), k)
    BY <1>1, <1>4 DEF OnlyBrowsed, IsAbout
  <2>2. services'[k] = Absent
    BY <1>4, <2>1 DEF NothingMissed
  <2>3. ASSUME k \in announced
        PROVE  \E i \in DOMAIN signals' : signals'[i] = Signal("type", TypeOf[k])
    <3>1. PICK i \in DOMAIN signals : signals[i] = Signal("type", TypeOf[k])
      BY <1>4, <2>3 DEF NothingMissed
    <3>2. i # 1
      BY <1>1, <1>4, <3>1, ServicesAssumption
    <3>3. i - 1 \in DOMAIN signals' /\ signals'[i - 1] = signals[i]
      BY <1>1, <3>2
    <3> QED
      BY <3>1, <3>3
  <2> QED
    BY <2>2, <2>3
<1>5. NothingMissed'
  BY <1>3, <1>4 DEF NothingMissed
<1> QED
  BY <1>2, <1>5

LEMMA SignalStep ==
  ASSUME BrowseInv, LoopInv, Handle
  PROVE  BrowseInv'
<1> USE DEF network, loop, queues, cache, output
<1>1. ASSUME NEW t \in Types, TypeAgain(t)
      PROVE  BrowseInv'
  <2>1. \A k : ~IsAbout(Head(signals), k)
    BY <1>1 DEF TypeAgain, Received, Signal, IsAbout
  <2>2. \A u : Head(signals) = Signal("type", u) => u = t
    BY <1>1 DEF TypeAgain, Received, Signal
  <2> QED
    BY <1>1, <2>1, <2>2, TailKeeps DEF TypeAgain, Received
<1>3. ASSUME NEW k \in Services, TooManyServices(k)
      PROVE  BrowseInv'
  BY <1>3, BrowseStops DEF TooManyServices
<1>4. ASSUME NEW k \in Services, NewItem(k)
      PROVE  BrowseInv'
  <2>1. /\ \A x : IsAbout(Head(signals), x) <=> x = k
        /\ Head(signals).kind = "new" /\ \A u : Head(signals) # Signal("type", u)
    BY <1>4 DEF NewItem, Received, Signal, IsAbout
  <2>2. services' = [services EXCEPT ![k] = [state |-> "pending", of |-> generation + 1]]
    BY <1>4 DEF NewItem, Upsert
  <2>3. \A x \in Services : services'[x] # Absent <=> IF x = k THEN TRUE ELSE services[x] # Absent
    BY <2>2 DEF LoopInv, LoopTypes, Absent
  <2>4. signals # <<>> /\ conn = "open" /\ UNCHANGED announced
    BY <1>4 DEF NewItem, Received
  <2>5. Stop \/ (signals' = Tail(signals) /\ UNCHANGED <<conn, types>>)
    BY <1>4 DEF NewItem, Enqueue
  <2> QED
    BY <2>1, <2>3, <2>4, <2>5, BrowseStops, TailKeeps
<1>5. ASSUME NEW k \in Services, ItemRemoved(k)
      PROVE  BrowseInv'
  <2>1. /\ \A x : IsAbout(Head(signals), x) <=> x = k
        /\ Head(signals).kind = "remove" /\ \A u : Head(signals) # Signal("type", u)
    BY <1>5 DEF ItemRemoved, Received, Signal, IsAbout
  <2>2. \A x \in Services : services'[x] # Absent <=> IF x = k THEN FALSE ELSE services[x] # Absent
    BY <1>5 DEF ItemRemoved, RemoveItem, LoopInv, LoopTypes
  <2> QED
    BY <1>5, <2>1, <2>2, TailKeeps DEF ItemRemoved, Received
<1>6. ASSUME NEW t \in Types, NewType(t)
      PROVE  BrowseInv'
  <2>1. conn = "open" /\ signals # <<>> /\ Head(signals) = Signal("type", t) /\ t \notin types
    BY <1>6 DEF NewType, Received
  <2>2. CASE Stop
    BY <1>6, <2>2, BrowseStops DEF NewType
  <2>3. CASE ~Stop
    <3>1. PICK order \in SetToSeqs(OfType(t)) : signals' = Tail(signals) \o Reports("new", order)
      BY <1>6, <2>3 DEF NewType
    <3>2. types' = types \union {t} /\ UNCHANGED <<announced, conn, services>>
      BY <1>6, <2>3 DEF NewType
    <3> DEFINE rest == Tail(signals)
               reports == Reports("new", order)
    <3>3. /\ announced \subseteq Services /\ types \subseteq Types /\ signals \in Seq(Signals)
          /\ rest \in Seq(Signals) /\ DOMAIN rest = 1 .. Len(signals) - 1
          /\ DOMAIN signals = 1 .. Len(signals) /\ Len(signals) \in Nat \ {0}
          /\ \A i \in DOMAIN rest : rest[i] = signals[i + 1]
      BY <2>1 DEF BrowseInv, BrowseTypes
    <3>4. /\ order \in Seq(OfType(t)) /\ reports \in Seq(Signals) /\ Len(reports) = Len(order)
          /\ \A i \in 1 .. Len(order) : reports[i].kind = "new" /\ reports[i].item = order[i]
      BY <3>3, ReportsAre
    <3>5. \A i \in 1 .. Len(order) : TypeOf[reports[i].item] = t
      BY <3>4 DEF OfType
    <3>6. signals' = rest \o reports
      BY <3>1
    <3> HIDE DEF rest, reports
    <3>7. /\ signals' \in Seq(Signals)
          /\ \A i \in DOMAIN rest : i \in DOMAIN signals' /\ signals'[i] = rest[i]
          /\ \A i \in DOMAIN signals' : \/ (i \in DOMAIN rest /\ signals'[i] = rest[i])
                                        \/ TypeOf[signals'[i].item] = t
      <4>1. /\ DOMAIN signals' = 1 .. Len(rest) + Len(order)
            /\ DOMAIN rest = 1 .. Len(rest) /\ Len(rest) \in Nat /\ Len(order) \in Nat
            /\ \A i \in 1 .. Len(rest) : signals'[i] = rest[i]
            /\ \A i \in 1 .. Len(order) : signals'[Len(rest) + i] = reports[i]
        <5>1. rest \in Seq(Signals) /\ reports \in Seq(Signals)
          BY <3>3, <3>4
        <5>2. /\ DOMAIN (rest \o reports) = 1 .. Len(rest) + Len(reports)
              /\ DOMAIN rest = 1 .. Len(rest) /\ Len(rest) \in Nat /\ Len(reports) \in Nat
              /\ \A i \in 1 .. Len(rest) : (rest \o reports)[i] = rest[i]
              /\ \A i \in 1 .. Len(reports) : (rest \o reports)[Len(rest) + i] = reports[i]
          BY <5>1, Concatenation
        <5>3. Len(reports) = Len(order)
          BY <3>4
        <5> QED
          BY <3>6, <5>2, <5>3
      <4>2. ASSUME NEW i \in DOMAIN signals', i \notin DOMAIN rest
            PROVE  TypeOf[signals'[i].item] = t
        <5>1. i - Len(rest) \in 1 .. Len(order) /\ i = Len(rest) + (i - Len(rest))
          BY <4>1, <4>2
        <5>2. signals'[i] = reports[i - Len(rest)]
          BY <4>1, <5>1
        <5> QED
          BY <3>5, <5>1, <5>2
      <4> QED
        BY <3>3, <3>4, <3>6, <4>1, <4>2
    <3>11. BrowseTypes' /\ NothingBefore'
      BY <2>1, <3>2, <3>3, <3>7 DEF BrowseInv, BrowseTypes, NothingBefore
    <3>8. OnlyBrowsed'
      <4>1. ASSUME NEW i \in DOMAIN signals', signals'[i].kind # "type"
            PROVE  TypeOf[signals'[i].item] \in types'
        <5>1. CASE i \in DOMAIN rest /\ signals'[i] = rest[i]
          <6>1. i + 1 \in DOMAIN signals /\ signals'[i] = signals[i + 1]
            BY <3>3, <5>1
          <6> QED
            BY <3>2, <4>1, <6>1 DEF BrowseInv, OnlyBrowsed
        <5>2. CASE TypeOf[signals'[i].item] = t
          BY <3>2, <5>2
        <5> QED
          BY <3>7, <5>1, <5>2
      <4> QED
        BY <4>1 DEF OnlyBrowsed
    <3>9. ASSUME NEW k \in Services
          PROVE  IF TypeOf[k] \in types' THEN Outcome(k)' <=> k \in announced'
                 ELSE /\ services'[k] = Absent
                      /\ k \in announced' =>
                           \E i \in DOMAIN signals' : signals'[i] = Signal("type", TypeOf[k])
      <4>1. ~IsAbout(Head(signals), k)
        BY <2>1 DEF Signal, IsAbout
      <4>2. OutcomeIn(rest, k, services[k]) <=> OutcomeIn(signals, k, services[k])
        BY <2>1, <3>3, <4>1, OutcomeTail DEF rest
      <4>3. CASE TypeOf[k] = t
        <5>1. services[k] = Absent
          BY <2>1, <4>3 DEF BrowseInv, NothingMissed
        <5>2. AboutIn(rest, k) = {}
          BY <2>1, <3>3, <4>3 DEF BrowseInv, OnlyBrowsed, AboutIn, IsAbout
        <5> QED
          BY <3>2, <3>3, <3>6, <4>3, <5>1, <5>2, OutcomeReports, OutcomeIs DEF reports
      <4>4. CASE TypeOf[k] # t /\ TypeOf[k] \in types
        BY <2>1, <3>2, <3>3, <3>6, <4>2, <4>4, OutcomeReports, OutcomeIs DEF BrowseInv, NothingMissed, reports
      <4>5. CASE TypeOf[k] # t /\ TypeOf[k] \notin types
        <5>1. services[k] = Absent
          BY <2>1, <4>5 DEF BrowseInv, NothingMissed
        <5>2. ASSUME k \in announced
              PROVE  \E i \in DOMAIN signals' : signals'[i] = Signal("type", TypeOf[k])
          <6>1. PICK i \in DOMAIN signals : signals[i] = Signal("type", TypeOf[k])
            BY <2>1, <4>5, <5>2 DEF BrowseInv, NothingMissed
          <6>2. i # 1
            BY <2>1, <3>3, <4>5, <6>1 DEF Signal
          <6>3. i - 1 \in DOMAIN rest /\ rest[i - 1] = signals[i]
            BY <3>3, <6>2
          <6> QED
            BY <3>7, <6>1, <6>3
        <5> QED
          BY <3>2, <4>5, <5>1, <5>2
      <4> QED
        BY <3>2, <4>3, <4>4, <4>5
    <3>10. NothingMissed'
      BY <3>9 DEF NothingMissed
    <3> QED
      BY <3>8, <3>10, <3>11 DEF BrowseInv
  <2> QED
    BY <2>2, <2>3
<1> QED
  BY <1>1, <1>3, <1>4, <1>5, <1>6 DEF Handle

LEMMA BrowseStep == BrowseInv /\ LoopInv /\ [Next]_vars => BrowseInv'
<1> SUFFICES ASSUME BrowseInv, LoopInv, [Next]_vars
             PROVE  BrowseInv'
  OBVIOUS
<1> USE DEF network, loop, queues, cache, output
<1>1. CASE Result
  <2> DEFINE r == Head(results)
  <2>1. r.request \in Requests /\ r.request.service \in Services /\ r.request.generation # 0
    <3>1. r \in Answers
      BY <1>1 DEF Result, LoopInv, LoopTypes
    <3>2. r.request \in Requests
      BY <3>1 DEF Answers
    <3> QED
      BY <3>2 DEF Requests
  <2>2. CASE Wanted(r)
    <3>1. services' = [services EXCEPT ![r.request.service] =
                         [state |-> r.outcome, of |-> r.request.generation]]
      BY <1>1, <2>2 DEF Result, Upsert
    <3>2. r.request.service \in Services /\ generations[r.request.service] # 0
      BY <2>1, <2>2 DEF Wanted
    <3>3. services[r.request.service] # Absent /\ conn = "open"
      BY <1>1, <3>2 DEF Result, LoopInv, ShownIsLatest
    <3>4. \A k \in Services : services'[k] = Absent <=> services[k] = Absent
      BY <2>1, <3>1, <3>2, <3>3 DEF LoopInv, LoopTypes, Absent
    <3> QED
      BY <1>1, <3>4, BrowseFrame DEF Result
  <2>3. CASE ~Wanted(r)
    BY <1>1, <2>3, BrowseFrame DEF Result
  <2> QED
    BY <2>2, <2>3
<1>2. ASSUME NEW w \in Workers, Work(w)
      PROVE  BrowseInv'
  BY <1>2, BrowseFrame DEF Work, Take, Resolve
<1>3. ASSUME NEW s \in Streams, Subscribe(s) \/ Deliver(s) \/ Unsubscribe(s)
      PROVE  BrowseInv'
  BY <1>3, BrowseFrame DEF Subscribe, Deliver, Unsubscribe
<1>4. CASE UNCHANGED vars
  BY <1>4, BrowseFrame DEF vars
<1> QED
  BY <1>1, <1>2, <1>3, <1>4, AvahiStep, RunStep, SignalStep DEF Next

LEMMA BrowseInitial == Init => BrowseInv
  BY DEF Init, BrowseInv, BrowseTypes, OnlyBrowsed, NothingBefore, NothingMissed

\* A browse misses nothing, whatever order services come and go in and whatever
\* overflows: the cache with what waits is what Avahi announces.
THEOREM NothingIsMissed == Spec => []NothingMissed
<1>1. BrowseInv => NothingMissed
  BY DEF BrowseInv
<1> QED
  BY <1>1, BrowseInitial, BrowseStep, LoopInitial, LoopStep, PTL DEF Spec

-----------------------------------------------------------------------------
WithinLimits ==
  /\ changes \in 0 .. MaxChanges /\ failures \in 0 .. MaxFailures
  /\ connected \in BOOLEAN
  /\ Cardinality(types) <= TypeLimit /\ Cardinality(Known) <= ServiceLimit
  /\ Len(jobs) <= QueueLimit /\ Len(results) <= ResultLimit

LEMMA AddOne ==
  ASSUME NEW S, IsFiniteSet(S), NEW x
  PROVE  /\ Cardinality(S) \in Nat /\ Cardinality(S \union {x}) \in Nat
         /\ Cardinality(S \union {x}) <= Cardinality(S) + 1
<1>1. Cardinality(S) \in Nat
  BY FS_CardinalityType
<1>2. Cardinality(S \union {x}) = IF x \in S THEN Cardinality(S) ELSE Cardinality(S) + 1
  BY FS_AddElement
<1> QED
  BY <1>1, <1>2

LEMMA KnownFinite == IsFiniteSet(Known) /\ Cardinality(Known) \in Nat
<1>1. Known \in SUBSET Services
  BY DEF Known
<1> QED
  BY <1>1, FS_Subset, FS_CardinalityType, ServicesAssumption

\* A browse that ends leaves nothing that could be past a limit.
LEMMA StopEmpties ==
  ASSUME WithinLimits, Stop, UNCHANGED changes, failures' \in 0 .. MaxFailures, connected' \in BOOLEAN
  PROVE  WithinLimits'
<1>1. types' = {} /\ Known' = {} /\ Len(jobs') = 0 /\ Len(results') = 0
  BY DEF Stop, Known
<1> QED
  BY <1>1, FS_EmptySet, LimitsAssumption DEF WithinLimits

LEMMA TypeLimitStep ==
  ASSUME WithinLimits, BrowseInv, LoopInv, NEW t \in Types, NewType(t)
  PROVE  WithinLimits'
<1> USE DEF network, loop, queues, cache, output, WithinLimits
<1>1. CASE Stop
  BY <1>1, StopEmpties DEF NewType
<1>2. CASE ~Stop
  <2>1. /\ Cardinality(types) < TypeLimit /\ types' = types \union {t}
        /\ UNCHANGED <<changes, failures, connected, generations, jobs, results>>
    BY <1>2 DEF NewType
  <2>2. IsFiniteSet(types)
    BY FS_Subset, ServicesAssumption DEF BrowseInv, BrowseTypes
  <2>3. /\ Cardinality(types) \in Nat /\ Cardinality(types') \in Nat
        /\ Cardinality(types') <= Cardinality(types) + 1
    BY <2>1, <2>2, AddOne
  <2>4. Known' = Known
    BY <2>1 DEF Known
  <2> QED
    BY <2>1, <2>3, <2>4, LimitsAssumption
<1> QED
  BY <1>1, <1>2

LEMMA ServiceLimitStep ==
  ASSUME WithinLimits, LoopInv, NEW k \in Services, NewItem(k)
  PROVE  WithinLimits'
<1> USE DEF network, loop, queues, cache, output, WithinLimits
<1>1. UNCHANGED <<changes, failures, connected>>
  BY DEF NewItem, Upsert
<1>2. CASE Stop
  BY <1>1, <1>2, StopEmpties
<1>3. CASE ~Stop
  <2> DEFINE request == [service |-> k, generation |-> generation + 1]
  <2>1. /\ Len(jobs) < QueueLimit /\ jobs' = Append(jobs, request)
        /\ generations' = [generations EXCEPT ![k] = generation + 1]
        /\ UNCHANGED <<types, results>>
    BY <1>3 DEF NewItem, Enqueue
  <2>2. Known' = Known \union {k}
    BY <2>1 DEF Known, LoopInv, LoopTypes
  <2>3. /\ Cardinality(Known) \in Nat /\ Cardinality(Known') \in Nat
        /\ Cardinality(Known') <= Cardinality(Known) + 1
    BY <2>2, KnownFinite, AddOne
  <2>4. Len(jobs') = Len(jobs) + 1 /\ Len(jobs) \in Nat
    BY <2>1 DEF LoopInv, LoopTypes
  <2>5. ~(Cardinality(Known) >= ServiceLimit)
    BY DEF NewItem, KnownFull
  <2>6. Cardinality(Known') <= ServiceLimit
    BY <2>3, <2>5, LimitsAssumption
  <2> QED
    BY <1>1, <2>1, <2>4, <2>6, LimitsAssumption
<1> QED
  BY <1>2, <1>3

LEMMA RemovalStep ==
  ASSUME WithinLimits, LoopInv, NEW k \in Services, ItemRemoved(k)
  PROVE  WithinLimits'
<1> USE DEF network, loop, queues, cache, output, WithinLimits
<1>1. Known' \subseteq Known
  BY DEF ItemRemoved, Known, LoopInv, LoopTypes
<1>2. Cardinality(Known') <= Cardinality(Known) /\ Cardinality(Known') \in Nat /\ Cardinality(Known) \in Nat
  <2>1. IsFiniteSet(Known)
    BY KnownFinite
  <2>2. Known' \in SUBSET Known
    BY <1>1
  <2>3. IsFiniteSet(Known') /\ Cardinality(Known') <= Cardinality(Known)
    BY <2>1, <2>2, FS_Subset
  <2> QED
    BY <2>1, <2>3, FS_CardinalityType
<1> QED
  BY <1>2, LimitsAssumption DEF ItemRemoved, RemoveItem

LEMMA LimitStep == WithinLimits /\ BrowseInv /\ LoopInv /\ [Next]_vars => WithinLimits'
<1> SUFFICES ASSUME WithinLimits, BrowseInv, LoopInv, [Next]_vars
             PROVE  WithinLimits'
  OBVIOUS
<1> USE DEF network, loop, queues, cache, output
<1>0. ASSUME UNCHANGED <<types, generations, jobs, results>>, changes' \in 0 .. MaxChanges,
             failures' \in 0 .. MaxFailures, connected' \in BOOLEAN
      PROVE  WithinLimits'
  BY <1>0 DEF WithinLimits, Known
<1>1. CASE Avahi
  <2>1. UNCHANGED <<types, generations, jobs, results, failures, connected>>
    BY <1>1 DEF Avahi, Announce, Withdraw
  <2>2. changes < MaxChanges /\ changes' = changes + 1
    BY <1>1 DEF Avahi, Announce, Withdraw
  <2>3. changes' \in 0 .. MaxChanges
    BY <2>2, LimitsAssumption DEF WithinLimits
  <2> QED
    BY <2>1, <2>3 DEF WithinLimits, Known
<1>2. CASE Run \/ ConnectFails
  <2>1. UNCHANGED <<types, generations, jobs, results, changes>>
    BY <1>2 DEF Run, Connect, BrowseBegins, BrowseEnded, ConnectFails
  <2>2. failures' = failures \/ (failures < MaxFailures /\ failures' = failures + 1)
    BY <1>2 DEF Run, Connect, BrowseBegins, BrowseEnded, ConnectFails
  <2>3. failures' \in 0 .. MaxFailures
    BY <2>2, LimitsAssumption DEF WithinLimits
  <2>4. connected' = connected \/ connected' = TRUE \/ connected' = FALSE
    BY <1>2 DEF Run, Connect, BrowseBegins, BrowseEnded, ConnectFails, Reset
  <2>5. connected' \in BOOLEAN
    BY <2>4 DEF WithinLimits
  <2> QED
    BY <2>1, <2>3, <2>5 DEF WithinLimits, Known
<1>3. CASE BrowseFails
  BY <1>3, StopEmpties, LimitsAssumption DEF BrowseFails, WithinLimits
<1>4. CASE Handle
  <2>1. ASSUME NEW t \in Types, TypeAgain(t)
        PROVE  WithinLimits'
    BY <1>0, <2>1 DEF TypeAgain, WithinLimits
  <2>2. ASSUME NEW k \in Services, TooManyServices(k)
        PROVE  WithinLimits'
    BY <2>2, StopEmpties DEF TooManyServices, WithinLimits
  <2> QED
    BY <1>4, <2>1, <2>2, TypeLimitStep, ServiceLimitStep, RemovalStep DEF Handle
<1>5. CASE Result
  <2>1. Len(results') <= Len(results) /\ Len(results) \in Nat /\ Len(results') \in Nat
    BY <1>5 DEF Result, LoopInv, LoopTypes
  <2>2. UNCHANGED <<types, generations, jobs, changes, failures, connected>>
    BY <1>5 DEF Result, Upsert
  <2> QED
    BY <2>1, <2>2, LimitsAssumption DEF WithinLimits, Known
<1>6. ASSUME NEW w \in Workers, Work(w)
      PROVE  WithinLimits'
  <2>1. UNCHANGED <<types, generations, changes, failures, connected>>
    BY <1>6 DEF Work, Take, Resolve
  <2>2. Len(jobs') <= QueueLimit
    <3>1. jobs' = jobs \/ (jobs # <<>> /\ jobs' = Tail(jobs))
      BY <1>6 DEF Work, Take, Resolve
    <3>2. Len(jobs') <= Len(jobs) /\ Len(jobs) \in Nat /\ Len(jobs') \in Nat
      BY <3>1 DEF LoopInv, LoopTypes
    <3> QED
      BY <3>2, LimitsAssumption DEF WithinLimits
  <2>3. Len(results') <= ResultLimit
    <3>1. results' = results \/ (Len(results) < ResultLimit /\ \E x : results' = Append(results, x))
      BY <1>6 DEF Work, Take, Resolve
    <3>2. results' = results \/ Len(results') = Len(results) + 1
      BY <3>1 DEF LoopInv, LoopTypes
    <3>3. Len(results) \in Nat
      BY DEF LoopInv, LoopTypes
    <3> QED
      BY <3>1, <3>2, <3>3, LimitsAssumption DEF WithinLimits
  <2> QED
    BY <2>1, <2>2, <2>3 DEF WithinLimits, Known
<1>7. ASSUME NEW s \in Streams, Subscribe(s) \/ Deliver(s) \/ Unsubscribe(s)
      PROVE  WithinLimits'
  BY <1>0, <1>7 DEF Subscribe, Deliver, Unsubscribe, WithinLimits
<1>8. CASE UNCHANGED vars
  BY <1>0, <1>8 DEF vars, WithinLimits
<1> QED
  BY <1>1, <1>2, <1>3, <1>4, <1>5, <1>6, <1>7, <1>8 DEF Next

LEMMA LimitInitial == Init => WithinLimits
<1> SUFFICES ASSUME Init
             PROVE  WithinLimits
  OBVIOUS
<1>1. Known = {} /\ types = {}
  BY DEF Init, Known
<1>2. Cardinality({}) = 0
  BY FS_EmptySet
<1> QED
  <2>1. changes \in 0 .. MaxChanges /\ failures \in 0 .. MaxFailures
    BY LimitsAssumption DEF Init
  <2>2. connected \in BOOLEAN
    BY DEF Init
  <2>3. Cardinality(types) <= TypeLimit /\ Cardinality(Known) <= ServiceLimit
    BY <1>1, <1>2, LimitsAssumption
  <2>4. Len(jobs) = 0 /\ Len(results) = 0
    BY DEF Init
  <2> QED
    BY <2>1, <2>2, <2>3, <2>4, LimitsAssumption DEF WithinLimits

\* Types; and no queue and no table is ever past its limit, at any speed of
\* Avahi, the loop and the workers.
THEOREM LimitsHold == Spec => []TypeOK
<1>1. LoopInv /\ BrowseInv /\ StreamsInv /\ WithinLimits => TypeOK
  BY DEF LoopInv, LoopTypes, BrowseInv, BrowseTypes, StreamsInv, WithinLimits, TypeOK, Answers
<1> QED
  BY <1>1, LoopInitial, LoopStep, BrowseInitial, BrowseStep, StreamsInitial, StreamsStep,
     LimitInitial, LimitStep, PTL DEF Spec

-----------------------------------------------------------------------------
\* What a browse still owes: every entry shown as pending has its request in one
\* of the queues or with a worker, so an answer to it will come.

Owed(k) == [service |-> k, generation |-> services[k].of]

Outstanding(k) ==
  \/ \E i \in DOMAIN jobs : jobs[i] = Owed(k)
  \/ \E w \in Workers : working[w] = Owed(k)
  \/ \E i \in DOMAIN results : results[i].request = Owed(k)

NothingForgotten ==
  conn = "open" => \A k \in Services : services[k].state = "pending" => Outstanding(k)

OwesInv ==
  /\ \A k \in Services : services[k].state = "absent" => services[k] = Absent
  /\ NothingForgotten

LEMMA InAppend ==
  ASSUME NEW S, NEW s \in Seq(S), NEW x \in S
  PROVE  /\ \A i \in DOMAIN s : i \in DOMAIN Append(s, x) /\ Append(s, x)[i] = s[i]
         /\ \E i \in DOMAIN Append(s, x) : Append(s, x)[i] = x
<1>1. Len(s) + 1 \in DOMAIN Append(s, x) /\ Append(s, x)[Len(s) + 1] = x
  OBVIOUS
<1>2. \A i \in DOMAIN s : i \in DOMAIN Append(s, x) /\ Append(s, x)[i] = s[i]
  OBVIOUS
<1> QED
  BY <1>1, <1>2

LEMMA InTail ==
  ASSUME NEW S, NEW s \in Seq(S), s # <<>>, NEW i \in DOMAIN s, s[i] # Head(s)
  PROVE  \E j \in DOMAIN Tail(s) : Tail(s)[j] = s[i]
<1>1. /\ DOMAIN s = 1 .. Len(s) /\ Len(s) \in Nat /\ i # 1
      /\ DOMAIN Tail(s) = 1 .. Len(s) - 1 /\ \A j \in 1 .. Len(s) - 1 : Tail(s)[j] = s[j + 1]
  OBVIOUS
<1>2. i - 1 \in 1 .. Len(s) - 1 /\ (i - 1) + 1 = i
  BY <1>1
<1>3. i - 1 \in DOMAIN Tail(s) /\ Tail(s)[i - 1] = s[i]
  BY <1>1, <1>2
<1> QED
  BY <1>3

\* An entry that stays as it is keeps its request where no queue loses one.
LEMMA OwesFrame ==
  ASSUME OwesInv, UNCHANGED <<conn, services, jobs, results, working>>
  PROVE  OwesInv'
BY DEF OwesInv, NothingForgotten, Outstanding, Owed

LEMMA OwesStops ==
  ASSUME OwesInv, Stop,
         \A k \in Services : services'[k].state = "absent" => services'[k] = Absent
  PROVE  OwesInv'
BY DEF OwesInv, NothingForgotten, Stop

LEMMA OwesResets ==
  ASSUME NEW up, Reset(up)
  PROVE  OwesInv'
BY DEF Reset, OwesInv, NothingForgotten, Absent

LEMMA OwesNewItem ==
  ASSUME OwesInv, LoopInv, NEW k \in Services, NewItem(k)
  PROVE  OwesInv'
<1> DEFINE request == [service |-> k, generation |-> generation + 1]
<1>1. /\ services' = [services EXCEPT ![k] = [state |-> "pending", of |-> generation + 1]]
      /\ services \in [Services -> [state : {"absent", "pending", "resolved", "failed"}, of : Nat]]
      /\ jobs \in Seq(Requests) /\ request \in Requests
  BY DEF NewItem, Upsert, LoopInv, LoopTypes, Requests
<1>2. \A x \in Services : services'[x].state = "absent" => services'[x] = Absent
  BY <1>1 DEF OwesInv
<1>3. CASE Stop
  BY <1>2, <1>3, OwesStops
<1>4. CASE jobs' = Append(jobs, request) /\ UNCHANGED <<conn, results, working>>
  <2>1. ASSUME NEW x \in Services \ {k}, services'[x].state = "pending", conn' = "open"
        PROVE  Outstanding(x)'
    <3>1. Outstanding(x) /\ Owed(x)' = Owed(x)
      BY <1>1, <1>4, <2>1 DEF OwesInv, NothingForgotten, Owed
    <3> QED
      BY <1>1, <1>4, <3>1, InAppend DEF Outstanding
  <2>2. Outstanding(k)'
    <3>1. Owed(k)' = request
      BY <1>1 DEF Owed
    <3> HIDE DEF request
    <3> QED
      BY <1>1, <1>4, <3>1, InAppend DEF Outstanding
  <2> QED
    BY <1>2, <2>1, <2>2 DEF OwesInv, NothingForgotten
<1> QED
  BY <1>3, <1>4 DEF NewItem, Enqueue

LEMMA OwesRemoved ==
  ASSUME OwesInv, LoopInv, NEW k \in Services, ItemRemoved(k)
  PROVE  OwesInv'
<1>1. /\ services' = [services EXCEPT ![k] = Absent] /\ UNCHANGED <<conn, jobs, results, working>>
      /\ services \in [Services -> [state : {"absent", "pending", "resolved", "failed"}, of : Nat]]
  BY DEF ItemRemoved, RemoveItem, queues, LoopInv, LoopTypes
<1>2. \A x \in Services : services'[x] = services[x] \/ services'[x] = Absent
  BY <1>1
<1> QED
  BY <1>1, <1>2 DEF OwesInv, NothingForgotten, Outstanding, Owed, Absent

\* A result that is not wanted is not the one its service is waiting for.
LEMMA OwesResult ==
  ASSUME OwesInv, LoopInv, Result
  PROVE  OwesInv'
<1> DEFINE r == Head(results)
<1>1. /\ conn = "open" /\ results # <<>> /\ results' = Tail(results)
      /\ UNCHANGED <<conn, jobs, working>>
      /\ results \in Seq(Answers) /\ r \in Answers
      /\ services \in [Services -> [state : {"absent", "pending", "resolved", "failed"}, of : Nat]]
  BY DEF Result, LoopInv, LoopTypes
<1>2. IF Wanted(r) THEN services' = [services EXCEPT ![r.request.service] =
                                       [state |-> r.outcome, of |-> r.request.generation]]
      ELSE services' = services
  BY DEF Result, Upsert, cache
<1>3. \A k \in Services : services[k].of = generations[k]
  BY <1>1 DEF LoopInv, ShownIsLatest
<1> HIDE DEF r
<1>4. r.request.service \in Services /\ r.outcome \in {"resolved", "failed"}
  BY <1>1 DEF Answers, Requests
<1>5. ASSUME NEW k \in Services, services'[k].state = "absent"
      PROVE  services'[k] = Absent
  <2>1. services'[k] = services[k] \/ services'[k].state = r.outcome
    BY <1>1, <1>2, <1>4
  <2> QED
    BY <1>4, <1>5, <2>1 DEF OwesInv
<1>6. ASSUME NEW k \in Services, services'[k].state = "pending"
      PROVE  Outstanding(k)'
  <2>1. services'[k] = services[k]
    BY <1>1, <1>2, <1>4, <1>6
  <2>2. Outstanding(k) /\ Owed(k)' = Owed(k)
    BY <1>1, <1>6, <2>1 DEF OwesInv, NothingForgotten, Owed
  <2>3. r.request # Owed(k)
    <3>1. CASE Wanted(r) /\ r.request.service = k
      BY <1>1, <1>2, <1>4, <1>6, <3>1
    <3>2. CASE ~Wanted(r) /\ r.request.service = k
      BY <1>3, <3>2 DEF Wanted, Owed
    <3>3. CASE r.request.service # k
      BY <3>3 DEF Owed
    <3> QED
      BY <3>1, <3>2, <3>3
  <2>4. ASSUME NEW i \in DOMAIN results, results[i].request = Owed(k)
        PROVE  \E j \in DOMAIN results' : results'[j].request = Owed(k)
    <3>1. results[i] # Head(results)
      BY <2>3, <2>4 DEF r
    <3> QED
      BY <1>1, <2>4, <3>1, InTail
  <2> QED
    BY <1>1, <2>2, <2>4 DEF Outstanding
<1> QED
  BY <1>5, <1>6 DEF OwesInv, NothingForgotten

LEMMA OwesWork ==
  ASSUME OwesInv, LoopInv, NEW w \in Workers, Work(w)
  PROVE  OwesInv'
<1>0. /\ UNCHANGED <<conn, services>> /\ working \in [Workers -> Requests \union {Idle}]
      /\ jobs \in Seq(Requests) /\ results \in Seq(Answers)
  BY DEF Work, Take, Resolve, cache, LoopInv, LoopTypes
<1>1. ASSUME NEW k \in Services, conn = "open", services[k].state = "pending"
      PROVE  Outstanding(k)'
  <2> USE <1>1
  <2>a. Outstanding(k)
    BY DEF OwesInv, NothingForgotten
  <2>b. Owed(k) # Idle
    <3>1. services[k].of \in Nat /\ services[k].of # 0
      BY DEF LoopInv, LoopTypes, ShownIsLatest, Absent
    <3> QED
      BY <3>1, IdleAssumption DEF Owed
  <2>0. Owed(k)' = Owed(k)
    BY <1>0 DEF Owed
  <2>1. CASE Take(w)
    <3>1. /\ working[w] = Idle /\ jobs # <<>> /\ results' = results
          /\ working' = [working EXCEPT ![w] = Head(jobs)] /\ jobs' = Tail(jobs)
      BY <2>1 DEF Take
    <3>2. ASSUME NEW i \in DOMAIN jobs, jobs[i] = Owed(k)
          PROVE  Outstanding(k)'
      <4>1. CASE jobs[i] = Head(jobs)
        BY <1>0, <2>0, <3>1, <3>2, <4>1 DEF Outstanding
      <4>2. CASE jobs[i] # Head(jobs)
        <5>1. \E j \in DOMAIN jobs' : jobs'[j] = Owed(k)
          BY <1>0, <3>1, <3>2, <4>2, InTail
        <5> QED
          BY <2>0, <5>1 DEF Outstanding
      <4> QED
        BY <4>1, <4>2
    <3>3. ASSUME NEW v \in Workers, working[v] = Owed(k)
          PROVE  Outstanding(k)'
      <4>1. v # w
        BY <2>b, <3>1, <3>3
      <4>2. working'[v] = working[v]
        BY <1>0, <3>1, <4>1
      <4> QED
        BY <2>0, <3>3, <4>2 DEF Outstanding
    <3> QED
      BY <2>a, <2>0, <3>1, <3>2, <3>3 DEF Outstanding
  <2>2. ASSUME NEW outcome \in {"resolved", "failed"}, Resolve(w, outcome)
        PROVE  Outstanding(k)'
    <3> DEFINE answer == [request |-> working[w], outcome |-> outcome]
    <3>1. /\ working[w] # Idle /\ jobs' = jobs
          /\ working' = [working EXCEPT ![w] = Idle] /\ results' = Append(results, answer)
      BY <2>2 DEF Resolve
    <3>2. answer \in Answers /\ answer.request = working[w]
      BY <1>0, <3>1 DEF Answers
    <3> HIDE DEF answer
    <3>3. /\ \A i \in DOMAIN results : i \in DOMAIN results' /\ results'[i] = results[i]
          /\ \E i \in DOMAIN results' : results'[i] = answer
      BY <1>0, <3>1, <3>2, InAppend
    <3> QED
      BY <1>0, <2>a, <2>0, <3>1, <3>2, <3>3 DEF Outstanding
  <2> QED
    BY <2>1, <2>2 DEF Work
<1> QED
  BY <1>0, <1>1 DEF OwesInv, NothingForgotten

LEMMA OwesStep ==
  ASSUME OwesInv, LoopInv, [Next]_vars
  PROVE  OwesInv'
<1> USE DEF network, loop, queues, cache, output
<1>1. CASE Avahi
  BY <1>1, OwesFrame DEF Avahi, Announce, Withdraw
<1>2. CASE Connect
  BY <1>2 DEF Connect, OwesInv, NothingForgotten
<1>3. CASE BrowseBegins \/ BrowseEnded \/ ConnectFails
  BY <1>3, OwesResets DEF BrowseBegins, BrowseEnded, ConnectFails
<1>4. CASE BrowseFails
  BY <1>4, OwesStops DEF BrowseFails, OwesInv
<1>5. ASSUME NEW t \in Types, TypeAgain(t) \/ NewType(t)
      PROVE  OwesInv'
  <2>1. (Stop /\ services' = services) \/ UNCHANGED <<conn, services, jobs, results, working>>
    BY <1>5 DEF TypeAgain, NewType
  <2> QED
    BY <2>1, OwesFrame, OwesStops DEF OwesInv
<1>6. ASSUME NEW k \in Services, TooManyServices(k)
      PROVE  OwesInv'
  BY <1>6, OwesStops DEF TooManyServices, OwesInv
<1>7. ASSUME NEW s \in Streams, Subscribe(s) \/ Deliver(s) \/ Unsubscribe(s)
      PROVE  OwesInv'
  BY <1>7, OwesFrame DEF Subscribe, Deliver, Unsubscribe
<1>8. CASE UNCHANGED vars
  BY <1>8, OwesFrame DEF vars
<1> QED
  BY <1>1, <1>2, <1>3, <1>4, <1>5, <1>6, <1>7, <1>8, OwesNewItem, OwesRemoved, OwesResult, OwesWork
     DEF Next, Run, Handle

\* No announcement is forgotten on its way through the queues: what a browse
\* shows as pending is still to be answered (browse, resolveWorkers).
THEOREM PendingIsAnswered == Spec => []NothingForgotten
<1>1. Init => OwesInv
  BY DEF Init, OwesInv, NothingForgotten, Absent
<1>2. OwesInv /\ LoopInv /\ [Next]_vars => OwesInv'
  BY OwesStep
<1>3. OwesInv => NothingForgotten
  BY DEF OwesInv
<1> QED
  BY LoopInitial, LoopStep, <1>1, <1>2, <1>3, PTL DEF Spec

-----------------------------------------------------------------------------
\* The end of a browse's work: nothing waits and no worker resolves.

Quiet ==
  /\ conn = "open" /\ signals = <<>> /\ jobs = <<>> /\ results = <<>>
  /\ \A w \in Workers : working[w] = Idle

\* When a browse has worked off what it was told, the cache shows exactly what
\* Avahi announces, every service resolved or marked as failed: no order of
\* signals, answers and workers ends with less (browse in browser.go).  This is
\* what Converges promises for the end, without its fairness.
THEOREM QuietBrowseMirrors == Spec => [](Quiet => Mirrored)
<1>1. BrowseInv /\ LoopInv /\ OwesInv => (Quiet => Mirrored)
  <2> SUFFICES ASSUME BrowseInv, LoopInv, OwesInv, Quiet, NEW k \in Services
               PROVE  IF k \in announced THEN services[k].state \in {"resolved", "failed"}
                      ELSE services[k] = Absent
    BY DEF Mirrored
  <2>1. DOMAIN signals = {} /\ DOMAIN jobs = {} /\ DOMAIN results = {}
    BY DEF Quiet
  <2>2. Outcome(k) <=> services[k] # Absent
    BY <2>1 DEF Outcome
  <2>3. k \in announced <=> services[k] # Absent
    BY <2>1, <2>2 DEF Quiet, BrowseInv, NothingMissed
  <2>4. services[k].state # "pending"
    <3>1. ASSUME services[k].state = "pending"
          PROVE  Owed(k) # Idle
      <4>1. services[k].of \in Nat /\ services[k].of # 0
        BY <3>1 DEF Quiet, LoopInv, LoopTypes, ShownIsLatest, Absent
      <4> QED
        BY <4>1, IdleAssumption DEF Owed
    <3> QED
      BY <2>1, <3>1 DEF Quiet, OwesInv, NothingForgotten, Outstanding
  <2>5. services[k].state \in {"absent", "pending", "resolved", "failed"}
    BY DEF LoopInv, LoopTypes
  <2> QED
    BY <2>3, <2>4, <2>5 DEF OwesInv
<1>2. Init => OwesInv
  BY DEF Init, OwesInv, NothingForgotten, Absent
<1>3. OwesInv /\ LoopInv /\ [Next]_vars => OwesInv'
  BY OwesStep
<1> QED
  BY LoopInitial, LoopStep, BrowseInitial, BrowseStep, <1>1, <1>2, <1>3, PTL DEF Spec

-----------------------------------------------------------------------------
\* How much an open browse still has to do, the costliest part first.

Busy == {w \in Workers : working[w] # Idle}

Ahead == <<Cardinality(Types \ types), Len(signals), Len(jobs), Cardinality(Busy), Len(results)>>

\* Some part of the rest of the work became less, and none before it more.
Nearer == \E n \in 1 .. 5 : Ahead'[n] < Ahead[n] /\ \A m \in 1 .. n - 1 : Ahead'[m] = Ahead[m]

LEMMA NearerAt ==
  ASSUME NEW n \in 1 .. 5, Ahead'[n] < Ahead[n], \A m \in 1 .. n - 1 : Ahead'[m] = Ahead[m]
  PROVE  Nearer
BY DEF Nearer

\* Each part of the work counts down a natural number.
LEMMA AheadCounts ==
  ASSUME BrowseInv, LoopInv
  PROVE  /\ Cardinality(Types \ types) \in Nat /\ Cardinality(Busy) \in Nat
         /\ Len(signals) \in Nat /\ Len(jobs) \in Nat /\ Len(results) \in Nat
<1>1. IsFiniteSet(Types \ types) /\ IsFiniteSet(Busy)
  <2>1. Types \ types \in SUBSET Types /\ Busy \in SUBSET Workers
    BY DEF Busy
  <2> QED
    BY <2>1, FS_Subset, ServicesAssumption, WorkersAssumption
<1>2. Cardinality(Types \ types) \in Nat /\ Cardinality(Busy) \in Nat
  BY <1>1, FS_CardinalityType
<1> QED
  BY <1>2 DEF BrowseInv, BrowseTypes, LoopInv, LoopTypes

LEMMA HandledIsNearer ==
  ASSUME BrowseInv, LoopInv, UNCHANGED types, signals # <<>>, signals' = Tail(signals)
  PROVE  Nearer
<1>1. Len(signals') < Len(signals)
  BY DEF BrowseInv, BrowseTypes
<1>2. Ahead'[2] < Ahead[2] /\ Ahead'[1] = Ahead[1]
  BY <1>1 DEF Ahead
<1> QED
  BY <1>2, NearerAt

LEMMA TypeIsNearer ==
  ASSUME BrowseInv, NEW t \in Types \ types, types' = types \union {t}
  PROVE  Nearer
<1>1. IsFiniteSet(Types \ types)
  <2>1. Types \ types \in SUBSET Types
    OBVIOUS
  <2> QED
    BY <2>1, FS_Subset, ServicesAssumption
<1>2. Types \ types' = (Types \ types) \ {t}
  OBVIOUS
<1>3. Cardinality((Types \ types) \ {t}) = Cardinality(Types \ types) - 1 /\ Cardinality(Types \ types) \in Nat
  BY <1>1, FS_RemoveElement, FS_CardinalityType
<1>4. Cardinality(Types \ types)' < Cardinality(Types \ types)
  <2>1. (Types \ types)' = (Types \ types) \ {t}
    BY <1>2
  <2>2. Cardinality(Types \ types)' = Cardinality(Types \ types) - 1
    BY <1>3, <2>1
  <2> QED
    BY <1>3, <2>2
<1>5. Ahead'[1] < Ahead[1]
  BY <1>4 DEF Ahead
<1> QED
  BY <1>5, NearerAt

LEMMA WorkIsNearer ==
  ASSUME BrowseInv, LoopInv, NEW w \in Workers, Work(w)
  PROVE  Nearer
<1>0. UNCHANGED <<types, signals>> /\ working \in [Workers -> Requests \union {Idle}]
  BY DEF Work, Take, Resolve, loop, LoopInv, LoopTypes
<1>1. CASE Take(w)
  <2>1. Len(jobs') < Len(jobs)
    BY <1>1 DEF Take, LoopInv, LoopTypes
  <2>2. Ahead'[3] < Ahead[3] /\ Ahead'[1] = Ahead[1] /\ Ahead'[2] = Ahead[2]
    BY <1>0, <2>1 DEF Ahead
  <2> QED
    BY <2>2, NearerAt
<1>2. ASSUME NEW outcome \in {"resolved", "failed"}, Resolve(w, outcome)
      PROVE  Nearer
  <2>1. jobs' = jobs /\ working[w] # Idle /\ working' = [working EXCEPT ![w] = Idle]
    BY <1>2 DEF Resolve
  <2>2. Busy' = Busy \ {w} /\ w \in Busy /\ Busy \in SUBSET Workers
    BY <1>0, <2>1 DEF Busy
  <2>3. Cardinality(Busy') = Cardinality(Busy) - 1 /\ Cardinality(Busy) \in Nat
    BY <2>2, FS_Subset, FS_RemoveElement, FS_CardinalityType, WorkersAssumption
  <2>4. Ahead'[4] < Ahead[4] /\ Ahead'[1] = Ahead[1] /\ Ahead'[2] = Ahead[2] /\ Ahead'[3] = Ahead[3]
    BY <1>0, <2>1, <2>3 DEF Ahead
  <2> QED
    BY <2>4, NearerAt
<1> QED
  BY <1>1, <1>2 DEF Work

LEMMA ResultIsNearer ==
  ASSUME BrowseInv, LoopInv, Result
  PROVE  Nearer
<1>1. UNCHANGED <<types, signals, jobs, working>>
  BY DEF Result, loop
<1>2. Len(results') < Len(results)
  BY DEF Result, LoopInv, LoopTypes
<1>3. Busy' = Busy
  BY <1>1 DEF Busy
<1>4. /\ Ahead'[5] < Ahead[5] /\ Ahead'[1] = Ahead[1] /\ Ahead'[2] = Ahead[2]
      /\ Ahead'[3] = Ahead[3] /\ Ahead'[4] = Ahead[4]
  BY <1>1, <1>2, <1>3 DEF Ahead
<1> QED
  BY <1>4, NearerAt

LEMMA HandleIsNearer ==
  ASSUME BrowseInv, LoopInv, Handle, conn = "open", conn' = "open"
  PROVE  Nearer
<1>0. ~Stop
  BY DEF Stop
<1>1. ASSUME NEW t \in Types, TypeAgain(t)
      PROVE  Nearer
  BY <1>1, HandledIsNearer DEF TypeAgain, Received, loop
<1>2. ASSUME NEW t \in Types, NewType(t)
      PROVE  Nearer
  BY <1>0, <1>2, TypeIsNearer DEF NewType
<1>3. ASSUME NEW k \in Services, NewItem(k)
      PROVE  Nearer
  BY <1>0, <1>3, HandledIsNearer DEF NewItem, Enqueue, Received
<1>4. ASSUME NEW k \in Services, ItemRemoved(k)
      PROVE  Nearer
  BY <1>4, HandledIsNearer DEF ItemRemoved, Received
<1>5. ASSUME NEW k \in Services, TooManyServices(k)
      PROVE  FALSE
  BY <1>0, <1>5 DEF TooManyServices
<1> QED
  BY <1>1, <1>2, <1>3, <1>4, <1>5 DEF Handle

Drains ==
  conn = "open" /\ conn' = "open" =>
    Nearer \/ Avahi \/ UNCHANGED <<signals, types, jobs, working, results>>

\* While Avahi has nothing to say, an open browse works off what it was told: the
\* loop and the workers never hand the same piece of work round, each of their
\* steps brings the quiet state nearer by an order that cannot fall for ever.
THEOREM BrowseDrains ==
  Spec => /\ [](\A n \in 1 .. 5 : Ahead[n] \in Nat)
          /\ [][Drains]_vars
<1>1. BrowseInv /\ LoopInv => \A n \in 1 .. 5 : Ahead[n] \in Nat
  BY AheadCounts DEF Ahead
<1>2. ASSUME BrowseInv, LoopInv, [Next]_vars
      PROVE  [Drains]_vars
  <2> SUFFICES ASSUME conn = "open", conn' = "open", Next
               PROVE  Nearer \/ Avahi \/ UNCHANGED <<signals, types, jobs, working, results>>
    BY <1>2 DEF Drains
  <2>1. ~(Run \/ ConnectFails \/ BrowseFails)
    BY DEF Run, Connect, BrowseBegins, BrowseEnded, ConnectFails, BrowseFails, Stop
  <2>2. ASSUME NEW s \in Streams, Subscribe(s) \/ Deliver(s) \/ Unsubscribe(s)
        PROVE  UNCHANGED <<signals, types, jobs, working, results>>
    BY <2>2 DEF Subscribe, Deliver, Unsubscribe, loop, queues
  <2> QED
    BY <1>2, <2>1, <2>2, HandleIsNearer, ResultIsNearer, WorkIsNearer DEF Next
<1> QED
  BY LoopInitial, LoopStep, BrowseInitial, BrowseStep, <1>1, <1>2, PTL DEF Spec
=============================================================================
