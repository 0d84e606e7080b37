--------------------------- MODULE LogStreamProofs ----------------------------
(***************************************************************************)
(* What a log stream and a log page promise, for every number of requests, *)
(* slots and lines and for every capacity.  The inductive invariant        *)
(* follows a line on its way: what was sent, what waits in the channel and *)
(* what the reader holds are, in this order, the lines taken out of the    *)
(* pipe.  A request does a bounded number of steps between two lines of    *)
(* journalctl.                                                             *)
(***************************************************************************)
EXTENDS LogStream, SequenceTheorems, FiniteSetTheorems, TLAPS

\* TypeOK without what counts.
Types ==
  /\ pc \in [Requests -> {"new", "page", "loop", "leave", "over"}]
  /\ query \in [Requests -> Queries]
  /\ here \in [Requests -> BOOLEAN] /\ canceled \in [Requests -> BOOLEAN]
  /\ session \in [Requests -> {"valid", "expired", "revoked"}]
  /\ reader \in [Requests -> {"none", "start", "scan", "emit", "broken", "eof", "gone"}]
  /\ proc \in [Requests -> {"none", "running", "exit0", "exit1", "failed", "killed"}]
  /\ printed \in [Requests -> Nat] /\ scanned \in [Requests -> Nat]
  /\ queue \in [Requests -> Seq(Nat)] /\ sent \in [Requests -> Seq(Nat)]
  /\ result \in [Requests -> {"none", "ok", "error"}]
  /\ told \in [Requests -> {"nothing", "rejected", "page", "end", "failure"}]
  /\ others \in Nat

Counts == Cardinality(Holding) + others <= Slots

\* Which steps of the handler, of the reader and of journalctl go together.
Life(r) ==
  /\ Follow(r) => Len(queue[r]) <= Capacity
  /\ proc[r] = "running" => reader[r] \in {"scan", "emit", "broken"}
  /\ reader[r] \in {"none", "start"} =>
       proc[r] = "none" /\ printed[r] = 0 /\ scanned[r] = 0 /\ queue[r] = << >> /\ sent[r] = << >>
  /\ pc[r] = "new" => reader[r] = "none"
  /\ pc[r] = "over" => reader[r] \in {"none", "gone"}
  /\ pc[r] \in {"page", "loop", "leave"} => reader[r] # "none"
  /\ pc[r] = "page" => ~Follow(r)
  /\ pc[r] \in {"loop", "leave"} => Follow(r)

\* The lines on their way.
Lines(r) ==
  /\ scanned[r] <= printed[r]
  /\ \A i \in 1 .. Len(sent[r]) : sent[r][i] = i
  /\ pc[r] \in {"new", "page"} => sent[r] = << >>
  /\ pc[r] \in {"page", "loop"} =>
       /\ \A i \in 1 .. Len(queue[r]) : queue[r][i] = Len(sent[r]) + i
       /\ reader[r] \in {"scan", "eof"} => scanned[r] = Len(sent[r]) + Len(queue[r])
       /\ reader[r] = "emit" => scanned[r] = Len(sent[r]) + Len(queue[r]) + 1

\* How it ends.
Honest(r) ==
  /\ reader[r] = "eof" => scanned[r] = printed[r]
  /\ result[r] = "ok" =>
       /\ reader[r] = "gone" /\ scanned[r] = printed[r]
       /\ proc[r] = "exit0" \/ (proc[r] = "exit1" /\ query[r].search /\ printed[r] = 0)
       /\ pc[r] = "page" => Len(queue[r]) = printed[r]
  /\ told[r] \in {"page", "end"} => pc[r] = "over" /\ result[r] = "ok"
  /\ told[r] = "page" => Len(sent[r]) = printed[r]

Good(r) == Life(r) /\ Lines(r) /\ Honest(r)

LogInv == Types /\ Counts /\ \A r \in Requests : Good(r)

LEMMA InvParts == LogInv => TypeOK /\ InOrder /\ NoOrphans /\ HonestEnd
<1> SUFFICES ASSUME LogInv
             PROVE  TypeOK /\ InOrder /\ NoOrphans /\ HonestEnd
  OBVIOUS
<1>1. TypeOK
  BY DEF LogInv, Types, Counts, Good, Life, TypeOK
<1>2. InOrder
  BY DEF LogInv, Good, Lines, InOrder
<1>3. NoOrphans
  BY DEF LogInv, Good, Life, NoOrphans
<1>4. HonestEnd
  BY DEF LogInv, Good, Honest, HonestEnd
<1> QED
  BY <1>1, <1>2, <1>3, <1>4

LEMMA InitInv == Init => LogInv
<1> SUFFICES ASSUME Init
             PROVE  LogInv
  OBVIOUS
<1>1. Types
  BY LogAssumption DEF Init, Types, Queries
<1>2. Holding = {}
  BY DEF Init, Holding
<1>3. Counts
  BY <1>2, FS_EmptySet, LogAssumption DEF Init, Counts
<1>4. ASSUME NEW r \in Requests
      PROVE  Good(r)
  BY LogAssumption DEF Init, Good, Life, Lines, Honest, Follow
<1> QED
  BY <1>1, <1>3, <1>4 DEF LogInv

-----------------------------------------------------------------------------
\* The steps of the environment and of the handler, grouped.

Coming(r) == \E q \in Queries : Reject(r, q) \/ Arrive(r, q)

Outside(r) ==
  \/ PrintLine(r)
  \/ \E how \in {"exit0", "exit1", "failed", "killed"} : Ends(r, how)
  \/ Disconnects(r)
  \/ \E how \in {"expired", "revoked"} : SessionEnds(r, how)

Act(r) == Coming(r) \/ Run(r) \/ Handle(r) \/ Outside(r)

\* A request's step leaves the other requests alone.
Alone(q) ==
  /\ pc'[q] = pc[q] /\ query'[q] = query[q] /\ here'[q] = here[q] /\ session'[q] = session[q]
  /\ canceled'[q] = canceled[q] /\ reader'[q] = reader[q] /\ proc'[q] = proc[q]
  /\ printed'[q] = printed[q] /\ scanned'[q] = scanned[q] /\ queue'[q] = queue[q]
  /\ result'[q] = result[q] /\ sent'[q] = sent[q] /\ told'[q] = told[q]

LEMMA OthersAlone ==
  ASSUME Types, NEW r \in Requests, Act(r), NEW q \in Requests, q # r
  PROVE  Alone(q)
<1> USE DEF Types, Alone, Goes, Reader, client
<1>1. CASE Coming(r)
  BY <1>1 DEF Coming, Reject, Arrive
<1>2. CASE Run(r)
  BY <1>2 DEF Run, StartProcess, StartFails, Scan, ScanFails, Emit, EmitCanceled, Eof, Wait, Returns
<1>3. CASE Handle(r)
  BY <1>3 DEF Handle, PageTimeout, AnswerPage, Left, SeeGone, SeeDone, TakeEntry, Tick, Finish, Leave
<1>4. CASE Outside(r)
  BY <1>4 DEF Outside, PrintLine, Ends, Disconnects, SessionEnds
<1> QED
  BY <1>1, <1>2, <1>3, <1>4 DEF Act

LEMMA AloneGood ==
  ASSUME NEW q \in Requests, Good(q), Alone(q)
  PROVE  Good(q)'
<1>1. Follow(q)' = Follow(q)
  BY DEF Alone, Follow
<1>2. Life(q)'
  BY <1>1 DEF Good, Life, Alone
<1>3. Lines(q)'
  BY DEF Good, Lines, Alone
<1>4. Honest(q)'
  BY DEF Good, Honest, Alone
<1> QED
  BY <1>2, <1>3, <1>4 DEF Good

-----------------------------------------------------------------------------
\* The steps, one by one.

LEMMA ComingGood ==
  ASSUME Types, NEW r \in Requests, Good(r), Coming(r)
  PROVE  Types' /\ Good(r)'
<1>1. PICK q \in Queries : Reject(r, q) \/ Arrive(r, q)
  BY DEF Coming, Types, Good, Life, Lines, Honest, Follow
<1> USE DEF Goes, Reader
<1>2. CASE Reject(r, q)
  <2>1. Types'
    BY <1>2 DEF Reject, Types, Follow
  <2>2. /\ pc[r] = "new" /\ pc'[r] = "over" /\ told'[r] = "rejected"
        /\ UNCHANGED <<canceled, reader, proc, printed, scanned, queue, result, sent>>
    BY <1>2 DEF Reject, Types, Good, Life, Lines, Honest, Follow
  <2> QED
    BY <2>1, <2>2, LogAssumption DEF Types, Good, Life, Lines, Honest, Follow
<1>3. CASE Arrive(r, q)
  <2>1. Types'
    BY <1>3 DEF Arrive, Types, Follow
  <2>2. /\ pc[r] = "new" /\ pc'[r] = (IF q.follow THEN "loop" ELSE "page") /\ query'[r] = q
        /\ reader'[r] = "start" /\ q.follow \in BOOLEAN
        /\ UNCHANGED <<canceled, proc, printed, scanned, queue, result, sent, told>>
    BY <1>3 DEF Arrive, Queries, Types, Good, Life, Lines, Honest, Follow
  <2> QED
    BY <2>1, <2>2, LogAssumption DEF Types, Good, Life, Lines, Honest, Follow
<1> QED
  BY <1>1, <1>2, <1>3 DEF Types, Good, Life, Lines, Honest, Follow

LEMMA RunGood ==
  ASSUME Types, NEW r \in Requests, Good(r), Run(r)
  PROVE  Types' /\ Good(r)'
<1> USE DEF Reader, client
<1>1. CASE StartProcess(r) \/ StartFails(r)
  <2>1. Types'
    <3>1. CASE StartProcess(r)
      BY <3>1 DEF StartProcess, Types
    <3>2. CASE StartFails(r)
      BY <3>2 DEF StartFails, Returns, Types
    <3> QED
      BY <1>1, <3>1, <3>2
  <2>2. /\ reader[r] = "start" /\ UNCHANGED <<pc, query, printed, scanned, queue, sent, told>>
        /\ \/ reader'[r] = "scan" /\ proc'[r] = "running" /\ result'[r] = result[r]
           \/ reader'[r] = "gone" /\ proc'[r] = proc[r] /\ result'[r] = "error"
    BY <1>1 DEF StartProcess, StartFails, Returns, Types, Good, Life, Lines, Honest, Follow
  <2> QED
    BY <2>1, <2>2 DEF Types, Good, Life, Lines, Honest, Follow
<1>2. CASE Scan(r)
  <2>1. Types'
    BY <1>2 DEF Scan, Types, Follow
  <2>2. /\ reader[r] = "scan" /\ scanned[r] < printed[r] /\ scanned'[r] = scanned[r] + 1
        /\ reader'[r] \in {"broken", "emit"}
        /\ UNCHANGED <<pc, query, proc, printed, queue, result, sent, told>>
    BY <1>2 DEF Scan, Types, Good, Life, Lines, Honest, Follow
  <2> QED
    BY <2>1, <2>2 DEF Types, Good, Life, Lines, Honest, Follow
<1>3. CASE ScanFails(r) \/ EmitCanceled(r)
  <2>1. Types'
    <3>1. CASE ScanFails(r)
      BY <3>1 DEF ScanFails, Types
    <3>2. CASE EmitCanceled(r)
      BY <3>2 DEF EmitCanceled, Types
    <3> QED
      BY <1>3, <3>1, <3>2
  <2>2. /\ reader[r] \in {"scan", "emit"} /\ reader'[r] = "broken"
        /\ UNCHANGED <<pc, query, proc, printed, scanned, queue, result, sent, told>>
    BY <1>3 DEF ScanFails, EmitCanceled, Types, Good, Life, Lines, Honest, Follow
  <2> QED
    BY <2>1, <2>2 DEF Types, Good, Life, Lines, Honest, Follow
<1>4. CASE Emit(r)
  <2>1. /\ queue[r] \in Seq(Nat) /\ scanned[r] \in Nat /\ reader[r] = "emit"
        /\ queue' = [queue EXCEPT ![r] = Append(@, scanned[r])]
    BY <1>4 DEF Emit, Types, Good, Life, Lines, Honest, Follow
  <2> DEFINE longer == Append(queue[r], scanned[r])
  <2>2. /\ longer \in Seq(Nat) /\ Len(longer) = Len(queue[r]) + 1 /\ Len(queue[r]) \in Nat
        /\ \A i \in 1 .. Len(queue[r]) : longer[i] = queue[r][i]
        /\ longer[Len(queue[r]) + 1] = scanned[r]
    BY <2>1, AppendProperties, LenProperties DEF Types, Good, Life, Lines, Honest, Follow
  <2>3. queue'[r] = longer
    BY <2>1 DEF Types, Good, Life, Lines, Honest, Follow
  <2> HIDE DEF longer
  <2>4. queue' \in [Requests -> Seq(Nat)]
    BY <2>1, <2>2 DEF longer, Types, Good, Life, Lines, Honest, Follow
  <2>5. Types'
    BY <1>4, <2>4 DEF Emit, Types, Follow
  <2>6. /\ reader'[r] = "scan" /\ (Follow(r) => Len(queue[r]) < Capacity)
        /\ UNCHANGED <<pc, query, canceled, proc, printed, scanned, result, sent, told>>
    BY <1>4 DEF Emit, Types, Good, Life, Lines, Honest, Follow
  <2>7. Life(r)'
    BY <2>1, <2>2, <2>3, <2>6, LogAssumption DEF Types, Good, Life, Lines, Honest, Follow
  <2>8. pc[r] \in {"page", "loop"} =>
          \A i \in 1 .. Len(longer) : longer[i] = Len(sent[r]) + i
    <3> SUFFICES ASSUME pc[r] \in {"page", "loop"}, NEW i \in 1 .. Len(longer)
                 PROVE  longer[i] = Len(sent[r]) + i
      OBVIOUS
    <3>1. Len(sent[r]) \in Nat /\ scanned[r] = Len(sent[r]) + Len(queue[r]) + 1
      BY <2>1, LenProperties DEF Types, Good, Life, Lines, Honest, Follow
    <3>2. CASE i \in 1 .. Len(queue[r])
      <4>1. longer[i] = queue[r][i] /\ queue[r][i] = Len(sent[r]) + i
        BY <2>2, <3>2 DEF Types, Good, Life, Lines, Honest, Follow
      <4> QED
        BY <4>1 DEF Types, Good, Life, Lines, Honest, Follow
    <3>3. CASE i = Len(queue[r]) + 1
      BY <2>2, <3>1, <3>3 DEF Types, Good, Life, Lines, Honest, Follow
    <3>4. i \in 1 .. Len(queue[r]) \/ i = Len(queue[r]) + 1
      BY <2>2 DEF Types, Good, Life, Lines, Honest, Follow
    <3> QED
      BY <3>2, <3>3, <3>4 DEF Types, Good, Life, Lines, Honest, Follow
  <2>9. Lines(r)'
    BY <2>1, <2>2, <2>3, <2>6, <2>8, LenProperties DEF Types, Good, Life, Lines, Honest, Follow
  <2>10. Honest(r)'
    BY <2>1, <2>6 DEF Types, Good, Life, Lines, Honest, Follow
  <2> QED
    BY <2>5, <2>7, <2>9, <2>10 DEF Types, Good, Life, Lines, Honest, Follow
<1>5. CASE Eof(r)
  <2>1. Types'
    BY <1>5 DEF Eof, Types, Follow
  <2>2. /\ reader[r] = "scan" /\ scanned[r] = printed[r] /\ proc[r] # "running"
        /\ reader'[r] = "eof"
        /\ UNCHANGED <<pc, query, proc, printed, scanned, queue, result, sent, told>>
    BY <1>5 DEF Eof, Types, Good, Life, Lines, Honest, Follow
  <2> QED
    BY <2>1, <2>2 DEF Types, Good, Life, Lines, Honest, Follow
<1>6. CASE Wait(r)
  <2>1. Types'
    BY <1>6 DEF Wait, Returns, Result, Types, Follow
  <2>2. /\ reader[r] \in {"broken", "eof"} /\ proc[r] # "running" /\ reader'[r] = "gone"
        /\ result'[r] = Result(r)
        /\ UNCHANGED <<pc, query, proc, printed, scanned, queue, sent, told>>
    BY <1>6 DEF Wait, Returns, Types, Good, Life, Lines, Honest, Follow
  <2>3. result'[r] = "ok" =>
          /\ reader[r] = "eof"
          /\ proc[r] = "exit0" \/ (proc[r] = "exit1" /\ query[r].search /\ scanned[r] = 0)
    BY <2>2 DEF Result, Types, Good, Life, Lines, Honest, Follow
  <2>4. Life(r)' /\ Lines(r)'
    BY <2>2 DEF Types, Good, Life, Lines, Honest, Follow
  <2>5. Len(queue[r]) \in Nat /\ (sent[r] = << >> => Len(sent[r]) = 0)
    BY LenProperties DEF Types, Good, Life, Lines, Honest, Follow
  <2>6. Honest(r)'
    BY <2>2, <2>3, <2>5 DEF Types, Good, Life, Lines, Honest, Follow
  <2> QED
    BY <2>1, <2>4, <2>6 DEF Types, Good, Life, Lines, Honest, Follow
<1> QED
  BY <1>1, <1>2, <1>3, <1>4, <1>5, <1>6 DEF Run, Types, Good, Life, Lines, Honest, Follow

LEMMA HandleGood ==
  ASSUME Types, NEW r \in Requests, Good(r), Handle(r)
  PROVE  Types' /\ Good(r)'
<1> USE DEF Goes, client
<1>1. CASE PageTimeout(r)
  <2>1. UNCHANGED <<pc, query, reader, proc, printed, scanned, queue, result, sent, told>>
    BY <1>1 DEF PageTimeout, Types, Good, Life, Lines, Honest, Follow
  <2> QED
    BY <1>1, <2>1 DEF PageTimeout, Types, Good, Life, Lines, Honest, Follow
<1>2. CASE AnswerPage(r)
  <2>1. /\ pc[r] = "page" /\ reader[r] = "gone" /\ pc'[r] = "over"
        /\ UNCHANGED <<query, reader, proc, printed, scanned, queue, result>>
        /\ \/ result[r] = "ok" /\ told'[r] = "page" /\ sent'[r] = queue[r]
           \/ told'[r] = "failure" /\ sent'[r] = sent[r]
    BY <1>2 DEF AnswerPage, Finish, Types, Good, Life, Lines, Honest, Follow
  <2>2. Types'
    <3>1. /\ pc' = [pc EXCEPT ![r] = "over"]
          /\ told' = [told EXCEPT ![r] = "page"] \/ told' = [told EXCEPT ![r] = "failure"]
          /\ sent' = [sent EXCEPT ![r] = queue[r]] \/ sent' = sent
          /\ UNCHANGED <<client, canceled, reader, proc, printed, scanned, queue, result, others>>
      BY <1>2 DEF AnswerPage, Finish, Types, Good, Life, Lines, Honest, Follow
    <3>2. sent' \in [Requests -> Seq(Nat)]
      <4>1. queue[r] \in Seq(Nat) /\ sent \in [Requests -> Seq(Nat)]
        BY DEF Types
      <4> QED
        BY <3>1, <4>1
    <3>3. pc' \in [Requests -> {"new", "page", "loop", "leave", "over"}]
      <4>1. pc \in [Requests -> {"new", "page", "loop", "leave", "over"}]
        BY DEF Types
      <4> QED
        BY <3>1, <4>1
    <3>4. told' \in [Requests -> {"nothing", "rejected", "page", "end", "failure"}]
      <4>1. told \in [Requests -> {"nothing", "rejected", "page", "end", "failure"}]
        BY DEF Types
      <4> QED
        BY <3>1, <4>1
    <3> QED
      BY <3>1, <3>2, <3>3, <3>4 DEF Types, Good, Life, Lines, Honest, Follow
  <2>3. Len(<< >>) = 0 /\ Len(queue[r]) \in Nat
    BY LenProperties DEF Types, Good, Life, Lines, Honest, Follow
  <2> QED
    BY <2>1, <2>2, <2>3 DEF Types, Good, Life, Lines, Honest, Follow
<1>3. CASE Left(r)
  <2>1. /\ pc[r] = "leave" /\ reader[r] = "gone" /\ pc'[r] = "over" /\ told'[r] = "nothing"
        /\ UNCHANGED <<query, reader, proc, printed, scanned, queue, result, sent>>
    BY <1>3 DEF Left, Finish, Types, Good, Life, Lines, Honest, Follow
  <2>2. Types'
    BY <1>3 DEF Left, Finish, Types, Follow
  <2> QED
    BY <2>1, <2>2 DEF Types, Good, Life, Lines, Honest, Follow
<1>4. CASE SeeGone(r) \/ Tick(r)
  <2>1. /\ pc[r] = "loop" /\ pc'[r] = "leave"
        /\ UNCHANGED <<query, reader, proc, printed, scanned, queue, result, sent, told>>
    BY <1>4 DEF SeeGone, Tick, Leave, Types, Good, Life, Lines, Honest, Follow
  <2>2. Types'
    BY <1>4 DEF SeeGone, Tick, Leave, Types, Follow
  <2> QED
    BY <2>1, <2>2 DEF Types, Good, Life, Lines, Honest, Follow
<1>5. CASE SeeDone(r)
  <2>1. /\ pc[r] = "loop" /\ reader[r] = "gone" /\ pc'[r] = "over"
        /\ told'[r] \in {"end", "failure", "nothing"} /\ (told'[r] = "end" => result[r] = "ok")
        /\ UNCHANGED <<query, reader, proc, printed, scanned, queue, result, sent>>
    BY <1>5 DEF SeeDone, Finish, Types, Good, Life, Lines, Honest, Follow
  <2>2. Types'
    BY <1>5 DEF SeeDone, Finish, Types, Follow
  <2> QED
    BY <2>1, <2>2 DEF Types, Good, Life, Lines, Honest, Follow
<1>6. CASE TakeEntry(r)
  <2> DEFINE rest == Tail(queue[r])  first == Head(queue[r])  more == Append(sent[r], first)
  <2>1. /\ queue[r] \in Seq(Nat) /\ queue[r] # << >> /\ sent[r] \in Seq(Nat) /\ pc[r] = "loop"
        /\ queue' = [queue EXCEPT ![r] = rest]
    BY <1>6 DEF TakeEntry, Types, Good, Life, Lines, Honest, Follow
  <2>2. /\ first \in Nat /\ first = queue[r][1]
        /\ rest \in Seq(Nat) /\ Len(rest) = Len(queue[r]) - 1
        /\ \A i \in 1 .. Len(rest) : rest[i] = queue[r][i + 1]
        /\ Len(queue[r]) \in Nat \ {0} /\ Len(sent[r]) \in Nat
    <3>1. Len(queue[r]) \in Nat \ {0} /\ Len(sent[r]) \in Nat
      BY <2>1, EmptySeq, LenProperties DEF Types, Good, Life, Lines, Honest, Follow
    <3>2. first = queue[r][1]
      BY <2>1 DEF Types, Good, Life, Lines, Honest, Follow
    <3> QED
      BY <2>1, <3>1, <3>2, HeadTailProperties DEF Types, Good, Life, Lines, Honest, Follow
  <2>3. /\ more \in Seq(Nat) /\ Len(more) = Len(sent[r]) + 1
        /\ \A i \in 1 .. Len(sent[r]) : more[i] = sent[r][i]
        /\ more[Len(sent[r]) + 1] = first
    BY <2>1, <2>2, AppendProperties DEF Types, Good, Life, Lines, Honest, Follow
  <2>4. queue'[r] = rest /\ queue' \in [Requests -> Seq(Nat)]
    BY <2>1, <2>2 DEF Types, Good, Life, Lines, Honest, Follow
  <2>5. \/ /\ sent' = [sent EXCEPT ![r] = more] /\ UNCHANGED <<pc, told, canceled>>
        \/ /\ UNCHANGED <<sent, told>> /\ pc' = [pc EXCEPT ![r] = "leave"]
           /\ canceled' = [canceled EXCEPT ![r] = TRUE]
    BY <1>6 DEF TakeEntry, Leave, Types, Good, Life, Lines, Honest, Follow
  <2>6. UNCHANGED <<query, here, session, reader, proc, printed, scanned, result, others>>
    BY <1>6 DEF TakeEntry, Types, Good, Life, Lines, Honest, Follow
  <2>7. first = Len(sent[r]) + 1
    BY <2>1, <2>2 DEF Types, Good, Life, Lines, Honest, Follow
  <2> HIDE DEF rest, first, more
  <2>8. Types'
    <3>1. CASE sent' = [sent EXCEPT ![r] = more] /\ UNCHANGED <<pc, told, canceled>>
      <4>1. sent' \in [Requests -> Seq(Nat)]
        <5>1. sent \in [Requests -> Seq(Nat)]
          BY DEF Types
        <5> QED
          BY <2>3, <3>1, <5>1
      <4> QED
        BY <2>4, <2>6, <3>1, <4>1 DEF Types
    <3>2. CASE /\ UNCHANGED <<sent, told>> /\ pc' = [pc EXCEPT ![r] = "leave"]
               /\ canceled' = [canceled EXCEPT ![r] = TRUE]
      BY <2>4, <2>6, <3>2 DEF Types
    <3> QED
      BY <2>5, <3>1, <3>2
  <2>9. reader[r] \notin {"none", "start"}
    BY <2>1 DEF Types, Good, Life, Lines, Honest, Follow
  <2>10. CASE sent' = [sent EXCEPT ![r] = more] /\ UNCHANGED <<pc, told, canceled>>
    <3>1. sent'[r] = more
      BY <2>1, <2>10 DEF Types, Good, Life, Lines, Honest, Follow
    <3>2. Life(r)'
      BY <2>1, <2>2, <2>4, <2>6, <2>9, <2>10, LogAssumption DEF Types, Good, Life, Lines, Honest, Follow
    <3>3. ASSUME NEW i \in 1 .. Len(more)
          PROVE  more[i] = i
      <4>1. i \in 1 .. Len(sent[r]) \/ i = Len(sent[r]) + 1
        BY <2>2, <2>3 DEF Types, Good, Life, Lines, Honest, Follow
      <4>2. i \in 1 .. Len(sent[r]) => more[i] = i
        BY <2>3 DEF Types, Good, Life, Lines, Honest, Follow
      <4> QED
        BY <2>3, <2>7, <4>1, <4>2 DEF Types, Good, Life, Lines, Honest, Follow
    <3>4. \A i \in 1 .. Len(rest) : rest[i] = Len(more) + i
      BY <2>1, <2>2, <2>3 DEF Types, Good, Life, Lines, Honest, Follow
    <3>5. Lines(r)'
      <4>1. pc'[r] = "loop" /\ sent'[r] = more /\ queue'[r] = rest
            /\ UNCHANGED <<scanned, printed, reader>>
        BY <2>1, <2>4, <2>6, <2>10, <3>1 DEF Types, Good, Life, Lines, Honest, Follow
      <4>2. Len(more) + Len(rest) = Len(sent[r]) + Len(queue[r])
        BY <2>2, <2>3 DEF Types, Good, Life, Lines, Honest, Follow
      <4>3. scanned[r] <= printed[r]
            /\ (reader[r] \in {"scan", "eof"} => scanned[r] = Len(more) + Len(rest))
            /\ (reader[r] = "emit" => scanned[r] = Len(more) + Len(rest) + 1)
        BY <2>1, <4>2 DEF Types, Good, Life, Lines, Honest, Follow
      <4> QED
        BY <3>3, <3>4, <4>1, <4>3 DEF Types, Good, Life, Lines, Honest, Follow
    <3>6. Honest(r)'
      BY <2>1, <2>6, <2>10 DEF Types, Good, Life, Lines, Honest, Follow
    <3> QED
      BY <2>8, <3>2, <3>5, <3>6 DEF Types, Good, Life, Lines, Honest, Follow
  <2>11. CASE UNCHANGED <<sent, told>> /\ pc' = [pc EXCEPT ![r] = "leave"]
    <3>1. pc'[r] = "leave"
      BY <2>11 DEF Types, Good, Life, Lines, Honest, Follow
    <3> QED
      BY <2>1, <2>2, <2>4, <2>6, <2>8, <2>9, <2>11, <3>1, LogAssumption
         DEF Types, Good, Life, Lines, Honest, Follow
  <2> QED
    BY <2>5, <2>10, <2>11 DEF Types, Good, Life, Lines, Honest, Follow
<1> QED
  BY <1>1, <1>2, <1>3, <1>4, <1>5, <1>6 DEF Handle, Types, Good, Life, Lines, Honest, Follow

LEMMA OutsideGood ==
  ASSUME Types, NEW r \in Requests, Good(r), Outside(r)
  PROVE  Types' /\ Good(r)'
<1> USE DEF client
<1>1. CASE PrintLine(r)
  <2>1. /\ proc[r] = "running" /\ printed'[r] = printed[r] + 1
        /\ UNCHANGED <<pc, query, reader, proc, scanned, queue, result, sent, told>>
    BY <1>1 DEF PrintLine, Types, Good, Life, Lines, Honest, Follow
  <2>2. Types'
    BY <1>1 DEF PrintLine, Types, Follow
  <2> QED
    BY <2>1, <2>2 DEF Types, Good, Life, Lines, Honest, Follow
<1>2. ASSUME NEW how \in {"exit0", "exit1", "failed", "killed"}, Ends(r, how)
      PROVE  Types' /\ Good(r)'
  <2>1. /\ proc[r] = "running" /\ proc'[r] = how
        /\ UNCHANGED <<pc, query, reader, printed, scanned, queue, result, sent, told>>
    BY <1>2 DEF Ends, Types, Good, Life, Lines, Honest, Follow
  <2>2. Types'
    BY <1>2 DEF Ends, Types, Follow
  <2> QED
    BY <2>1, <2>2 DEF Types, Good, Life, Lines, Honest, Follow
<1>3. CASE Disconnects(r) \/ \E how \in {"expired", "revoked"} : SessionEnds(r, how)
  <2>1. UNCHANGED <<pc, query, reader, proc, printed, scanned, queue, result, sent, told>>
    BY <1>3 DEF Disconnects, SessionEnds, Types, Good, Life, Lines, Honest, Follow
  <2>2. CASE Disconnects(r)
    BY <2>1, <2>2 DEF Disconnects, Types, Good, Life, Lines, Honest, Follow
  <2>3. ASSUME NEW how \in {"expired", "revoked"}, SessionEnds(r, how)
        PROVE  Types' /\ Good(r)'
    BY <2>1, <2>3 DEF SessionEnds, Types, Good, Life, Lines, Honest, Follow
  <2> QED
    BY <1>3, <2>2, <2>3 DEF Types, Good, Life, Lines, Honest, Follow
<1> QED
  BY <1>1, <1>2, <1>3 DEF Outside, Types, Good, Life, Lines, Honest, Follow

-----------------------------------------------------------------------------
\* The slots.

LEMMA FiniteHolding == IsFiniteSet(Holding) /\ Cardinality(Holding) \in Nat
<1>1. Holding \in SUBSET Requests
  BY DEF Holding
<1> QED
  BY <1>1, FS_Subset, FS_CardinalityType, LogAssumption

LEMMA FewerHold ==
  ASSUME Types, Counts, Holding' \subseteq Holding, others' = others
  PROVE  Counts'
<1>1. Cardinality(Holding') <= Cardinality(Holding) /\ Cardinality(Holding') \in Nat
  BY FiniteHolding, FS_Subset, FS_CardinalityType
<1> QED
  BY <1>1, FiniteHolding, LogAssumption DEF Counts, Types

LEMMA ActCounts ==
  ASSUME Types, Counts, NEW r \in Requests, Good(r), Act(r)
  PROVE  Counts'
<1> USE DEF Types, Goes, Reader, client
<1>1. others' = others
  <2>1. CASE Coming(r)
    BY <2>1 DEF Coming, Reject, Arrive
  <2>2. CASE Run(r)
    BY <2>2 DEF Run, StartProcess, StartFails, Scan, ScanFails, Emit, EmitCanceled, Eof, Wait
  <2>3. CASE Handle(r)
    BY <2>3 DEF Handle, PageTimeout, AnswerPage, Left, SeeGone, SeeDone, TakeEntry, Tick
  <2>4. CASE Outside(r)
    BY <2>4 DEF Outside, PrintLine, Ends, Disconnects, SessionEnds
  <2> QED
    BY <2>1, <2>2, <2>3, <2>4 DEF Act
<1>2. ASSUME NEW q \in Queries, Arrive(r, q), q.follow
      PROVE  Counts'
  <2>1. Holding' \subseteq Holding \union {r}
    BY <1>2 DEF Arrive, Holding, Follow
  <2>2. /\ IsFiniteSet(Holding \union {r})
        /\ Cardinality(Holding \union {r}) <= Cardinality(Holding) + 1
        /\ Cardinality(Holding \union {r}) \in Nat
    <3>1. /\ IsFiniteSet(Holding \union {r})
          /\ Cardinality(Holding \union {r}) =
               IF r \in Holding THEN Cardinality(Holding) ELSE Cardinality(Holding) + 1
      BY FiniteHolding, FS_AddElement
    <3> QED
      BY <3>1, FiniteHolding
  <2>3. Cardinality(Holding') <= Cardinality(Holding) + 1 /\ Cardinality(Holding') \in Nat
    BY <2>1, <2>2, FiniteHolding, FS_Subset, FS_CardinalityType
  <2>4. Cardinality(Holding) + others < Slots
    BY <1>2 DEF Arrive, SlotFree
  <2> QED
    BY <1>1, <2>3, <2>4, FiniteHolding, LogAssumption DEF Counts
<1>3. CASE Coming(r) /\ ~ \E q \in Queries : Arrive(r, q) /\ q.follow
  <2>1. Holding' \subseteq Holding
    BY <1>3 DEF Coming, Reject, Arrive, Holding, Follow, Queries
  <2> QED
    BY <1>1, <2>1, FewerHold
<1>4. CASE Run(r)
  <2>1. UNCHANGED <<pc, query>>
    BY <1>4 DEF Run, StartProcess, StartFails, Scan, ScanFails, Emit, EmitCanceled, Eof, Wait
  <2> QED
    BY <1>1, <2>1, FewerHold DEF Holding, Follow
<1>5. CASE Handle(r)
  <2>1. UNCHANGED query /\ (pc'[r] \in {"loop", "leave"} => pc[r] \in {"loop", "leave"})
    BY <1>5 DEF Handle, PageTimeout, AnswerPage, Left, SeeGone, SeeDone, TakeEntry, Tick,
       Finish, Leave
  <2>2. \A q \in Requests \ {r} : pc'[q] = pc[q]
    BY <1>5, OthersAlone DEF Act, Alone
  <2>3. Holding' \subseteq Holding
    BY <2>1, <2>2 DEF Holding, Follow
  <2> QED
    BY <1>1, <2>3, FewerHold
<1>6. CASE Outside(r)
  <2>1. UNCHANGED <<pc, query>>
    BY <1>6 DEF Outside, PrintLine, Ends, Disconnects, SessionEnds
  <2> QED
    BY <1>1, <2>1, FewerHold DEF Holding, Follow
<1> QED
  BY <1>2, <1>3, <1>4, <1>5, <1>6 DEF Act

-----------------------------------------------------------------------------
LEMMA NextInv ==
  ASSUME LogInv, Next
  PROVE  LogInv'
<1>1. ASSUME NEW r \in Requests, Act(r)
      PROVE  LogInv'
  <2>1. Types /\ Counts /\ Good(r)
    BY DEF LogInv
  <2>2. Types' /\ Good(r)'
    BY <1>1, <2>1, ComingGood, RunGood, HandleGood, OutsideGood DEF Act
  <2>3. Counts'
    BY <1>1, <2>1, ActCounts
  <2>4. ASSUME NEW q \in Requests, q # r
        PROVE  Good(q)'
    <3>1. Alone(q)
      BY <1>1, <2>1, <2>4, OthersAlone
    <3> QED
      BY <3>1, AloneGood DEF LogInv
  <2> QED
    BY <2>2, <2>3, <2>4 DEF LogInv
<1>2. CASE OtherStream
  <2>1. UNCHANGED <<pc, query, here, session, canceled, reader, proc, printed, scanned, queue,
                    result, sent, told>> /\ Holding' = Holding
    BY <1>2 DEF OtherStream, client, Holding, Follow
  <2>2. Types' /\ Counts'
    BY <1>2, <2>1, FiniteHolding, LogAssumption DEF LogInv, Types, Counts, OtherStream, SlotFree
  <2>3. \A q \in Requests : Good(q)'
    BY <2>1, AloneGood DEF LogInv, Alone
  <2> QED
    BY <2>2, <2>3 DEF LogInv
<1> QED
  BY <1>1, <1>2 DEF Next, Act, Coming, Outside, Kill

LEMMA StutterInv ==
  ASSUME LogInv, UNCHANGED vars
  PROVE  LogInv'
BY DEF LogInv, Types, Counts, Holding, Good, Life, Lines, Honest, Follow, vars, client

\* The inductive invariant: where each line is on its way, and how the ends of
\* handler, reader and journalctl are tied together.
THEOREM Invariant == Spec => []LogInv
<1>1. LogInv /\ [Next]_vars => LogInv'
  BY NextInv, StutterInv
<1> QED
  BY InitInv, <1>1, PTL DEF Spec

\* Types, slots and capacity.
THEOREM TypesHold == Spec => []TypeOK
  BY Invariant, InvParts, PTL

\* The browser is sent the lines in order and without a gap (entries, emit).
THEOREM LinesStayInOrder == Spec => []InOrder
  BY Invariant, InvParts, PTL

\* No journalctl outlives its request (the deferred receive from done).
THEOREM NothingOutlivesItsRequest == Spec => []NoOrphans
  BY Invariant, InvParts, PTL

\* A failure is never shown as the end of a healthy journal (run).
THEOREM EndsAreHonest == Spec => []HonestEnd
  BY Invariant, InvParts, PTL

-----------------------------------------------------------------------------
\* What a request still has to do, the costliest part first: its handler's
\* steps, the cancellation, the start and the end of journalctl, the lines in
\* the pipe, the reader's steps with the one it holds, and the entries that wait.

One(b) == IF b THEN 1 ELSE 0

HandlerLeft(r) ==
  IF pc[r] = "new" THEN 3 ELSE IF pc[r] \in {"page", "loop"} THEN 2
  ELSE IF pc[r] = "leave" THEN 1 ELSE 0

ReaderLeft(r) ==
  IF reader[r] = "emit" THEN 3 ELSE IF reader[r] = "scan" THEN 2
  ELSE IF reader[r] \in {"broken", "eof"} THEN 1 ELSE 0

Rest(r) ==
  <<HandlerLeft(r), One(~canceled[r]), One(reader[r] = "start"), One(proc[r] = "running"),
    printed[r] - scanned[r], ReaderLeft(r), Len(queue[r])>>

\* Some part of the rest became less, and none before it more.
Nearer(r) ==
  \E n \in 1 .. 7 : Rest(r)'[n] < Rest(r)[n] /\ \A m \in 1 .. n - 1 : Rest(r)'[m] = Rest(r)[m]

SameRest(r) == Rest(r)' = Rest(r)

LEMMA NearerAt ==
  ASSUME NEW r \in Requests, NEW n \in 1 .. 7, Rest(r)'[n] < Rest(r)[n],
         \A m \in 1 .. n - 1 : Rest(r)'[m] = Rest(r)[m]
  PROVE  Nearer(r)
BY DEF Nearer

LEMMA RestCounts ==
  ASSUME Types, NEW r \in Requests, Good(r)
  PROVE  \A n \in 1 .. 7 : Rest(r)[n] \in Nat
<1>1. printed[r] - scanned[r] \in Nat /\ Len(queue[r]) \in Nat
  BY DEF Types, Good, Lines
<1>2. /\ HandlerLeft(r) \in Nat /\ ReaderLeft(r) \in Nat /\ One(~canceled[r]) \in Nat
      /\ One(reader[r] = "start") \in Nat /\ One(proc[r] = "running") \in Nat
  BY DEF HandlerLeft, ReaderLeft, One
<1> QED
  BY <1>1, <1>2 DEF Rest

LEMMA ComingNearer ==
  ASSUME Types, NEW r \in Requests, Coming(r)
  PROVE  Nearer(r)
<1>1. HandlerLeft(r)' < HandlerLeft(r)
  BY DEF Coming, Reject, Arrive, Goes, Types, HandlerLeft
<1>2. Rest(r)'[1] < Rest(r)[1]
  BY <1>1 DEF Rest
<1> QED
  BY <1>2, NearerAt

\* The reader leaves the handler and the context as they are.
LEMMA RunNearer ==
  ASSUME Types, NEW r \in Requests, Good(r), Run(r)
  PROVE  Nearer(r)
<1> USE DEF Types, Reader, Returns
<1>0. pc' = pc /\ canceled' = canceled /\ printed' = printed
  BY DEF Run, StartProcess, StartFails, Scan, ScanFails, Emit, EmitCanceled, Eof, Wait
<1>1. Rest(r)'[1] = Rest(r)[1] /\ Rest(r)'[2] = Rest(r)[2]
  BY <1>0 DEF Rest, HandlerLeft
<1>2. CASE StartProcess(r) \/ StartFails(r)
  <2>1. reader[r] = "start" /\ reader'[r] # "start"
    BY <1>2 DEF StartProcess, StartFails
  <2>2. Rest(r)'[3] < Rest(r)[3]
    BY <2>1 DEF Rest, One
  <2> QED
    BY <1>1, <2>2, NearerAt
<1>3. CASE ~(StartProcess(r) \/ StartFails(r))
  <2>1. proc' = proc /\ reader[r] # "start" /\ reader'[r] # "start"
    BY <1>3 DEF Run, Scan, ScanFails, Emit, EmitCanceled, Eof, Wait
  <2>2. Rest(r)'[3] = Rest(r)[3] /\ Rest(r)'[4] = Rest(r)[4]
    BY <2>1 DEF Rest, One
  <2>3. CASE Scan(r)
    <3>1. scanned'[r] = scanned[r] + 1 /\ scanned[r] \in Nat /\ printed[r] \in Nat
      BY <2>3 DEF Scan
    <3>2. (printed[r] - scanned[r])' < printed[r] - scanned[r]
      BY <1>0, <3>1
    <3>3. Rest(r)'[5] < Rest(r)[5]
      BY <3>2 DEF Rest
    <3> QED
      BY <1>1, <2>2, <3>3, NearerAt
  <2>4. CASE ScanFails(r) \/ Emit(r) \/ EmitCanceled(r) \/ Eof(r) \/ Wait(r)
    <3>1. scanned' = scanned /\ ReaderLeft(r)' < ReaderLeft(r)
      BY <2>4 DEF ScanFails, Emit, EmitCanceled, Eof, Wait, ReaderLeft
    <3>2. Rest(r)'[6] < Rest(r)[6] /\ Rest(r)'[5] = Rest(r)[5]
      BY <1>0, <3>1 DEF Rest
    <3> QED
      BY <1>1, <2>2, <3>2, NearerAt
  <2> QED
    BY <1>3, <2>3, <2>4 DEF Run
<1> QED
  BY <1>2, <1>3

LEMMA HandleNearer ==
  ASSUME Types, NEW r \in Requests, Good(r), Handle(r)
  PROVE  Nearer(r)
<1> USE DEF Types, Goes, Finish, Leave
<1>1. CASE HandlerLeft(r)' < HandlerLeft(r)
  <2>1. Rest(r)'[1] < Rest(r)[1]
    BY <1>1 DEF Rest
  <2> QED
    BY <2>1, NearerAt
<1>2. CASE PageTimeout(r)
  <2>1. pc' = pc /\ ~canceled[r] /\ canceled'[r]
    BY <1>2 DEF PageTimeout
  <2>2. Rest(r)'[2] < Rest(r)[2] /\ Rest(r)'[1] = Rest(r)[1]
    BY <2>1 DEF Rest, One, HandlerLeft
  <2> QED
    BY <2>2, NearerAt
<1>3. CASE AnswerPage(r) \/ Left(r) \/ SeeGone(r) \/ SeeDone(r) \/ Tick(r)
  <2>1. HandlerLeft(r)' < HandlerLeft(r)
    BY <1>3 DEF AnswerPage, Left, SeeGone, SeeDone, Tick, HandlerLeft
  <2> QED
    BY <1>1, <2>1
<1>4. CASE TakeEntry(r)
  <2>1. CASE pc' = [pc EXCEPT ![r] = "leave"]
    <3>1. HandlerLeft(r)' < HandlerLeft(r)
      BY <1>4, <2>1 DEF TakeEntry, HandlerLeft
    <3> QED
      BY <1>1, <3>1
  <2>2. CASE pc' = pc /\ canceled' = canceled
    <3>1. /\ queue'[r] = Tail(queue[r]) /\ queue[r] # << >> /\ queue[r] \in Seq(Nat)
          /\ UNCHANGED <<reader, proc, printed, scanned>>
      BY <1>4 DEF TakeEntry
    <3>2. Len(queue'[r]) < Len(queue[r])
      BY <3>1
    <3>3. \A m \in 1 .. 6 : Rest(r)'[m] = Rest(r)[m]
      BY <2>2, <3>1 DEF Rest, HandlerLeft, ReaderLeft
    <3>4. Rest(r)'[7] < Rest(r)[7]
      BY <3>2 DEF Rest
    <3> QED
      BY <3>3, <3>4, NearerAt
  <2> QED
    BY <1>4, <2>1, <2>2 DEF TakeEntry
<1> QED
  BY <1>2, <1>3, <1>4 DEF Handle

LEMMA OutsideNearer ==
  ASSUME Types, NEW r \in Requests, Outside(r), ~PrintLine(r)
  PROVE  Nearer(r) \/ SameRest(r)
<1>1. ASSUME NEW how \in {"exit0", "exit1", "failed", "killed"}, Ends(r, how)
      PROVE  Nearer(r)
  <2>1. /\ UNCHANGED <<pc, canceled, reader>>
        /\ proc[r] = "running" /\ proc'[r] # "running"
    BY <1>1 DEF Ends, Types
  <2>2. Rest(r)'[4] < Rest(r)[4] /\ \A m \in 1 .. 3 : Rest(r)'[m] = Rest(r)[m]
    BY <2>1 DEF Rest, One, HandlerLeft
  <2> QED
    BY <2>2, NearerAt
<1>2. CASE Disconnects(r) \/ \E how \in {"expired", "revoked"} : SessionEnds(r, how)
  <2>1. UNCHANGED <<pc, canceled, reader, proc, printed, scanned, queue>>
    BY <1>2 DEF Disconnects, SessionEnds
  <2> QED
    BY <2>1 DEF SameRest, Rest, HandlerLeft, ReaderLeft
<1> QED
  BY <1>1, <1>2 DEF Outside

\* Whatever happens to a request, short of one more line of journalctl.
Comes(r) == Nearer(r) \/ PrintLine(r) \/ SameRest(r)

\* Between two lines of journalctl a request has a bounded number of steps, and
\* every step of its handler and of its reader is one of them: the two never keep
\* each other busy (run, logEvents and the page).  A stream whose reader has
\* caught up with journalctl and whose channel is empty has sent every line.
THEOREM RequestsAreBounded ==
  Spec => /\ [](\A r \in Requests : \A n \in 1 .. 7 : Rest(r)[n] \in Nat)
          /\ [](\A r \in Requests :
                  pc[r] = "loop" /\ reader[r] = "scan" /\ queue[r] = << >> /\ scanned[r] = printed[r]
                    => Len(sent[r]) = printed[r])
          /\ [][\A r \in Requests : Comes(r) /\ (Run(r) \/ Handle(r) => Nearer(r))]_vars
<1>1. LogInv => \A r \in Requests : \A n \in 1 .. 7 : Rest(r)[n] \in Nat
  BY RestCounts DEF LogInv
<1>2. LogInv => \A r \in Requests :
                  pc[r] = "loop" /\ reader[r] = "scan" /\ queue[r] = << >> /\ scanned[r] = printed[r]
                    => Len(sent[r]) = printed[r]
  <2> SUFFICES ASSUME LogInv, NEW r \in Requests, pc[r] = "loop", reader[r] = "scan",
                      queue[r] = << >>, scanned[r] = printed[r]
               PROVE  Len(sent[r]) = printed[r]
    OBVIOUS
  <2>1. scanned[r] = Len(sent[r]) + Len(queue[r]) /\ Len(queue[r]) = 0 /\ Len(sent[r]) \in Nat
    BY DEF LogInv, Types, Good, Lines
  <2> QED
    BY <2>1
<1>3. ASSUME LogInv, [Next]_vars
      PROVE  [\A r \in Requests : Comes(r) /\ (Run(r) \/ Handle(r) => Nearer(r))]_vars
  <2> SUFFICES ASSUME Next, NEW r \in Requests
               PROVE  Comes(r) /\ (Run(r) \/ Handle(r) => Nearer(r))
    BY <1>3
  <2>1. Types /\ Good(r)
    BY <1>3 DEF LogInv
  <2>2. Run(r) \/ Handle(r) => Nearer(r)
    BY <2>1, RunNearer, HandleNearer
  <2>3. CASE Act(r)
    BY <2>1, <2>2, <2>3, ComingNearer, OutsideNearer DEF Act, Comes
  <2>4. ASSUME NEW q \in Requests, q # r, Act(q)
        PROVE  Comes(r)
    <3>1. Alone(r)
      BY <2>1, <2>4, OthersAlone
    <3> QED
      BY <3>1 DEF Alone, Comes, SameRest, Rest, HandlerLeft, ReaderLeft
  <2>5. CASE OtherStream
    <3>1. UNCHANGED <<pc, canceled, reader, proc, printed, scanned, queue>>
      BY <2>5 DEF OtherStream
    <3>2. SameRest(r)
      BY <3>1 DEF SameRest, Rest, HandlerLeft, ReaderLeft
    <3> QED
      BY <2>2, <3>2 DEF Comes
  <2>6. OtherStream \/ \E q \in Requests : Act(q)
    BY DEF Next, Act, Coming, Outside, Kill
  <2> QED
    BY <2>2, <2>3, <2>4, <2>5, <2>6
<1> QED
  BY Invariant, <1>1, <1>2, <1>3, PTL DEF Spec
=============================================================================
