------------------------------ MODULE LogStream ------------------------------
(***************************************************************************)
(* The log pages and the log streams of the console: the handlers of       *)
(* internal/api/logs.go, the reader of internal/journal/reader.go that     *)
(* runs in a goroutine of its own for a stream, the journalctl process it  *)
(* starts, the pipe and the channels between them, and the ways out: the   *)
(* browser leaves, its session ends, a write fails, the query takes too    *)
(* long, journalctl ends or prints what is no entry.                       *)
(*                                                                         *)
(* A line is its number in what journalctl prints.                         *)
(***************************************************************************)
EXTENDS Naturals, Sequences, FiniteSets

CONSTANTS
  Requests,
  Slots,      \* 16 in the code
  Capacity,   \* 100: the channel between a reader and its stream
  PageLimit,  \* lines of a page; 8 MiB in the code
  MaxLines    \* bound: lines a journalctl prints

ASSUME LogAssumption ==
  IsFiniteSet(Requests) /\ Slots \in Nat /\ Capacity \in Nat /\ PageLimit \in Nat /\ MaxLines \in Nat

VARIABLES
  pc, query,
  here,       \* the browser is connected
  session,
  canceled,   \* the handler has canceled, or the page's ten seconds are over
  reader,     \* the goroutine, or the call, that runs journalctl
  proc,       \* journalctl and how it ended
  printed,    \* lines in the pipe so far
  scanned,    \* lines taken out of it
  queue,      \* entries on their way from the reader to the handler
  result,     \* what the reader returned
  sent,       \* the entries the browser was sent
  told,       \* how the browser learned of the end
  others      \* slots taken by the streams of changes and of discovered services

client == <<query, here, session>>
vars == <<pc, client, canceled, reader, proc, printed, scanned, queue, result, sent, told, others>>

Queries == [follow : BOOLEAN, search : BOOLEAN]

Init ==
  /\ pc = [r \in Requests |-> "new"]
  /\ query = [r \in Requests |-> [follow |-> FALSE, search |-> FALSE]]
  /\ here = [r \in Requests |-> TRUE]
  /\ session = [r \in Requests |-> "valid"]
  /\ canceled = [r \in Requests |-> FALSE]
  /\ reader = [r \in Requests |-> "none"]
  /\ proc = [r \in Requests |-> "none"]
  /\ printed = [r \in Requests |-> 0]
  /\ scanned = [r \in Requests |-> 0]
  /\ queue = [r \in Requests |-> << >>]
  /\ result = [r \in Requests |-> "none"]
  /\ sent = [r \in Requests |-> << >>]
  /\ told = [r \in Requests |-> "nothing"]
  /\ others = 0

Follow(r) == query[r].follow
Goes(r, next) == pc' = [pc EXCEPT ![r] = next]
Reader(r, next) == reader' = [reader EXCEPT ![r] = next]

\* The context of journalctl is over.
Over(r) == ~here[r] \/ canceled[r] \/ reader[r] = "broken"

-----------------------------------------------------------------------------
\* The request, up to the start of the reader.

Holding == {r \in Requests : Follow(r) /\ pc[r] \in {"loop", "leave"}}

\* Variant: the limit is off by one.
SlotFreeLoose == Cardinality(Holding) + others <= Slots

SlotFree == Cardinality(Holding) + others < Slots

\* A query Arguments refuses, or a stream when all slots are taken.
Reject(r, q) ==
  /\ pc[r] = "new" /\ Goes(r, "over")
  /\ query' = [query EXCEPT ![r] = q]
  /\ told' = [told EXCEPT ![r] = "rejected"]
  /\ UNCHANGED <<here, session, canceled, reader, proc, printed, scanned, queue, result, sent, others>>

Arrive(r, q) ==
  /\ pc[r] = "new"
  /\ q.follow => SlotFree
  /\ Goes(r, IF q.follow THEN "loop" ELSE "page")
  /\ query' = [query EXCEPT ![r] = q]
  /\ Reader(r, "start")
  /\ UNCHANGED <<here, session, canceled, proc, printed, scanned, queue, result, sent, told, others>>

-----------------------------------------------------------------------------
\* The reader.

Returns(r, v) == Reader(r, "gone") /\ result' = [result EXCEPT ![r] = v]

StartProcess(r) ==
  /\ reader[r] = "start" /\ Reader(r, "scan")
  /\ proc' = [proc EXCEPT ![r] = "running"]
  /\ UNCHANGED <<pc, client, canceled, printed, scanned, queue, result, sent, told, others>>

\* journalctl cannot be started, or its context is over already.
StartFails(r) ==
  /\ reader[r] = "start" /\ Returns(r, "error")
  /\ UNCHANGED <<pc, client, canceled, proc, printed, scanned, queue, sent, told, others>>

\* A line that Parse understands.  A page that grows too large ends here.
Scan(r) ==
  /\ reader[r] = "scan" /\ scanned[r] < printed[r]
  /\ scanned' = [scanned EXCEPT ![r] = @ + 1]
  /\ Reader(r, IF ~Follow(r) /\ scanned[r] >= PageLimit THEN "broken" ELSE "emit")
  /\ UNCHANGED <<pc, client, canceled, proc, printed, queue, result, sent, told, others>>

\* One that it does not, or one that is too long.
ScanFails(r) ==
  /\ reader[r] = "scan" /\ scanned[r] < printed[r]
  /\ Reader(r, "broken")
  /\ UNCHANGED <<pc, client, canceled, proc, printed, scanned, queue, result, sent, told, others>>

\* Variant: an entry is dropped when its stream is slow.
EmitDropping(r) ==
  /\ reader[r] = "emit" /\ Reader(r, "scan")
  /\ queue' = IF Follow(r) /\ Len(queue[r]) >= Capacity THEN queue
              ELSE [queue EXCEPT ![r] = Append(@, scanned[r])]
  /\ UNCHANGED <<pc, client, canceled, proc, printed, scanned, result, sent, told, others>>

Emit(r) ==
  /\ reader[r] = "emit" /\ Reader(r, "scan")
  /\ Follow(r) => Len(queue[r]) < Capacity
  /\ queue' = [queue EXCEPT ![r] = Append(@, scanned[r])]
  /\ UNCHANGED <<pc, client, canceled, proc, printed, scanned, result, sent, told, others>>

\* Variant: an entry waits for its stream only.
EmitNeverCanceled(r) == FALSE /\ UNCHANGED vars

EmitCanceled(r) ==
  /\ reader[r] = "emit" /\ Follow(r) /\ Over(r)
  /\ Reader(r, "broken")
  /\ UNCHANGED <<pc, client, canceled, proc, printed, scanned, queue, result, sent, told, others>>

\* The pipe is empty and nobody writes it any more.
Eof(r) ==
  /\ reader[r] = "scan" /\ scanned[r] = printed[r] /\ proc[r] # "running"
  /\ Reader(r, "eof")
  /\ UNCHANGED <<pc, client, canceled, proc, printed, scanned, queue, result, sent, told, others>>

\* Variant: exit code 1 of a search is always taken for "no entries".
ResultOneIsEmpty(r) ==
  IF /\ reader[r] = "eof" /\ ~Over(r)
     /\ proc[r] = "exit0" \/ (proc[r] = "exit1" /\ query[r].search)
  THEN "ok" ELSE "error"

\* Variant: an error of the scan is forgotten.
ResultIgnoresScan(r) ==
  IF \/ reader[r] = "broken" /\ here[r] /\ ~canceled[r]
     \/ reader[r] = "eof" /\ ~Over(r) /\ proc[r] = "exit0"
  THEN "ok" ELSE "error"

\* journalctl exits with 1, and says nothing, if the search matched no entry.
Result(r) ==
  IF /\ reader[r] = "eof" /\ ~Over(r)
     /\ proc[r] = "exit0" \/ (proc[r] = "exit1" /\ query[r].search /\ scanned[r] = 0)
  THEN "ok" ELSE "error"

\* Wait comes back: run returns, to the page or through done to the stream.
Wait(r) ==
  /\ reader[r] \in {"broken", "eof"} /\ proc[r] # "running"
  /\ Returns(r, Result(r))
  /\ UNCHANGED <<pc, client, canceled, proc, printed, scanned, queue, sent, told, others>>

Run(r) ==
  \/ StartProcess(r) \/ StartFails(r) \/ Scan(r) \/ ScanFails(r)
  \/ Emit(r) \/ EmitCanceled(r) \/ Eof(r) \/ Wait(r)

-----------------------------------------------------------------------------
\* journalctl.  "exit1" is exit code 1 and an empty standard error.

PrintLine(r) ==
  /\ proc[r] = "running" /\ printed[r] < MaxLines
  /\ printed' = [printed EXCEPT ![r] = @ + 1]
  /\ UNCHANGED <<pc, client, canceled, reader, proc, scanned, queue, result, sent, told, others>>

Ends(r, how) ==
  /\ proc[r] = "running"
  /\ how = "killed" => Over(r)
  /\ proc' = [proc EXCEPT ![r] = how]
  /\ UNCHANGED <<pc, client, canceled, reader, printed, scanned, queue, result, sent, told, others>>

\* exec.CommandContext.
Kill(r) == Ends(r, "killed")

-----------------------------------------------------------------------------
\* The handlers.

Finish(r, t) == Goes(r, "over") /\ told' = [told EXCEPT ![r] = t]

PageTimeout(r) ==
  /\ pc[r] = "page" /\ ~canceled[r]
  /\ canceled' = [canceled EXCEPT ![r] = TRUE]
  /\ UNCHANGED <<pc, client, reader, proc, printed, scanned, queue, result, sent, told, others>>

AnswerPage(r) ==
  /\ pc[r] = "page" /\ reader[r] = "gone"
  /\ IF result[r] = "ok"
     THEN Finish(r, "page") /\ sent' = [sent EXCEPT ![r] = queue[r]]
     ELSE Finish(r, "failure") /\ UNCHANGED sent
  /\ UNCHANGED <<client, canceled, reader, proc, printed, scanned, queue, result, others>>

\* Variant: the stream returns without its reader.
LeaveAtOnce(r) == Finish(r, "nothing") /\ canceled' = [canceled EXCEPT ![r] = TRUE]

\* The deferred cancel; the slot is given back behind it.
Leave(r) == Goes(r, "leave") /\ canceled' = [canceled EXCEPT ![r] = TRUE] /\ UNCHANGED told

\* The deferred receive from done.
Left(r) ==
  /\ pc[r] = "leave" /\ reader[r] = "gone"
  /\ Finish(r, "nothing")
  /\ UNCHANGED <<client, canceled, reader, proc, printed, scanned, queue, result, sent, others>>

SeeGone(r) ==
  /\ pc[r] = "loop" /\ ~here[r]
  /\ Leave(r)
  /\ UNCHANGED <<client, reader, proc, printed, scanned, queue, result, sent, others>>

\* done is chosen even if entries are waiting: they are not sent.
SeeDone(r) ==
  /\ pc[r] = "loop" /\ reader[r] = "gone"
  /\ Finish(r, IF result[r] = "ok" THEN "end" ELSE IF here[r] THEN "failure" ELSE "nothing")
  /\ UNCHANGED <<client, canceled, reader, proc, printed, scanned, queue, result, sent, others>>

TakeEntry(r) ==
  /\ pc[r] = "loop" /\ queue[r] # << >>
  /\ queue' = [queue EXCEPT ![r] = Tail(@)]
  /\ \/ /\ session[r] # "expired"
        /\ sent' = [sent EXCEPT ![r] = Append(@, Head(queue[r]))]
        /\ UNCHANGED <<pc, told, canceled>>
     \/ Leave(r) /\ (session[r] = "expired" \/ ~here[r]) /\ UNCHANGED sent
  /\ UNCHANGED <<client, reader, proc, printed, scanned, result, others>>

\* The heartbeat is refused or cannot be written.
Tick(r) ==
  /\ pc[r] = "loop" /\ (session[r] # "valid" \/ ~here[r])
  /\ Leave(r)
  /\ UNCHANGED <<client, reader, proc, printed, scanned, queue, result, sent, others>>

Handle(r) ==
  \/ PageTimeout(r) \/ AnswerPage(r)
  \/ Left(r) \/ SeeGone(r) \/ SeeDone(r) \/ TakeEntry(r) \/ Tick(r)

-----------------------------------------------------------------------------
\* The browser closes, logs out or outlives its session.

Disconnects(r) ==
  /\ pc[r] \notin {"new", "over"} /\ here[r] /\ here' = [here EXCEPT ![r] = FALSE]
  /\ UNCHANGED <<pc, query, session, canceled, reader, proc, printed, scanned, queue, result, sent, told, others>>

SessionEnds(r, how) ==
  /\ pc[r] = "loop" /\ session[r] = "valid" /\ session' = [session EXCEPT ![r] = how]
  /\ UNCHANGED <<pc, query, here, canceled, reader, proc, printed, scanned, queue, result, sent, told, others>>

\* An event stream of another kind opens or ends.
OtherStream ==
  /\ \/ SlotFree /\ others' = others + 1
     \/ others > 0 /\ others' = others - 1
  /\ UNCHANGED <<pc, client, canceled, reader, proc, printed, scanned, queue, result, sent, told>>

Next ==
  \/ \E r \in Requests :
       \/ \E q \in Queries : Reject(r, q) \/ Arrive(r, q)
       \/ Run(r) \/ Handle(r)
       \/ PrintLine(r) \/ Kill(r)
       \/ \E how \in {"exit0", "exit1", "failed"} : Ends(r, how)
       \/ Disconnects(r)
       \/ \E how \in {"expired", "revoked"} : SessionEnds(r, how)
  \/ OtherStream

Spec == Init /\ [][Next]_vars

\* The program runs its own steps, timers fire and the kernel kills a process it
\* is asked to kill; nothing is assumed of journalctl and of browsers.
FairSpec ==
  /\ Spec
  /\ \A r \in Requests :
       /\ WF_vars(Run(r)) /\ WF_vars(Kill(r)) /\ WF_vars(PageTimeout(r)) /\ WF_vars(AnswerPage(r))
       /\ WF_vars(Left(r)) /\ WF_vars(SeeGone(r)) /\ WF_vars(SeeDone(r)) /\ WF_vars(TakeEntry(r))
       /\ WF_vars(Tick(r))

-----------------------------------------------------------------------------
\* Types, the streams within their slots, the channel within its capacity
\* (streamSlots, entries).
TypeOK ==
  /\ pc \in [Requests -> {"new", "page", "loop", "leave", "over"}]
  /\ query \in [Requests -> Queries]
  /\ here \in [Requests -> BOOLEAN] /\ canceled \in [Requests -> BOOLEAN]
  /\ session \in [Requests -> {"valid", "expired", "revoked"}]
  /\ reader \in [Requests -> {"none", "start", "scan", "emit", "broken", "eof", "gone"}]
  /\ proc \in [Requests -> {"none", "running", "exit0", "exit1", "failed", "killed"}]
  /\ printed \in [Requests -> Nat] /\ scanned \in [Requests -> Nat]
  /\ queue \in [Requests -> Seq(Nat)] /\ sent \in [Requests -> Seq(Nat)]
  /\ result \in [Requests -> {"none", "ok", "error"}]
  /\ told \in [Requests -> {"nothing", "rejected", "page", "end", "failure"}]
  /\ \A r \in Requests : Follow(r) => Len(queue[r]) <= Capacity
  /\ others \in Nat /\ Cardinality(Holding) + others <= Slots

\* A browser is sent the lines journalctl printed, from the first one on, in
\* their order and without a gap, whatever waits or is canceled on the way (the
\* channel, emit).
InOrder == \A r \in Requests : \A i \in 1 .. Len(sent[r]) : sent[r][i] = i

\* No journalctl, and no goroutine, outlives its request and the slot it was
\* counted in (the deferred receive from done).
NoOrphans ==
  \A r \in Requests : pc[r] = "over" => proc[r] # "running" /\ reader[r] \in {"none", "gone"}

\* A failed journalctl is not presented as an empty healthy journal, and a page
\* that is answered is not cut short by a timeout, a limit or a line nobody
\* understands (run's comment).
HonestEnd ==
  \A r \in Requests :
    /\ told[r] \in {"page", "end"} =>
         /\ proc[r] = "exit0" \/ (proc[r] = "exit1" /\ query[r].search /\ printed[r] = 0)
         /\ scanned[r] = printed[r]
    /\ told[r] = "page" => Len(sent[r]) = printed[r]

\* A stream whose browser or session is gone ends and gives its slot back, though
\* its reader may wait for a full channel; and no page waits for ever.
RequestsEnd ==
  \A r \in Requests :
    (pc[r] = "page" \/ (pc[r] = "loop" /\ (~here[r] \/ session[r] # "valid"))) ~> pc[r] = "over"

\* A line journalctl has printed reaches a browser that follows, or its stream
\* ends.
LinesArrive ==
  \A r \in Requests : \A n \in 1 .. MaxLines :
    (Follow(r) /\ printed[r] >= n) ~> (Len(sent[r]) >= n \/ pc[r] = "over")
=============================================================================
