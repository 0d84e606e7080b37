-------------------------------- MODULE Access --------------------------------
(***************************************************************************)
(* Who gets in and what is written down about it: the login attempts, the  *)
(* verification slots and the sessions of internal/auth/auth.go, and the   *)
(* audit and security handlers of internal/api/server.go around every      *)
(* request that changes something.                                         *)
(*                                                                         *)
(* A request happens once.  The token a login draws is called after the    *)
(* request that drew it.  The database has one connection, so a statement  *)
(* or a transaction is a step; whatever fails before its effect (a         *)
(* statement, a canceled context, a body that is no JSON) is one failure.  *)
(***************************************************************************)
EXTENDS Naturals, FiniteSets

CONSTANTS
  Requests,
  Addresses,      \* where logins come from
  Nowhere,        \* no address; the cookie of no session
  AttemptLimit,   \* 5 in the code
  TableLimit,     \* 4096
  VerifySlots,    \* 2
  SessionLimit,   \* 20
  MaxCrashes      \* bound: deaths of the process

ASSUME AccessAssumption ==
  /\ IsFiniteSet(Requests) /\ IsFiniteSet(Addresses)
  /\ Nowhere \notin Requests \union Addresses
  /\ AttemptLimit \in Nat /\ TableLimit \in Nat /\ VerifySlots \in Nat
  /\ SessionLimit \in Nat \ {0} /\ MaxCrashes \in Nat

VARIABLES
  attempts,    \* the count of each address; 0: no entry in the table
  counted,     \* the requests whose attempt is part of these counts
  guessed,     \* history: the requests whose password was verified
  busy,        \* verification slots taken
  sessions,    \* the rows of the table
  created,     \* when they were inserted
  clock,
  expired,     \* the rows whose twelve hours are over
  log,         \* audit_logs: request and result
  done,        \* the requests that have had their effect
  pc,
  req,         \* what a request is, and its outcome so far
  crashes

tables == <<attempts, counted, guessed, busy>>
stored == <<sessions, created, clock, expired>>
vars == <<attempts, counted, guessed, busy, sessions, created, clock, expired,
          log, done, pc, req, crashes>>

Kinds == {"login", "logout", "action"}
\* "unavailable" and "incomplete" are the two 503s of audit.
Outcomes == {"none", "success", "failed", "unavailable", "incomplete"}
Verifying == {"verify", "commit", "clear"}    \* these hold a slot
PCs == {"new", "start", "check", "allow", "slot", "act", "revoke", "record", "answer",
        "end", "lost"} \union Verifying

\* late: when the request arrived, its session's logout had been answered.
NoRequest == [kind |-> "action", from |-> Nowhere, cookie |-> Nowhere, late |-> FALSE,
              outcome |-> "none"]

Init ==
  /\ attempts = [a \in Addresses |-> 0]
  /\ counted = {} /\ guessed = {} /\ busy = 0
  /\ sessions = {} /\ created = [r \in Requests |-> 0] /\ clock = 0 /\ expired = {}
  /\ log = {} /\ done = {}
  /\ pc = [r \in Requests |-> "new"]
  /\ req = [r \in Requests |-> NoRequest]
  /\ crashes = 0

Goes(r, next) == pc' = [pc EXCEPT ![r] = next]
Ends(r, outcome, next) == Goes(r, next) /\ req' = [req EXCEPT ![r].outcome = outcome]

\* What buffered holds now waits for its record.
Succeeds(r) == Ends(r, "success", "record")
Refused(r)  == Ends(r, "failed", "record")

-----------------------------------------------------------------------------
LogoutAnswered(c) ==
  \E q \in Requests : /\ pc[q] = "end" /\ req[q].outcome = "success"
                      /\ req[q].kind = "logout" /\ req[q].cookie = c

\* The cookie reached a browser.
Handed(c) == pc[c] = "end" /\ req[c].kind = "login" /\ req[c].outcome = "success"

\* A request comes in: a login from an address, anything else with a cookie that
\* was once handed out, or with none.
Arrive(r, kind, from, cookie) ==
  /\ pc[r] = "new"
  /\ IF kind = "login" THEN from \in Addresses /\ cookie = Nowhere
     ELSE /\ from = Nowhere
          /\ cookie \in Requests => Handed(cookie)
  /\ Goes(r, "start")
  /\ req' = [req EXCEPT ![r] = [kind |-> kind, from |-> from, cookie |-> cookie,
                                late |-> LogoutAnswered(cookie), outcome |-> "none"]]
  /\ UNCHANGED <<tables, stored, log, done, crashes>>

\* Variant: a request goes on if its first record fails.
StartLoosely(r) ==
  /\ pc[r] = "start" /\ Goes(r, "check")
  /\ \/ log' = log \union {<<r, "started">>} \/ UNCHANGED log
  /\ UNCHANGED <<tables, stored, done, req, crashes>>

\* audit writes the first record.
Start(r) ==
  /\ pc[r] = "start" /\ Goes(r, "check")
  /\ log' = log \union {<<r, "started">>}
  /\ UNCHANGED <<tables, stored, done, req, crashes>>

\* "cannot record operation; no action performed"
StartFails(r) ==
  /\ pc[r] = "start" /\ Ends(r, "unavailable", "answer")
  /\ UNCHANGED <<tables, stored, log, done, crashes>>

\* Auth.Session: the row is there and its time is not over.
Live(cookie) == cookie \in sessions \ expired

\* security lets a login pass, and whoever has a live session.
Check(r) ==
  /\ pc[r] = "check"
  /\ req[r].kind # "login" => Live(req[r].cookie)
  /\ Goes(r, CASE req[r].kind = "login"  -> "allow"
               [] req[r].kind = "logout" -> "revoke"
               [] req[r].kind = "action" -> "act")
  /\ UNCHANGED <<tables, stored, log, done, req, crashes>>

\* Host, Origin, cookie, CSRF token or body are refused, or the lookup fails.
CheckRefuses(r) ==
  /\ pc[r] = "check" /\ Refused(r)
  /\ UNCHANGED <<tables, stored, log, done, crashes>>

-----------------------------------------------------------------------------
\* Login.

Entries == {a \in Addresses : attempts[a] > 0}

Allowed(a) ==
  /\ attempts[a] < AttemptLimit
  /\ attempts[a] = 0 => Cardinality(Entries) < TableLimit

\* Variant: an attempt is only counted when its password was wrong.
AllowUncounted(r) ==
  /\ pc[r] = "allow"
  /\ Allowed(req[r].from)
  /\ counted' = counted \union {r}
  /\ Goes(r, "slot")
  /\ UNCHANGED <<attempts, guessed, busy, stored, log, done, req, crashes>>

\* allow counts the attempt before its password is looked at, in one critical
\* section with the check.
Allow(r) ==
  /\ pc[r] = "allow"
  /\ Allowed(req[r].from)
  /\ attempts' = [attempts EXCEPT ![req[r].from] = @ + 1]
  /\ counted' = counted \union {r}
  /\ Goes(r, "slot")
  /\ UNCHANGED <<guessed, busy, stored, log, done, req, crashes>>

AllowRefuses(r) ==
  /\ pc[r] = "allow" /\ ~Allowed(req[r].from)
  /\ Refused(r)
  /\ UNCHANGED <<tables, stored, log, done, crashes>>

\* A slot is taken only if there is one, and the attempt stays counted if not.
TakeSlot(r) ==
  /\ pc[r] = "slot"
  /\ IF busy < VerifySlots
     THEN busy' = busy + 1 /\ Goes(r, "verify") /\ UNCHANGED req
     ELSE UNCHANGED busy /\ Refused(r)
  /\ UNCHANGED <<attempts, counted, guessed, stored, log, done, crashes>>

\* Variant: a return without the deferred release.
ReleaseForgotten == UNCHANGED busy

Release == busy' = busy - 1

\* The password is right; a token is drawn.
Verify(r) ==
  /\ pc[r] = "verify" /\ Goes(r, "commit")
  /\ guessed' = guessed \union {r}
  /\ UNCHANGED <<attempts, counted, busy, stored, log, done, req, crashes>>

\* It is wrong, or the user cannot be read.
VerifyRefuses(r) ==
  /\ pc[r] = "verify" /\ Refused(r)
  /\ guessed' = guessed \union {r}
  /\ Release
  /\ UNCHANGED <<attempts, counted, stored, log, done, crashes>>

\* Variant: one session too many is kept.
NewestTooMany(kept, rows) ==
  /\ Cardinality(kept) = IF Cardinality(rows) <= SessionLimit THEN Cardinality(rows) ELSE SessionLimit
  /\ \A k \in kept, r \in rows \ kept : created[k] > created[r]

\* The 19 newest rows, the others go.
Newest(kept, rows) ==
  /\ Cardinality(kept) = IF Cardinality(rows) < SessionLimit THEN Cardinality(rows) ELSE SessionLimit - 1
  /\ \A k \in kept, r \in rows \ kept : created[k] > created[r]

\* The transaction: expired rows go, the oldest go, the new one comes.
Commit(r) ==
  /\ pc[r] = "commit" /\ Goes(r, "clear")
  /\ \E kept \in SUBSET (sessions \ expired) :
       Newest(kept, sessions \ expired) /\ sessions' = kept \union {r}
  /\ clock' = clock + 1 /\ created' = [created EXCEPT ![r] = clock + 1]
  /\ expired' = {}
  /\ done' = done \union {r}
  /\ UNCHANGED <<tables, log, req, crashes>>

CommitFails(r) ==
  /\ pc[r] = "commit" /\ Refused(r)
  /\ Release
  /\ UNCHANGED <<attempts, counted, guessed, stored, log, done, crashes>>

\* The counts of address a begin again.
Forget(a) ==
  /\ attempts' = [attempts EXCEPT ![a] = 0]
  /\ counted' = {r \in counted : req[r].from # a}

Clear(r) ==
  /\ pc[r] = "clear" /\ Succeeds(r)
  /\ Forget(req[r].from)
  /\ Release
  /\ UNCHANGED <<guessed, stored, log, done, crashes>>

-----------------------------------------------------------------------------
\* Everything else that changes something.

\* mutate: what the helper did, it did, whatever came back.
Act(r) ==
  /\ pc[r] = "act"
  /\ \/ done' = done \union {r} /\ (Succeeds(r) \/ Refused(r))
     \/ UNCHANGED done /\ Refused(r)
  /\ UNCHANGED <<tables, stored, log, crashes>>

\* Variant: the cookie is taken back, the row stays.
RevokeCookieOnly(r) ==
  /\ pc[r] = "revoke" /\ Succeeds(r)
  /\ done' = done \union {r}
  /\ UNCHANGED <<tables, stored, log, crashes>>

\* Auth.Logout deletes the row, which another logout may have done already.
Revoke(r) ==
  /\ pc[r] = "revoke" /\ Succeeds(r)
  /\ sessions' = sessions \ {req[r].cookie}
  /\ expired' = expired \ {req[r].cookie}
  /\ done' = done \union {r}
  /\ UNCHANGED <<tables, created, clock, log, crashes>>

RevokeFails(r) ==
  /\ pc[r] = "revoke" /\ Refused(r)
  /\ UNCHANGED <<tables, stored, log, done, crashes>>

-----------------------------------------------------------------------------
\* Variant: the response does not wait for its record.
RecordLoosely(r) ==
  /\ pc[r] = "record" /\ Goes(r, "answer")
  /\ \/ log' = log \union {<<r, req[r].outcome>>} \/ UNCHANGED log
  /\ UNCHANGED <<tables, stored, done, req, crashes>>

\* audit writes the result and only then lets the response out.
Record(r) ==
  /\ pc[r] = "record" /\ Goes(r, "answer")
  /\ log' = log \union {<<r, req[r].outcome>>}
  /\ UNCHANGED <<tables, stored, done, req, crashes>>

\* "operation may have completed; audit completion failed"
RecordFails(r) ==
  /\ pc[r] = "record" /\ Ends(r, "incomplete", "answer")
  /\ UNCHANGED <<tables, stored, log, done, crashes>>

Answer(r) ==
  /\ pc[r] = "answer" /\ Goes(r, "end")
  /\ UNCHANGED <<tables, stored, log, done, req, crashes>>

\* Fifteen minutes are over for an address; twelve hours for a session.
AttemptsExpire(a) ==
  /\ attempts[a] > 0 /\ Forget(a)
  /\ UNCHANGED <<guessed, busy, stored, log, done, pc, req, crashes>>

SessionExpires(s) ==
  /\ s \in sessions \ expired /\ expired' = expired \union {s}
  /\ UNCHANGED <<tables, sessions, created, clock, log, done, pc, req, crashes>>

\* The process ends: attempts are only in memory.
Crash ==
  /\ crashes < MaxCrashes /\ crashes' = crashes + 1
  /\ attempts' = [a \in Addresses |-> 0] /\ counted' = {} /\ busy' = 0
  /\ pc' = [r \in Requests |-> IF pc[r] \in {"new", "end"} THEN pc[r] ELSE "lost"]
  /\ UNCHANGED <<guessed, stored, log, done, req>>

Step(r) ==
  \/ Start(r) \/ StartFails(r) \/ Check(r) \/ CheckRefuses(r)
  \/ Allow(r) \/ AllowRefuses(r) \/ TakeSlot(r) \/ Verify(r) \/ VerifyRefuses(r)
  \/ Commit(r) \/ CommitFails(r) \/ Clear(r)
  \/ Act(r) \/ Revoke(r) \/ RevokeFails(r)
  \/ Record(r) \/ RecordFails(r) \/ Answer(r)

Next ==
  \/ \E r \in Requests, kind \in Kinds, from \in Addresses \union {Nowhere},
        cookie \in Requests \union {Nowhere} : Arrive(r, kind, from, cookie)
  \/ \E r \in Requests : Step(r) \/ SessionExpires(r)
  \/ \E a \in Addresses : AttemptsExpire(a)
  \/ Crash

Spec == Init /\ [][Next]_vars

-----------------------------------------------------------------------------
\* Types, and the limits of the two tables (allow, Login's transaction).
TypeOK ==
  /\ attempts \in [Addresses -> 0 .. AttemptLimit]
  /\ counted \subseteq Requests /\ guessed \subseteq Requests
  /\ busy \in 0 .. VerifySlots
  /\ sessions \subseteq Requests /\ expired \subseteq sessions
  /\ created \in [Requests -> Nat] /\ clock \in Nat
  /\ log \subseteq Requests \X (Outcomes \union {"started"})
  /\ done \subseteq Requests
  /\ pc \in [Requests -> PCs]
  /\ req \in [Requests -> [kind : Kinds, from : Addresses \union {Nowhere},
                           cookie : Requests \union {Nowhere}, late : BOOLEAN,
                           outcome : Outcomes]]
  /\ crashes \in 0 .. MaxCrashes
  /\ Cardinality(Entries) <= TableLimit
  /\ Cardinality(sessions) <= SessionLimit

\* However logins from one address interleave, no more passwords are verified on
\* one account of attempts than the limit (allow, before VerifyPassword).
GuessLimit ==
  \A a \in Addresses :
    Cardinality({r \in guessed \intersect counted : req[r].from = a}) <= AttemptLimit

\* A verification slot is held by a login that verifies and by nobody else, on
\* every way out of Login.
SlotsReturned == busy = Cardinality({r \in Requests : pc[r] \in Verifying})

\* Nothing is done that the audit log does not know of, even if the process dies
\* in the middle ("no action performed").
NothingUnrecorded == \A r \in done : <<r, "started">> \in log

\* A response that reached the browser is in the audit log with its result, and
\* a success that is written down has happened (audit's comment).
AnsweredIsRecorded ==
  \A r \in Requests :
    /\ pc[r] = "end" /\ req[r].outcome \in {"success", "failed"} => <<r, req[r].outcome>> \in log
    /\ <<r, "success">> \in log => r \in done

\* A request that arrives when its session's logout has been answered does
\* nothing, also after a restart.
LogoutIsFinal == \A r \in done : ~req[r].late
=============================================================================
