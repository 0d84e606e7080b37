---------------------------- MODULE AccessProofs ------------------------------
(***************************************************************************)
(* The limits of a login and the truth of the audit log, for every number  *)
(* of requests, addresses and crashes and for every limit.  The inductive  *)
(* invariant counts: an address's attempts are the requests that were let  *)
(* through and not forgotten, the slots taken the requests that verify.    *)
(***************************************************************************)
EXTENDS Access, FiniteSetTheorems, TLAPS

\* TypeOK without what counts.
Types ==
  /\ attempts \in [Addresses -> 0 .. AttemptLimit]
  /\ counted \subseteq Requests /\ guessed \subseteq Requests
  /\ busy \in 0 .. VerifySlots
  /\ sessions \subseteq Requests /\ expired \subseteq sessions
  /\ created \in [Requests -> Nat] /\ clock \in Nat
  /\ log \subseteq Requests \X (Outcomes \union {"started"})
  /\ done \subseteq Requests
  /\ pc \in [Requests -> PCs]
  /\ req \in [Requests -> [kind : Kinds, from : Addresses \union {Nowhere},
                           cookie : Requests \union {Nowhere}, late : BOOLEAN,
                           outcome : Outcomes]]
  /\ crashes \in 0 .. MaxCrashes

Charged(a) == {r \in counted : req[r].from = a}
Holders == {r \in Requests : pc[r] \in Verifying}

Counts ==
  /\ \A a \in Addresses : attempts[a] = Cardinality(Charged(a))
  /\ busy = Cardinality(Holders)
  /\ Cardinality(Entries) <= TableLimit
  /\ Cardinality(sessions) <= SessionLimit

Logging == {"allow", "slot"} \union Verifying

\* What a request's step says of it.
Placed(r) ==
  /\ pc[r] \in Logging => req[r].kind = "login"
  /\ pc[r] # "new" /\ req[r].kind = "login" => req[r].from \in Addresses
  /\ pc[r] \in {"new", "start", "check"} => r \notin done
  /\ pc[r] \in {"new", "start", "check", "allow"} => r \notin counted
  /\ pc[r] \in {"check", "act", "revoke", "record"} \union Logging => <<r, "started">> \in log
  /\ pc[r] = "clear" => r \in done
  /\ pc[r] = "record" => req[r].outcome \in {"success", "failed"}
  /\ pc[r] = "record" /\ req[r].outcome = "success" => r \in done
  /\ pc[r] \in {"answer", "end"} /\ req[r].outcome \in {"success", "failed"} =>
       <<r, req[r].outcome>> \in log
  /\ r \in done => <<r, "started">> \in log
  /\ <<r, "success">> \in log => r \in done

\* A cookie that was revoked is no row's, and no login can bring it back.
Final(r) ==
  /\ pc[r] # "new" /\ req[r].cookie \in Requests => Handed(req[r].cookie)
  /\ pc[r] \in {"revoke", "act"} => req[r].cookie \in Requests
  /\ pc[r] = "act" => req[r].kind = "action"
  /\ pc[r] # "new" /\ req[r].kind = "login" => req[r].cookie = Nowhere
  /\ pc[r] \in {"record", "answer", "end"} /\ req[r].kind = "logout" /\ req[r].outcome = "success" =>
       req[r].cookie \in Requests \ sessions
  /\ req[r].late => /\ pc[r] \in {"start", "check", "record", "answer", "end", "lost"}
                    /\ req[r].cookie \notin sessions /\ req[r].cookie \in Requests
                    /\ r \notin done

AccessInv ==
  /\ Types /\ Counts
  /\ \A r \in Requests : Placed(r)
  /\ \A r \in Requests : Final(r)

-----------------------------------------------------------------------------
LEMMA FiniteParts ==
  Types => /\ \A a \in Addresses : IsFiniteSet(Charged(a)) /\ Cardinality(Charged(a)) \in Nat
           /\ IsFiniteSet(Holders) /\ Cardinality(Holders) \in Nat
           /\ IsFiniteSet(Entries) /\ Cardinality(Entries) \in Nat
           /\ IsFiniteSet(sessions) /\ Cardinality(sessions) \in Nat
<1>1. IsFiniteSet(Requests) /\ IsFiniteSet(Addresses)
  BY AccessAssumption
<1> SUFFICES ASSUME Types
             PROVE  /\ \A a \in Addresses : IsFiniteSet(Charged(a))
                    /\ IsFiniteSet(Holders) /\ IsFiniteSet(Entries) /\ IsFiniteSet(sessions)
  BY FS_CardinalityType
<1>2. \A a \in Addresses : Charged(a) \in SUBSET Requests
  BY DEF Types, Charged
<1>3. Holders \in SUBSET Requests /\ Entries \in SUBSET Addresses /\ sessions \in SUBSET Requests
  BY DEF Types, Holders, Entries
<1> QED
  BY <1>1, <1>2, <1>3, FS_Subset

LEMMA InvParts ==
  AccessInv => TypeOK /\ GuessLimit /\ SlotsReturned /\ NothingUnrecorded
               /\ AnsweredIsRecorded /\ LogoutIsFinal
<1> SUFFICES ASSUME AccessInv
             PROVE  TypeOK /\ GuessLimit /\ SlotsReturned /\ NothingUnrecorded
                    /\ AnsweredIsRecorded /\ LogoutIsFinal
  OBVIOUS
<1>1. TypeOK
  BY DEF AccessInv, Types, Counts, TypeOK
<1>2. ASSUME NEW a \in Addresses
      PROVE  Cardinality({r \in guessed \intersect counted : req[r].from = a}) <= AttemptLimit
  <2> DEFINE G == {r \in guessed \intersect counted : req[r].from = a}
  <2>1. G \in SUBSET Charged(a)
    BY DEF Charged
  <2>2. IsFiniteSet(Charged(a)) /\ Cardinality(Charged(a)) \in Nat
    BY FiniteParts DEF AccessInv
  <2>3. Cardinality(G) <= Cardinality(Charged(a)) /\ Cardinality(G) \in Nat
    BY <2>1, <2>2, FS_Subset, FS_CardinalityType
  <2>4. Cardinality(Charged(a)) \in 0 .. AttemptLimit
    BY DEF AccessInv, Types, Counts
  <2> QED
    BY <2>2, <2>3, <2>4, AccessAssumption
<1>3. SlotsReturned
  BY DEF AccessInv, Counts, Holders, SlotsReturned
<1>4. NothingUnrecorded /\ AnsweredIsRecorded
  BY DEF AccessInv, Types, Placed, NothingUnrecorded, AnsweredIsRecorded
<1>5. LogoutIsFinal
  BY DEF AccessInv, Types, Final, LogoutIsFinal
<1> QED
  BY <1>1, <1>2, <1>3, <1>4, <1>5 DEF GuessLimit

LEMMA InitInv == Init => AccessInv
<1> SUFFICES ASSUME Init
             PROVE  AccessInv
  OBVIOUS
<1>1. Types
  BY AccessAssumption DEF Init, Types, PCs, NoRequest, Kinds, Outcomes
<1>2. \A r \in Requests : Placed(r) /\ Final(r)
  BY AccessAssumption DEF Init, Placed, Final, Logging, Verifying, NoRequest
<1>3. /\ Entries = {} /\ Holders = {} /\ \A a \in Addresses : Charged(a) = {}
  BY DEF Init, Entries, Holders, Charged, Verifying
<1>4. Counts
  BY <1>3, FS_EmptySet, AccessAssumption DEF Init, Counts
<1> QED
  BY <1>1, <1>2, <1>4 DEF AccessInv

-----------------------------------------------------------------------------
\* Types, step by step.

Coming(r) ==
  \E kind \in Kinds, from \in Addresses \union {Nowhere}, cookie \in Requests \union {Nowhere} :
    Arrive(r, kind, from, cookie)

LEMMA EndTypes ==
  ASSUME Types, NEW r \in Requests, NEW next \in PCs, NEW outcome \in Outcomes,
         Ends(r, outcome, next)
  PROVE  /\ pc' \in [Requests -> PCs]
         /\ req' \in [Requests -> [kind : Kinds, from : Addresses \union {Nowhere},
                                   cookie : Requests \union {Nowhere}, late : BOOLEAN,
                                   outcome : Outcomes]]
BY DEF Types, Ends, Goes

LEMMA OutcomeTypes ==
  ASSUME Types, NEW r \in Requests, Succeeds(r) \/ Refused(r)
  PROVE  /\ pc' \in [Requests -> PCs]
         /\ req' \in [Requests -> [kind : Kinds, from : Addresses \union {Nowhere},
                                   cookie : Requests \union {Nowhere}, late : BOOLEAN,
                                   outcome : Outcomes]]
<1>1. "record" \in PCs /\ "success" \in Outcomes /\ "failed" \in Outcomes
  BY DEF PCs, Outcomes
<1> QED
  BY <1>1, EndTypes DEF Succeeds, Refused

LEMMA HolderCounts ==
  ASSUME AccessInv, NEW r \in Requests, pc[r] \in Verifying
  PROVE  busy > 0 /\ busy \in Nat
<1>1. r \in Holders
  BY DEF Holders
<1>2. IsFiniteSet(Holders) /\ Cardinality(Holders) \in Nat
  BY FiniteParts DEF AccessInv
<1>3. Cardinality(Holders) # 0
  BY <1>1, <1>2, FS_EmptySet
<1> QED
  BY <1>2, <1>3 DEF AccessInv, Counts

LEMMA StepTypes ==
  ASSUME AccessInv, NEW r \in Requests, Step(r) \/ Coming(r)
  PROVE  Types'
<1>0. Types /\ Placed(r)
  BY DEF AccessInv
<1>a. {"success", "failed", "unavailable", "incomplete", "none"} = Outcomes
  BY DEF Outcomes
<1>b. ASSUME pc[r] \in Verifying, Release
      PROVE  busy' \in 0 .. VerifySlots
  BY <1>0, <1>b, HolderCounts, AccessAssumption DEF Release, Types
<1>c. ASSUME NEW a \in Addresses, Forget(a)
      PROVE  attempts' \in [Addresses -> 0 .. AttemptLimit] /\ counted' \subseteq Requests
  BY <1>0, <1>c, AccessAssumption DEF Forget, Types
<1> USE <1>0 DEF tables, stored
<1>1. CASE Coming(r)
  <2>1. PICK kind \in Kinds, from \in Addresses \union {Nowhere},
             cookie \in Requests \union {Nowhere} : Arrive(r, kind, from, cookie)
    BY <1>1 DEF Coming
  <2> DEFINE late == LogoutAnswered(cookie)
  <2>2. late \in BOOLEAN
    BY DEF LogoutAnswered
  <2>3. req' = [req EXCEPT ![r] = [kind |-> kind, from |-> from, cookie |-> cookie,
                                   late |-> late, outcome |-> "none"]]
    BY <2>1 DEF Arrive
  <2> HIDE DEF late
  <2>4. req' \in [Requests -> [kind : Kinds, from : Addresses \union {Nowhere},
                              cookie : Requests \union {Nowhere}, late : BOOLEAN,
                              outcome : Outcomes]]
    BY <2>2, <2>3, <1>a DEF Types
  <2> QED
    BY <2>1, <2>4 DEF Arrive, Types, Goes, PCs
<1>2. CASE Start(r)
  BY <1>2 DEF Start, Types, Goes, PCs
<1>3. CASE StartFails(r)
  BY <1>3, <1>a, EndTypes DEF StartFails, Types, PCs
<1>4. CASE Check(r)
  <2>1. pc' \in [Requests -> PCs]
    BY <1>4 DEF Check, Types, Goes, PCs, Kinds
  <2> QED
    BY <1>4, <2>1 DEF Check, Types
<1>5. CASE CheckRefuses(r) \/ AllowRefuses(r) \/ RevokeFails(r)
  BY <1>5, OutcomeTypes DEF CheckRefuses, AllowRefuses, RevokeFails, Types
<1>6. CASE Allow(r)
  <2>1. attempts' \in [Addresses -> 0 .. AttemptLimit]
    BY <1>6, AccessAssumption DEF Allow, Allowed, Placed, Logging, Types
  <2> QED
    BY <1>6, <2>1 DEF Allow, Types, Goes, PCs
<1>7. CASE TakeSlot(r)
  <2>1. CASE busy < VerifySlots
    BY <1>7, <2>1, AccessAssumption DEF TakeSlot, Types, Goes, PCs, Verifying
  <2>2. CASE ~(busy < VerifySlots)
    BY <1>7, <2>2, OutcomeTypes DEF TakeSlot, Types
  <2> QED
    BY <2>1, <2>2
<1>8. CASE Verify(r)
  BY <1>8 DEF Verify, Types, Goes, PCs, Verifying
<1>9. CASE VerifyRefuses(r)
  BY <1>9, <1>b, OutcomeTypes DEF VerifyRefuses, Types, Verifying
<1>10. CASE Commit(r)
  <2>1. sessions' \subseteq Requests /\ expired' = {}
    BY <1>10 DEF Commit, Types
  <2>2. pc' \in [Requests -> PCs] /\ created' \in [Requests -> Nat] /\ clock' \in Nat
    BY <1>10 DEF Commit, Types, Goes, PCs, Verifying
  <2> QED
    BY <1>10, <2>1, <2>2 DEF Commit, Types
<1>11. CASE CommitFails(r)
  BY <1>11, <1>b, OutcomeTypes DEF CommitFails, Types, Verifying
<1>12. CASE Clear(r)
  BY <1>12, <1>b, <1>c, OutcomeTypes DEF Clear, Placed, Logging, Types, Verifying
<1>13. CASE Act(r)
  BY <1>13, OutcomeTypes DEF Act, Types
<1>14. CASE Revoke(r)
  BY <1>14, OutcomeTypes DEF Revoke, Types
<1>15. CASE Record(r)
  BY <1>15 DEF Record, Types, Goes, PCs
<1>16. CASE RecordFails(r)
  BY <1>16, <1>a, EndTypes DEF RecordFails, Types, PCs
<1>17. CASE Answer(r)
  BY <1>17 DEF Answer, Types, Goes, PCs
<1> QED
  BY <1>1, <1>2, <1>3, <1>4, <1>5, <1>6, <1>7, <1>8, <1>9, <1>10, <1>11, <1>12, <1>13, <1>14,
     <1>15, <1>16, <1>17 DEF Step

LEMMA OutsideTypes ==
  ASSUME AccessInv,
         Crash \/ (\E a \in Addresses : AttemptsExpire(a)) \/ (\E s \in Requests : SessionExpires(s))
  PROVE  Types'
<1>0. Types
  BY DEF AccessInv
<1> USE <1>0 DEF tables, stored
<1>1. CASE Crash
  BY <1>1, AccessAssumption DEF Crash, Types, PCs
<1>2. ASSUME NEW a \in Addresses, AttemptsExpire(a)
      PROVE  Types'
  BY <1>2, AccessAssumption DEF AttemptsExpire, Forget, Types
<1>3. ASSUME NEW s \in Requests, SessionExpires(s)
      PROVE  Types'
  BY <1>3 DEF SessionExpires, Types
<1> QED
  BY <1>1, <1>2, <1>3

-----------------------------------------------------------------------------
\* Counting, step by step.

\* A step of r leaves the other requests alone, and what r is.
Frame(r) ==
  /\ \A q \in Requests \ {r} : pc'[q] = pc[q] /\ req'[q] = req[q]
  /\ req'[r].kind = req[r].kind /\ req'[r].from = req[r].from
  /\ req'[r].cookie = req[r].cookie /\ req'[r].late = req[r].late

LEMMA StepFrame ==
  ASSUME Types, NEW r \in Requests, Step(r)
  PROVE  Frame(r)
<1>1. ASSUME NEW outcome, NEW next, Ends(r, outcome, next)
      PROVE  Frame(r)
  BY <1>1 DEF Types, Ends, Goes, Frame
<1>2. ASSUME NEW next, Goes(r, next), req' = req
      PROVE  Frame(r)
  BY <1>2 DEF Types, Goes, Frame
<1> QED
  BY <1>1, <1>2 DEF Step, Start, StartFails, Check, CheckRefuses, Allow, AllowRefuses, TakeSlot,
     Verify, VerifyRefuses, Commit, CommitFails, Clear, Act, Revoke, RevokeFails, Record,
     RecordFails, Answer, Succeeds, Refused

LEMMA ChargedStays ==
  ASSUME Types, NEW r \in Requests, counted' = counted,
         \A q \in counted : req'[q].from = req[q].from
  PROVE  \A a \in Addresses : Charged(a)' = Charged(a)
BY DEF Charged

LEMMA ForgetCounts ==
  ASSUME Types, Counts, NEW r \in Requests, Frame(r) \/ UNCHANGED <<pc, req>>,
         NEW a \in Addresses, Forget(a)
  PROVE  /\ \A b \in Addresses : attempts'[b] = Cardinality(Charged(b)')
         /\ Cardinality(Entries') <= TableLimit
<1>1. \A q \in Requests : req'[q].from = req[q].from
  BY DEF Frame
<1>2. Charged(a)' = {} /\ \A b \in Addresses \ {a} : Charged(b)' = Charged(b)
  BY <1>1 DEF Charged, Forget, Types
<1>3. Entries' \in SUBSET Entries
  BY AccessAssumption DEF Entries, Forget, Types
<1>4. Cardinality(Entries') <= Cardinality(Entries) /\ Cardinality(Entries') \in Nat
  BY <1>3, FiniteParts, FS_Subset, FS_CardinalityType
<1>5. attempts'[a] = 0 /\ \A b \in Addresses \ {a} : attempts'[b] = attempts[b]
  BY DEF Forget, Types
<1>6. Cardinality(Charged(a)') = 0
  BY <1>2, FS_EmptySet
<1>7. ASSUME NEW b \in Addresses
      PROVE  attempts'[b] = Cardinality(Charged(b)')
  <2>1. CASE b = a
    BY <1>5, <1>6, <2>1
  <2>2. CASE b # a
    BY <1>2, <1>5, <2>2 DEF Counts
  <2> QED
    BY <2>1, <2>2
<1>8. Cardinality(Entries') <= TableLimit
  BY <1>4, FiniteParts, AccessAssumption DEF Counts
<1> QED
  BY <1>7, <1>8

\* The accounts: attempts and the table's size.
LEMMA AccountStep ==
  ASSUME AccessInv, NEW r \in Requests, Step(r) \/ Coming(r)
  PROVE  /\ \A a \in Addresses : attempts'[a] = Cardinality(Charged(a)')
         /\ Cardinality(Entries') <= TableLimit
<1>0. Types /\ Counts /\ Placed(r) /\ (Step(r) => Frame(r))
  BY StepFrame DEF AccessInv
<1> USE <1>0
<1>1. CASE Allow(r)
  <2> DEFINE a == req[r].from
  <2>1. /\ a \in Addresses /\ r \notin counted /\ counted' = counted \union {r} /\ req' = req
        /\ attempts' = [attempts EXCEPT ![a] = @ + 1] /\ Allowed(a)
    BY <1>1 DEF Allow, Placed, Logging
  <2>2. Charged(a)' = Charged(a) \union {r} /\ r \notin Charged(a)
    BY <2>1 DEF Charged
  <2>3. \A b \in Addresses \ {a} : Charged(b)' = Charged(b)
    BY <2>1 DEF Charged
  <2>4. Cardinality(Charged(a)') = Cardinality(Charged(a)) + 1
    BY <2>1, <2>2, FiniteParts, FS_AddElement
  <2>5. Entries' = Entries \union {a}
    BY <2>1, AccessAssumption DEF Entries, Types
  <2>6. Cardinality(Entries') <= TableLimit
    <3>1. CASE a \in Entries
      <4>1. Entries' = Entries
        BY <2>5, <3>1
      <4> QED
        BY <4>1 DEF Counts
    <3>2. CASE a \notin Entries
      <4>1. Cardinality(Entries) < TableLimit
        BY <2>1, <3>2, AccessAssumption DEF Allowed, Entries, Types
      <4>2. Cardinality(Entries') = Cardinality(Entries) + 1
        BY <2>5, <3>2, FiniteParts, FS_AddElement
      <4> QED
        BY <4>1, <4>2, FiniteParts, AccessAssumption
    <3> QED
      BY <3>1, <3>2
  <2>7. attempts'[a] = attempts[a] + 1 /\ \A b \in Addresses \ {a} : attempts'[b] = attempts[b]
    BY <2>1 DEF Types
  <2>8. ASSUME NEW b \in Addresses
        PROVE  attempts'[b] = Cardinality(Charged(b)')
    <3>1. CASE b = a
      <4>1. attempts[a] = Cardinality(Charged(a))
        BY <2>1 DEF Counts
      <4>2. attempts'[a] = Cardinality(Charged(a)')
        BY <2>4, <2>7, <4>1
      <4>3. Charged(b)' = Charged(a)'
        BY <2>1, <3>1 DEF Charged
      <4> QED
        BY <3>1, <4>2, <4>3
    <3>2. CASE b # a
      BY <2>3, <2>7, <3>2 DEF Counts
    <3> QED
      BY <3>1, <3>2
  <2> QED
    BY <2>6, <2>8
<1>2. CASE Clear(r)
  BY <1>2, ForgetCounts DEF Clear, Placed, Logging, Verifying, Step
<1>3. CASE ~Allow(r) /\ ~Clear(r)
  <2>1. attempts' = attempts /\ counted' = counted
    BY <1>3 DEF Step, Coming, Arrive, Start, StartFails, Check, CheckRefuses, AllowRefuses,
       TakeSlot, Verify, VerifyRefuses, Commit, CommitFails, Act, Revoke, RevokeFails, Record,
       RecordFails, Answer, tables
  <2>2. \A q \in counted : req'[q].from = req[q].from
    <3>1. CASE Step(r)
      BY <3>1 DEF Frame, Types
    <3>2. CASE Coming(r)
      BY <3>2 DEF Coming, Arrive, Placed, Types
    <3> QED
      BY <3>1, <3>2
  <2>3. \A a \in Addresses : Charged(a)' = Charged(a)
    BY <2>1, <2>2, ChargedStays
  <2>4. Entries' = Entries
    BY <2>1 DEF Entries
  <2> QED
    BY <2>1, <2>3, <2>4 DEF Counts
<1> QED
  BY <1>1, <1>2, <1>3

\* The slots.
LEMMA SlotStep ==
  ASSUME AccessInv, NEW r \in Requests, Step(r) \/ Coming(r)
  PROVE  busy' = Cardinality(Holders')
<1>0. Types /\ Counts /\ (Step(r) => Frame(r)) /\ busy \in Nat /\ busy = Cardinality(Holders)
  BY StepFrame, AccessAssumption DEF AccessInv, Types, Counts
<1> USE <1>0 DEF Goes, Ends, Succeeds, Refused
<1>1. CASE TakeSlot(r) /\ busy < VerifySlots
  <2>1. pc[r] = "slot" /\ pc' = [pc EXCEPT ![r] = "verify"] /\ busy' = busy + 1
    BY <1>1 DEF TakeSlot
  <2>2. Holders' = Holders \union {r} /\ r \notin Holders
    BY <2>1 DEF Types, Holders, Verifying
  <2> QED
    BY <2>1, <2>2, FiniteParts, FS_AddElement
<1>2. CASE VerifyRefuses(r) \/ CommitFails(r) \/ Clear(r)
  <2>1. pc[r] \in Verifying /\ pc' = [pc EXCEPT ![r] = "record"] /\ busy' = busy - 1
    BY <1>2 DEF VerifyRefuses, CommitFails, Clear, Release, Verifying
  <2>2. Holders' = Holders \ {r} /\ r \in Holders
    BY <2>1 DEF Types, Holders, Verifying
  <2> QED
    BY <2>1, <2>2, FiniteParts, FS_RemoveElement
<1>3. CASE Verify(r) \/ Commit(r)
  <2>1. /\ pc[r] \in Verifying /\ busy' = busy
        /\ pc' = [pc EXCEPT ![r] = "commit"] \/ pc' = [pc EXCEPT ![r] = "clear"]
    BY <1>3 DEF Verify, Commit, Verifying, tables
  <2>2. Holders' = Holders
    BY <2>1 DEF Types, Holders, Verifying
  <2> QED
    BY <2>1, <2>2
<1>4. ASSUME pc[r] \notin Verifying, busy' = busy,
             NEW next \in PCs \ Verifying, pc' = [pc EXCEPT ![r] = next]
      PROVE  busy' = Cardinality(Holders')
  <2>1. Holders' = Holders
    BY <1>4 DEF Types, Holders
  <2> QED
    BY <1>4, <2>1
<1>5. CASE Coming(r) \/ Start(r) \/ StartFails(r) \/ Check(r) \/ CheckRefuses(r) \/ Allow(r)
           \/ AllowRefuses(r)
  <2>1. /\ pc[r] \in {"new", "start", "check", "allow"} /\ busy' = busy
        /\ \E next \in {"start", "check", "answer", "record", "allow", "revoke", "act", "slot"} :
             pc' = [pc EXCEPT ![r] = next]
    BY <1>5 DEF Coming, Arrive, Start, StartFails, Check, CheckRefuses, Allow, AllowRefuses,
       tables, Types, Kinds
  <2> QED
    BY <1>4, <2>1 DEF Verifying, PCs
<1>6. CASE (TakeSlot(r) /\ ~(busy < VerifySlots)) \/ Act(r) \/ Revoke(r) \/ RevokeFails(r)
           \/ Record(r) \/ RecordFails(r) \/ Answer(r)
  <2>1. /\ pc[r] \in {"slot", "act", "revoke", "record", "answer"} /\ busy' = busy
        /\ \E next \in {"record", "answer", "end"} : pc' = [pc EXCEPT ![r] = next]
    BY <1>6 DEF TakeSlot, Act, Revoke, RevokeFails, Record, RecordFails, Answer, tables
  <2> QED
    BY <1>4, <2>1 DEF Verifying, PCs
<1> QED
  BY <1>1, <1>2, <1>3, <1>5, <1>6 DEF Step

\* The sessions: a login keeps one less than the limit beside its own.
LEMMA SessionStep ==
  ASSUME AccessInv, NEW r \in Requests, Step(r) \/ Coming(r)
  PROVE  Cardinality(sessions') <= SessionLimit
<1>0. Types /\ Counts
  BY DEF AccessInv
<1>1. CASE Commit(r)
  <2>1. PICK kept \in SUBSET (sessions \ expired) :
             Newest(kept, sessions \ expired) /\ sessions' = kept \union {r}
    BY <1>1 DEF Commit
  <2>2. IsFiniteSet(sessions \ expired) /\ IsFiniteSet(kept)
    BY <1>0, <2>1, FiniteParts, FS_Subset
  <2>3. Cardinality(kept) \in Nat /\ Cardinality(sessions \ expired) \in Nat
    BY <2>2, FS_CardinalityType
  <2>4. Cardinality(kept) < SessionLimit
    BY <2>1, <2>3, AccessAssumption DEF Newest
  <2>5. Cardinality(kept \union {r}) <= Cardinality(kept) + 1
    <3>1. \/ Cardinality(kept \union {r}) = Cardinality(kept)
          \/ Cardinality(kept \union {r}) = Cardinality(kept) + 1
      BY <2>2, FS_AddElement
    <3> QED
      BY <2>3, <3>1
  <2>6. Cardinality(kept \union {r}) \in Nat
    BY <2>2, FS_AddElement, FS_CardinalityType
  <2> QED
    BY <2>1, <2>3, <2>4, <2>5, <2>6, AccessAssumption
<1>2. CASE ~Commit(r)
  <2>1. sessions' \in SUBSET sessions
    BY <1>2 DEF Step, Coming, Arrive, Start, StartFails, Check, CheckRefuses, Allow, AllowRefuses,
       TakeSlot, Verify, VerifyRefuses, CommitFails, Clear, Act, Revoke, RevokeFails, Record,
       RecordFails, Answer, stored
  <2>2. Cardinality(sessions') <= Cardinality(sessions) /\ Cardinality(sessions') \in Nat
    BY <1>0, <2>1, FiniteParts, FS_Subset, FS_CardinalityType
  <2> QED
    BY <1>0, <2>2, FiniteParts, AccessAssumption DEF Counts
<1> QED
  BY <1>1, <1>2

LEMMA OutsideCounts ==
  ASSUME AccessInv,
         Crash \/ (\E a \in Addresses : AttemptsExpire(a)) \/ (\E s \in Requests : SessionExpires(s))
  PROVE  Counts'
<1>0. Types /\ Counts
  BY DEF AccessInv
<1>1. CASE Crash
  <2>1. Holders' = {} /\ Entries' = {} /\ \A a \in Addresses : Charged(a)' = {}
    BY <1>0, <1>1 DEF Crash, Holders, Entries, Charged, Verifying
  <2>2. sessions' = sessions /\ busy' = 0 /\ \A a \in Addresses : attempts'[a] = 0
    BY <1>1 DEF Crash, stored
  <2> QED
    BY <1>0, <2>1, <2>2, FS_EmptySet, AccessAssumption DEF Counts
<1>2. ASSUME NEW a \in Addresses, AttemptsExpire(a)
      PROVE  Counts'
  <2>0. Forget(a) /\ UNCHANGED <<pc, req, busy, sessions>>
    BY <1>2 DEF AttemptsExpire, stored
  <2>1. Charged(a)' = {} /\ \A b \in Addresses \ {a} : Charged(b)' = Charged(b)
    BY <2>0 DEF Charged, Forget
  <2>2. Entries' \in SUBSET Entries /\ Holders' = Holders
    BY <1>0, <2>0, AccessAssumption DEF Entries, Forget, Types, Holders
  <2>3. Cardinality(Entries') <= Cardinality(Entries) /\ Cardinality(Entries') \in Nat
    BY <1>0, <2>2, FiniteParts, FS_Subset, FS_CardinalityType
  <2>4. \A b \in Addresses : attempts'[b] = Cardinality(Charged(b)')
    BY <1>0, <2>0, <2>1, FS_EmptySet DEF Counts, Forget, Types
  <2> QED
    BY <1>0, <2>0, <2>2, <2>3, <2>4, FiniteParts, AccessAssumption DEF Counts
<1>3. ASSUME NEW s \in Requests, SessionExpires(s)
      PROVE  Counts'
  BY <1>0, <1>3 DEF SessionExpires, Counts, Charged, Holders, Entries, tables
<1> QED
  BY <1>1, <1>2, <1>3

-----------------------------------------------------------------------------
\* What the log says, and what a logout means.

\* The others' part of the shared state does not change.
LEMMA OthersPlaced ==
  ASSUME Types, NEW r \in Requests, NEW q \in Requests \ {r}, Placed(q),
         pc'[q] = pc[q], req'[q] = req[q],
         q \in counted' => q \in counted, q \in done' <=> q \in done,
         \A x : <<q, x>> \in log' <=> <<q, x>> \in log
  PROVE  Placed(q)'
BY DEF Placed

LEMMA StepPlaced ==
  ASSUME AccessInv, NEW r \in Requests, Step(r) \/ Coming(r), NEW q \in Requests
  PROVE  Placed(q)'
<1>0. Types /\ Placed(q) /\ Placed(r)
  BY DEF AccessInv
<1> USE <1>0 DEF tables, stored, Goes, Ends, Succeeds, Refused
<1>1. CASE q # r
  <2>1. pc'[q] = pc[q] /\ req'[q] = req[q]
    <3>1. CASE Step(r)
      BY <1>1, <3>1, StepFrame DEF Frame
    <3>2. CASE Coming(r)
      BY <1>1, <3>2 DEF Coming, Arrive, Types
    <3> QED
      BY <3>1, <3>2
  <2>2. /\ counted' \subseteq counted \union {r}
        /\ done' \in {done, done \union {r}}
        /\ log' = log \/ \E x : log' = log \union {<<r, x>>}
    BY DEF Step, Coming, Arrive, Start, StartFails, Check, CheckRefuses, Allow, AllowRefuses,
       TakeSlot, Verify, VerifyRefuses, Commit, CommitFails, Clear, Forget, Act, Revoke,
       RevokeFails, Record, RecordFails, Answer
  <2> QED
    BY <1>1, <2>1, <2>2, OthersPlaced
<1>2. CASE q = r
  <2>1. CASE Coming(r)
    BY <1>2, <2>1 DEF Coming, Arrive, Placed, Types, Logging, Verifying
  <2>2. CASE Start(r) \/ StartFails(r)
    BY <1>2, <2>2 DEF Start, StartFails, Placed, Types, Logging, Verifying
  <2>3. CASE Check(r)
    <3>1. /\ pc[r] = "check" /\ UNCHANGED <<counted, log, done, req>>
          /\ pc'[r] \in {"allow", "revoke", "act"} /\ (pc'[r] = "allow" => req[r].kind = "login")
      BY <2>3 DEF Check, Types, Kinds
    <3>2. req[r].kind = "login" => req[r].from \in Addresses
      BY <3>1 DEF Placed
    <3> QED
      BY <1>2, <3>1, <3>2 DEF Placed, Logging, Verifying
  <2>4. CASE CheckRefuses(r)
    BY <1>2, <2>4 DEF CheckRefuses, Placed, Types, Logging, Verifying
  <2>5. CASE Allow(r) \/ AllowRefuses(r)
    BY <1>2, <2>5 DEF Allow, AllowRefuses, Placed, Types, Logging, Verifying
  <2>6. CASE TakeSlot(r) \/ Verify(r) \/ VerifyRefuses(r)
    BY <1>2, <2>6 DEF TakeSlot, Verify, VerifyRefuses, Placed, Types, Logging, Verifying
  <2>7. CASE Commit(r) \/ CommitFails(r)
    BY <1>2, <2>7 DEF Commit, CommitFails, Placed, Types, Logging, Verifying
  <2>8. CASE Clear(r)
    BY <1>2, <2>8 DEF Clear, Forget, Placed, Types, Logging, Verifying
  <2>9. CASE Act(r)
    BY <1>2, <2>9 DEF Act, Placed, Types, Logging, Verifying
  <2>10. CASE Revoke(r) \/ RevokeFails(r)
    BY <1>2, <2>10 DEF Revoke, RevokeFails, Placed, Types, Logging, Verifying
  <2>11. CASE Record(r) \/ RecordFails(r)
    BY <1>2, <2>11 DEF Record, RecordFails, Placed, Types, Logging, Verifying
  <2>12. CASE Answer(r)
    BY <1>2, <2>12 DEF Answer, Placed, Types, Logging, Verifying
  <2> QED
    BY <2>1, <2>2, <2>3, <2>4, <2>5, <2>6, <2>7, <2>8, <2>9, <2>10, <2>11, <2>12 DEF Step
<1> QED
  BY <1>1, <1>2

\* A cookie that was handed out stays so: its request is over.
LEMMA HandedStays ==
  ASSUME Types, NEW r \in Requests, Step(r) \/ Coming(r), NEW c \in Requests, Handed(c)
  PROVE  Handed(c)' /\ c # r
<1>1. c # r
  BY DEF Handed, Step, Coming, Arrive, Start, StartFails, Check, CheckRefuses, Allow, AllowRefuses,
     TakeSlot, Verify, VerifyRefuses, Commit, CommitFails, Clear, Act, Revoke, RevokeFails, Record,
     RecordFails, Answer
<1>2. pc'[c] = pc[c] /\ req'[c] = req[c]
  <2>1. CASE Step(r)
    BY <1>1, <2>1, StepFrame DEF Frame
  <2>2. CASE Coming(r)
    BY <1>1, <2>2 DEF Coming, Arrive, Goes, Types
  <2> QED
    BY <2>1, <2>2
<1> QED
  BY <1>1, <1>2 DEF Handed

\* The rows only shrink, but for the row of the login itself.
LEMMA RowsStay ==
  ASSUME Types, NEW r \in Requests, Step(r) \/ Coming(r)
  PROVE  sessions' \subseteq sessions \union {r}
BY DEF Step, Coming, Arrive, Start, StartFails, Check, CheckRefuses, Allow, AllowRefuses,
   TakeSlot, Verify, VerifyRefuses, Commit, CommitFails, Clear, Act, Revoke, RevokeFails, Record,
   RecordFails, Answer, stored

LEMMA StepFinal ==
  ASSUME AccessInv, NEW r \in Requests, Step(r) \/ Coming(r), NEW q \in Requests
  PROVE  Final(q)'
<1>0. Types /\ Final(q) /\ Final(r) /\ Placed(r)
  BY DEF AccessInv
<1>a. sessions' \subseteq sessions \union {r}
  BY <1>0, RowsStay
<1>b. \A c \in Requests : Handed(c) => Handed(c)' /\ c # r
  BY <1>0, HandedStays
<1> USE <1>0
<1>1. CASE q # r
  <2>1. pc'[q] = pc[q] /\ req'[q] = req[q]
    <3>1. CASE Step(r)
      BY <1>1, <3>1, StepFrame DEF Frame
    <3>2. CASE Coming(r)
      BY <1>1, <3>2 DEF Coming, Arrive, Goes, Types
    <3> QED
      BY <3>1, <3>2
  <2>2. done' \subseteq done \union {r}
    BY DEF Step, Coming, Arrive, Start, StartFails, Check, CheckRefuses, Allow, AllowRefuses,
       TakeSlot, Verify, VerifyRefuses, Commit, CommitFails, Clear, Act, Revoke, RevokeFails,
       Record, RecordFails, Answer
  <2>3. req[q].late => pc[q] # "new"
    BY DEF Final
  <2>4. req[q].cookie \in Requests /\ pc[q] # "new" => Handed(req[q].cookie)
    BY DEF Final
  <2>5. pc[q] # "new" /\ req[q].cookie \in Requests => Handed(req[q].cookie)'
    <3> SUFFICES ASSUME pc[q] # "new", req[q].cookie \in Requests
                 PROVE  Handed(req[q].cookie)'
      OBVIOUS
    <3>1. PICK c \in Requests : c = req[q].cookie
      OBVIOUS
    <3>2. Handed(c)'
      BY <1>b, <2>4, <3>1
    <3> QED
      BY <2>1, <3>1, <3>2 DEF Handed
  <2>6. req[q].cookie \in Requests /\ pc[q] # "new" /\ req[q].cookie \notin sessions =>
          req[q].cookie \notin sessions'
    BY <1>a, <1>b, <2>4
  <2>7. req[q].kind = "logout" /\ req[q].outcome = "success"
        /\ pc[q] \in {"record", "answer", "end"} => req[q].cookie \in Requests \ sessions'
    BY <1>a, <1>b, <2>1, <2>4 DEF Final, Types, Step
  <2>8. (req'[q].late => /\ pc'[q] \in {"start", "check", "record", "answer", "end", "lost"}
                        /\ req'[q].cookie \notin sessions' /\ req'[q].cookie \in Requests
                        /\ q \notin done')
    BY <1>1, <2>1, <2>2, <2>3, <2>6 DEF Final
  <2> QED
    BY <2>1, <2>5, <2>7, <2>8 DEF Final
<1>2. CASE q = r /\ Coming(r)
  <2>1. PICK kind \in Kinds, from \in Addresses \union {Nowhere},
             cookie \in Requests \union {Nowhere} : Arrive(r, kind, from, cookie)
    BY <1>2 DEF Coming
  <2>2. /\ pc'[r] = "start" /\ pc[r] = "new" /\ req'[r].cookie = cookie
        /\ req'[r].late = LogoutAnswered(cookie) /\ req'[r].outcome = "none"
        /\ req'[r].kind = kind /\ (kind = "login" => cookie = Nowhere)
        /\ UNCHANGED <<sessions, done>>
    BY <2>1 DEF Arrive, Goes, Types, stored
  <2>3. cookie \in Requests => Handed(cookie)
    BY <2>1, AccessAssumption DEF Arrive
  <2>4. LogoutAnswered(cookie) => cookie \in Requests /\ cookie \notin sessions
    <3> SUFFICES ASSUME NEW l \in Requests, pc[l] = "end", req[l].outcome = "success",
                        req[l].kind = "logout", req[l].cookie = cookie
                 PROVE  cookie \in Requests /\ cookie \notin sessions
      BY DEF LogoutAnswered
    <3>1. Final(l)
      BY DEF AccessInv
    <3> QED
      BY <3>1 DEF Final
  <2>5. r \notin done
    BY <2>2 DEF Final, Placed, Types, AccessInv
  <2> QED
    BY <1>2, <1>b, <2>2, <2>3, <2>4, <2>5 DEF Final
<1>3. CASE q = r /\ Step(r)
  \* What r is stays; only Check, Commit and Revoke have anything to show.
  <2>1. /\ req'[r].kind = req[r].kind /\ req'[r].cookie = req[r].cookie
        /\ req'[r].late = req[r].late /\ pc[r] # "new"
    BY <1>3, StepFrame DEF Frame, Step, Start, StartFails, Check, CheckRefuses, Allow,
       AllowRefuses, TakeSlot, Verify, VerifyRefuses, Commit, CommitFails, Clear, Act, Revoke,
       RevokeFails, Record, RecordFails, Answer, Verifying
  <2>2. req'[r].cookie \in Requests => Handed(req[r].cookie)'
    <3> SUFFICES ASSUME req[r].cookie \in Requests
                 PROVE  Handed(req[r].cookie)'
      BY <2>1
    <3>1. PICK c \in Requests : c = req[r].cookie
      OBVIOUS
    <3>2. Handed(c)'
      BY <1>b, <2>1, <3>1 DEF Final
    <3> QED
      BY <2>1, <3>1, <3>2 DEF Handed
  <2>3. req[r].cookie \in Requests => req[r].cookie # r
    BY <1>b, <2>1 DEF Final
  <2>4. CASE Check(r)
    <3>1. /\ pc[r] = "check" /\ UNCHANGED <<sessions, done, req>>
          /\ req[r].kind # "login" => req[r].cookie \in sessions
          /\ req[r].kind = "login" => pc'[r] = "allow"
          /\ req[r].kind = "logout" => pc'[r] = "revoke"
          /\ req[r].kind = "action" => pc'[r] = "act"
      BY <2>4 DEF Check, Live, Goes, Types, stored
    <3>2. req[r].kind \in {"login", "logout", "action"}
      BY DEF Types, Kinds
    <3> QED
      BY <1>3, <2>2, <3>1, <3>2, AccessAssumption DEF Final, Types
  <2>5. CASE Revoke(r)
    <3>1. /\ pc[r] = "revoke" /\ pc'[r] = "record" /\ sessions' = sessions \ {req[r].cookie}
      BY <2>5 DEF Revoke, Succeeds, Ends, Goes, Types
    <3> QED
      BY <1>3, <2>1, <2>2, <3>1 DEF Final
  <2>6. CASE Act(r)
    <3>1. pc[r] = "act" /\ pc'[r] = "record" /\ sessions' = sessions
      BY <2>6 DEF Act, Succeeds, Refused, Ends, Goes, Types, stored
    <3> QED
      BY <1>3, <2>1, <2>2, <3>1 DEF Final
  <2>7. CASE Allow(r) \/ AllowRefuses(r) \/ TakeSlot(r) \/ Verify(r) \/ VerifyRefuses(r)
             \/ Commit(r) \/ CommitFails(r) \/ Clear(r)
    <3>1. /\ pc[r] \in Logging
          /\ pc'[r] \in Logging \union {"record"}
      BY <2>7 DEF Allow, AllowRefuses, TakeSlot, Verify, VerifyRefuses, Commit, CommitFails,
         Clear, Succeeds, Refused, Ends, Goes, Types, Logging, Verifying
    <3>2. req[r].kind = "login" /\ ~req[r].late
      BY <3>1 DEF Placed, Final, Logging, Verifying, Types
    <3> QED
      BY <1>3, <2>1, <2>2, <3>1, <3>2 DEF Final, Logging, Verifying, Types
  <2>8. CASE Start(r) \/ StartFails(r) \/ CheckRefuses(r) \/ RevokeFails(r)
    <3>1. /\ pc[r] \in {"start", "check", "revoke"} /\ UNCHANGED <<sessions, done>>
          /\ \/ pc'[r] = "check"
             \/ pc'[r] \in {"answer", "record"} /\ req'[r].outcome \in {"failed", "unavailable"}
      BY <2>8 DEF Start, StartFails, CheckRefuses, RevokeFails, Refused, Ends, Goes, Types, stored
    <3> QED
      BY <1>3, <2>1, <2>2, <3>1 DEF Final
  <2>9. CASE Record(r) \/ RecordFails(r) \/ Answer(r)
    <3>1. /\ pc[r] \in {"record", "answer"} /\ UNCHANGED <<sessions, done>>
          /\ pc'[r] \in {"answer", "end"}
          /\ req'[r].outcome = req[r].outcome \/ req'[r].outcome = "incomplete"
      BY <2>9 DEF Record, RecordFails, Answer, Ends, Goes, Types, stored
    <3> QED
      BY <1>3, <2>1, <2>2, <3>1 DEF Final
  <2> QED
    BY <1>3, <2>4, <2>5, <2>6, <2>7, <2>8, <2>9 DEF Step
<1> QED
  BY <1>1, <1>2, <1>3

LEMMA OutsidePlaced ==
  ASSUME AccessInv,
         Crash \/ (\E a \in Addresses : AttemptsExpire(a)) \/ (\E s \in Requests : SessionExpires(s)),
         NEW q \in Requests
  PROVE  Placed(q)' /\ Final(q)'
<1>0. Types /\ Placed(q) /\ Final(q)
  BY DEF AccessInv
<1>1. CASE Crash
  <2>1. /\ UNCHANGED <<sessions, log, done, req>> /\ counted' = {}
        /\ pc[q] \in {"new", "end"} => pc'[q] = pc[q]
        /\ pc[q] \notin {"new", "end"} => pc'[q] = "lost"
    BY <1>0, <1>1 DEF Crash, Types, stored
  <2>2. Placed(q)'
    BY <1>0, <2>1 DEF Placed, Logging, Verifying
  <2>3. \A c \in Requests : Handed(c) => Handed(c)'
    BY <1>0, <1>1 DEF Crash, Handed
  <2>4. pc'[q] # "new" /\ req[q].cookie \in Requests => Handed(req[q].cookie)'
    <3> SUFFICES ASSUME pc'[q] # "new", req[q].cookie \in Requests
                 PROVE  Handed(req[q].cookie)'
      OBVIOUS
    <3>1. PICK c \in Requests : c = req[q].cookie
      OBVIOUS
    <3>2. Handed(c)'
      BY <1>0, <2>1, <2>3, <3>1 DEF Final
    <3> QED
      BY <2>1, <3>1, <3>2 DEF Handed
  <2> QED
    BY <1>0, <2>1, <2>2, <2>4 DEF Final
<1>2. ASSUME NEW a \in Addresses, AttemptsExpire(a)
      PROVE  Placed(q)' /\ Final(q)'
  BY <1>0, <1>2 DEF AttemptsExpire, Forget, Placed, Final, Handed, stored
<1>3. ASSUME NEW s \in Requests, SessionExpires(s)
      PROVE  Placed(q)' /\ Final(q)'
  BY <1>0, <1>3 DEF SessionExpires, Placed, Final, Handed, tables
<1> QED
  BY <1>1, <1>2, <1>3

-----------------------------------------------------------------------------
LEMMA NextInv ==
  ASSUME AccessInv, Next
  PROVE  AccessInv'
<1>1. ASSUME NEW r \in Requests, Step(r) \/ Coming(r)
      PROVE  AccessInv'
  <2>1. Counts'
    BY <1>1, AccountStep, SlotStep, SessionStep DEF Counts
  <2> QED
    BY <1>1, <2>1, StepTypes, StepPlaced, StepFinal DEF AccessInv
<1>2. CASE Crash \/ (\E a \in Addresses : AttemptsExpire(a)) \/ (\E s \in Requests : SessionExpires(s))
  BY <1>2, OutsideTypes, OutsideCounts, OutsidePlaced DEF AccessInv
<1> QED
  BY <1>1, <1>2 DEF Next, Coming

LEMMA StutterInv ==
  ASSUME AccessInv, UNCHANGED vars
  PROVE  AccessInv'
BY DEF AccessInv, Types, Counts, Charged, Holders, Entries, Placed, Final, Handed, vars

\* The inductive invariant: the counts are the requests they stand for, and each
\* request's step says what is in the log and in the table of sessions.
THEOREM Invariant == Spec => []AccessInv
<1>1. AccessInv /\ [Next]_vars => AccessInv'
  BY NextInv, StutterInv
<1> QED
  BY InitInv, <1>1, PTL DEF Spec

\* Types and the limits of both tables.
THEOREM TypesHold == Spec => []TypeOK
  BY Invariant, InvParts, PTL

\* No interleaving of logins verifies more passwords than the limit (allow).
THEOREM GuessesAreLimited == Spec => []GuessLimit
  BY Invariant, InvParts, PTL

\* Every way out of Login gives its slot back.
THEOREM SlotsAreReturned == Spec => []SlotsReturned
  BY Invariant, InvParts, PTL

\* Nothing is done without a record that it was started (audit).
THEOREM EverythingIsRecorded == Spec => []NothingUnrecorded
  BY Invariant, InvParts, PTL

\* What a response says is in the log, and a recorded success is real (audit).
THEOREM AnswersAreRecorded == Spec => []AnsweredIsRecorded
  BY Invariant, InvParts, PTL

\* After a logout was answered, its session does nothing more (Auth.Logout).
THEOREM LogoutHolds == Spec => []LogoutIsFinal
  BY Invariant, InvParts, PTL
=============================================================================
