------------------------ MODULE PermitWorkflowProofs ------------------------
(***************************************************************************)
(* What holds of an application for any officers, meetings, members,       *)
(* appeals and stages.  The invariant says what a request that has read    *)
(* may still rely on when it writes, and ties the present state of the     *)
(* committee and of the site to their history.                             *)
(***************************************************************************)
EXTENDS PermitWorkflow, FiniteSetTheorems, TLAPS

Gated == {"status", "gate", "decide", "return"}

\* What a gated request will write is lawful from the status it has read, and is
\* never the first status.
RequestsAreLawful ==
    \A u \in Users : req[u].op \in Gated =>
        /\ Override(u, req[u].basis) \/ CanTransition(req[u].from, req[u].to)
        /\ req[u].op = "gate" => ~Override(u, req[u].basis)
        /\ req[u].to # "pending_payment"

\* What a request does to decide the application it may; one that issues the
\* certificate has issued it.
RequestsAreBacked ==
    \A u \in Users :
        /\ req[u].op \in {"status", "decide", "return"} /\ req[u].to \in Decided
           => req[u].basis = "return" \/ Backed(req[u].basis)
        /\ req[u].op = "approve" => certified

\* An outcome about to be recorded was found quorate.
OutcomesAreQuorate ==
    \A u \in Users, m \in Meetings :
        req[u].op = "outcome" /\ req[u].on = m => m \in quorate

\* A certificate about to be issued was found built.
CertifiersSawIt == \A u \in Users : req[u].op \in {"certify", "approve"} => built

\* No screen is ahead of the row.
ScreensInPast == \A u \in Users : seen[u] <= revision

\* The present is part of the history.
PresentIsRemembered ==
    /\ \A m \in Meetings : meeting[m].state # "none" /\ IsQuorate(m) => m \in quorate
    /\ \A m \in Meetings : /\ item[m].state = "live" /\ meeting[m].state = "live"
                           /\ item[m].outcome = "recorded" /\ item[m].resolved
                           => m \in heard
    /\ passed = 1..NumStages => built

IInv ==
    /\ TypeOK
    /\ RequestsAreLawful
    /\ RequestsAreBacked
    /\ OutcomesAreQuorate
    /\ CertifiersSawIt
    /\ ScreensInPast
    /\ PresentIsRemembered
    /\ CurrentScreenMissedNoSave
    /\ OutcomeWasQuorate
    /\ GatedDeterminationIsBacked
    /\ CertifiedWasBuilt

USE StagesAssumption, RoleAssumption, MembersAssumption, TargetsAssumption

-----------------------------------------------------------------------------
\* A decided application can only be appealed.
LEMMA DecidedOnlyAppealed ==
  \A s \in Decided, to \in Statuses :
     CanTransition(s, to) => to = s \/ to = "appealed"
  BY DEF CanTransition, Transitions, Decided, Statuses

\* Quorums are compared with numbers.
LEMMA PresentCounted ==
  ASSUME NEW P \in SUBSET Members PROVE Cardinality(P) \in Nat
  BY FS_Subset, FS_CardinalityType

\* Nothing has been asked or heard when the application is lodged.
LEMMA InitInv == Init => IInv
<1> SUFFICES ASSUME Init PROVE IInv
  OBVIOUS
<1>1. TypeOK
  BY DEF Init, TypeOK, Statuses, Decided, NoRequest, Request, Requests, Ops, Bases, Subjects,
     MeetingStates, ItemStates, Item, AppealStates
<1>2. /\ RequestsAreLawful /\ RequestsAreBacked /\ OutcomesAreQuorate
      /\ CertifiersSawIt
  BY DEF Init, RequestsAreLawful, RequestsAreBacked, OutcomesAreQuorate, CertifiersSawIt,
     NoRequest, Request, Gated
<1>3. ScreensInPast /\ CurrentScreenMissedNoSave
  BY DEF Init, ScreensInPast, CurrentScreenMissedNoSave
<1>4. PresentIsRemembered /\ OutcomeWasQuorate
  BY DEF Init, PresentIsRemembered, OutcomeWasQuorate, Item
<1>5. GatedDeterminationIsBacked /\ CertifiedWasBuilt
  BY DEF Init, GatedDeterminationIsBacked, CertifiedWasBuilt, Decided
<1> QED BY <1>1, <1>2, <1>3, <1>4, <1>5 DEF IInv

-----------------------------------------------------------------------------
(* Requests. *)

\* What a request must satisfy when it is made, or has moved on.
Sound(u, r) ==
    /\ r \in Requests
    /\ r.op \in Gated =>
         /\ Override(u, r.basis) \/ CanTransition(r.from, r.to)
         /\ r.op = "gate" => ~Override(u, r.basis)
         /\ r.to # "pending_payment"
    /\ r.op \in {"status", "decide", "return"} /\ r.to \in Decided
       => r.basis = "return" \/ Backed(r.basis)
    /\ r.op = "outcome" => \A m \in Meetings : r.on = m => m \in quorate
    /\ r.op \in {"certify", "approve"} => built

\* Every request under way does, and so does one that has ended.
LEMMA RequestsSound ==
  ASSUME IInv, NEW u \in Users
  PROVE  Sound(u, req[u]) /\ Sound(u, NoRequest)
<1>1. Sound(u, req[u])
  BY DEF IInv, TypeOK, Sound, RequestsAreLawful, RequestsAreBacked, OutcomesAreQuorate,
     CertifiersSawIt
<1>2. NoRequest \in Requests
  BY DEF NoRequest, Request, Requests, Ops, Statuses, Bases, Subjects, Decided
<1>3. NoRequest.op = "none" /\ NoRequest.basis = "none"
  BY DEF NoRequest, Request
<1>4. Sound(u, NoRequest)
  BY <1>2, <1>3 DEF Sound, Gated
<1> QED BY <1>1, <1>4

\* History only grows.
HistoryGrows ==
    /\ heard \subseteq heard' /\ quorate \subseteq quorate'
    /\ (built => built') /\ (certified => certified')

\* So a sound request stays sound while others make theirs.
LEMMA RequestsKept ==
  ASSUME IInv, NEW u \in Users, NEW r, Sound(u, r), Then(u, r), HistoryGrows,
         r.op = "approve" => certified'
  PROVE  /\ req' \in [Users -> Requests]
         /\ RequestsAreLawful' /\ RequestsAreBacked' /\ OutcomesAreQuorate'
         /\ CertifiersSawIt'
<1>1. \A v \in Users : req'[v] = IF v = u THEN r ELSE req[v]
  BY DEF Then, IInv, TypeOK
<1>2. req' \in [Users -> Requests]
  BY DEF Then, IInv, TypeOK, Sound
<1>3. RequestsAreLawful'
  BY <1>1 DEF IInv, RequestsAreLawful, Sound, Override, CanTransition
<1>4. RequestsAreBacked'
  BY <1>1 DEF IInv, RequestsAreBacked, Sound, Backed, HistoryGrows
<1>5. OutcomesAreQuorate'
  BY <1>1 DEF IInv, OutcomesAreQuorate, Sound, HistoryGrows
<1>6. CertifiersSawIt'
  BY <1>1 DEF IInv, CertifiersSawIt, Sound, HistoryGrows
<1> QED BY <1>2, <1>3, <1>4, <1>5, <1>6

\* A step that only moves requests and appeals leaves everything else true.
Asks(u, r) ==
    /\ Sound(u, r)
    /\ r.op = "approve" => certified
    /\ Then(u, r)
    /\ appeal' \in [Appeals -> AppealStates]
    /\ UNCHANGED <<caseFile, committee, site>>

\* What such a step leaves true.
LEMMA AsksKeeps == ASSUME IInv, NEW u \in Users, NEW r, Asks(u, r) PROVE IInv'
<1> USE DEF Asks, caseFile, committee, site
<1>1. /\ req' \in [Users -> Requests]
      /\ RequestsAreLawful' /\ RequestsAreBacked' /\ OutcomesAreQuorate'
      /\ CertifiersSawIt'
  <2>1. HistoryGrows
    BY DEF HistoryGrows
  <2> QED BY <2>1, RequestsKept
<1>2. TypeOK'
  BY <1>1 DEF IInv, TypeOK
<1>3. ScreensInPast' /\ CurrentScreenMissedNoSave'
  BY DEF IInv, ScreensInPast, CurrentScreenMissedNoSave
<1>4. PresentIsRemembered' /\ OutcomeWasQuorate'
  BY DEF IInv, PresentIsRemembered, OutcomeWasQuorate, IsQuorate
<1>5. GatedDeterminationIsBacked' /\ CertifiedWasBuilt'
  BY DEF IInv, GatedDeterminationIsBacked, Backed, CertifiedWasBuilt
<1> QED BY <1>1, <1>2, <1>3, <1>4, <1>5 DEF IInv

\* The reads: what they find is lawful, quorate, built or backed.
LEMMA ReadInv ==
  ASSUME IInv, NEW u \in Users,
         \/ Abandon(u)
         \/ \E to \in Requestable, b \in {"none", "override"} : StatusRead(u, to, b)
         \/ \E to \in Decided \intersect Targets, b \in {"none", "delegated", "override"} :
              DecideRead(u, to, b)
         \/ CommitteeGate(u)
         \/ \E to \in Requestable, b \in {"none", "override"} : ReturnRead(u, to, b)
         \/ \E m \in Meetings : OutcomeRead(u, m)
         \/ CertifyRead(u)
         \/ \E a \in Appeals : LodgeRead(u, a)
  PROVE  IInv'
<1> USE DEF Asks, Requests, Request, Ops, Bases, Subjects, Gated
<1>0. status \in Statuses /\ appeal \in [Appeals -> AppealStates]
      /\ Targets \subseteq Statuses
  BY DEF IInv, TypeOK
<1>1. CASE Abandon(u)
  BY <1>0, <1>1, RequestsSound, AsksKeeps DEF Abandon, GiveUp, Answer, NoRequest
<1>2. ASSUME NEW to \in Requestable, NEW b \in {"none", "override"}, StatusRead(u, to, b)
      PROVE  IInv'
  <2>1. Asks(u, Request("status", status, to, b, "case"))
    BY <1>0, <1>2 DEF StatusRead, Sound, Lawful, Requestable, Backed, Override
  <2> QED BY <2>1, AsksKeeps
<1>3. ASSUME NEW to \in Decided \intersect Targets,
             NEW b \in {"none", "delegated", "override"}, DecideRead(u, to, b)
      PROVE  IInv'
  <2> DEFINE op == IF b = "delegated" \/ Override(u, b) THEN "decide" ELSE "gate"
  <2>1. Asks(u, Request(op, status, to, b, "case"))
    BY <1>0, <1>3 DEF DecideRead, Sound, Lawful, Decided, Backed, Override
  <2> QED BY <2>1, AsksKeeps
<1>4. CASE CommitteeGate(u)
  <2>1. heard \intersect quorate # {}
    <3>1. PICK m \in Meetings : /\ item[m].state = "live" /\ item[m].outcome # "pending"
                                /\ item[m].resolved /\ meeting[m].state = "live"
      BY <1>4 DEF CommitteeGate, HasCommitteeResolution
    <3>2. item[m].outcome = "recorded"
      BY <3>1 DEF IInv, TypeOK, ItemStates
    <3>3. m \in heard /\ m \in quorate
      BY <3>1, <3>2 DEF IInv, PresentIsRemembered, OutcomeWasQuorate
    <3> QED BY <3>3
  <2>2. /\ req[u].from \in Statuses /\ req[u].to \in Statuses \ {"pending_payment"}
        /\ CanTransition(req[u].from, req[u].to)
    BY <1>4 DEF CommitteeGate, Ready, IInv, TypeOK, RequestsAreLawful
  <2>3. Asks(u, Request("decide", req[u].from, req[u].to, "committee", "case"))
    BY <1>0, <1>4, <2>1, <2>2 DEF CommitteeGate, Sound, Backed
  <2> QED BY <2>3, AsksKeeps
<1>5. ASSUME NEW to \in Requestable, NEW b \in {"none", "override"}, ReturnRead(u, to, b)
      PROVE  IInv'
  <2>1. Asks(u, Request("return", status, to, IF Override(u, b) THEN b ELSE "return", "case"))
    BY <1>0, <1>5 DEF ReturnRead, Sound, Lawful, Requestable, Backed, Override
  <2> QED BY <2>1, AsksKeeps
<1>6. ASSUME NEW m \in Meetings, OutcomeRead(u, m) PROVE IInv'
  <2>1. m \in quorate
    BY <1>6 DEF OutcomeRead, IInv, PresentIsRemembered
  <2>2. Asks(u, Request("outcome", status, status, "none", m))
    BY <1>0, <1>6, <2>1 DEF OutcomeRead, Sound
  <2> QED BY <2>2, AsksKeeps
<1>7. CASE CertifyRead(u)
  <2>1. built
    BY <1>7 DEF CertifyRead, AllPassed, IInv, PresentIsRemembered, TypeOK
  <2>2. Asks(u, Request("certify", status, "approved", "certificate", "case"))
    BY <1>0, <1>7, <2>1 DEF CertifyRead, Sound, Statuses, Decided
  <2> QED BY <2>2, AsksKeeps
<1>8. ASSUME NEW a \in Appeals, LodgeRead(u, a) PROVE IInv'
  <2>1. Asks(u, Request("lodge", status, "appealed", "none", a))
    BY <1>0, <1>8 DEF LodgeRead, Sound, Statuses
  <2> QED BY <2>1, AsksKeeps
<1> QED BY <1>1, <1>2, <1>3, <1>4, <1>5, <1>6, <1>7, <1>8

\* An appeal is inserted or decided.
LEMMA AppealInv ==
  ASSUME IInv, NEW u \in Users,
         LodgeInsert(u) \/ \E a \in Appeals, s \in AppealStates : AppealWrite(u, a, s)
  PROVE  IInv'
<1>0. appeal \in [Appeals -> AppealStates] /\ req[u] \in Requests /\ Sound(u, req[u])
      /\ req \in [Users -> Requests]
  BY RequestsSound DEF IInv, TypeOK
<1>1. CASE LodgeInsert(u)
  <2>1. Sound(u, [req[u] EXCEPT !.op = "mark"])
    BY <1>0 DEF Sound, Requests, Ops, Gated
  <2>2. Asks(u, [req[u] EXCEPT !.op = "mark"])
    BY <1>0, <1>1, <2>1 DEF LodgeInsert, Asks, AppealStates, Requests
  <2> QED BY <2>2, AsksKeeps
<1>2. ASSUME NEW a \in Appeals, NEW s \in AppealStates, AppealWrite(u, a, s) PROVE IInv'
  <2>1. CASE s = "remitted"
    <3>1. Sound(u, Request("remit", "appealed", "under_review", "none", a))
      BY DEF Sound, Request, Requests, Ops, Gated, Statuses, Bases, Subjects
    <3>2. Asks(u, Request("remit", "appealed", "under_review", "none", a))
      BY <1>0, <1>2, <2>1, <3>1 DEF AppealWrite, Asks, Request
    <3> QED BY <3>2, AsksKeeps
  <2>2. CASE s # "remitted"
    <3>1. Asks(u, req[u])
      BY <1>0, <1>2, <2>2 DEF AppealWrite, Asks, Then, IInv, RequestsAreBacked
    <3> QED BY <3>1, AsksKeeps
  <2> QED BY <2>1, <2>2
<1> QED BY <1>1, <1>2

-----------------------------------------------------------------------------
(* Writes of the application row. *)

\* A new status is one of the table's, and is backed if it says so.
LEMMA StatusSet ==
  ASSUME IInv, NEW to \in Statuses, NEW b \in Bases, SetStatus(to, b),
         to \in Decided => b \in {"return", "certificate"} \/ Backed(b),
         UNCHANGED <<heard, quorate, certified, built>>
  PROVE  status' \in Statuses /\ basis' \in Bases /\ GatedDeterminationIsBacked'
<1>1. status' = to /\ basis' \in {"none", basis, b}
  BY DEF SetStatus
<1>2. basis \in Bases /\ GatedDeterminationIsBacked
  BY DEF IInv, TypeOK
<1>3. basis' \in Bases
  BY <1>1, <1>2 DEF Bases
<1>4. GatedDeterminationIsBacked'
  BY <1>2 DEF SetStatus, GatedDeterminationIsBacked, Backed
<1> QED BY <1>1, <1>3, <1>4

\* A write of the row by u: it ends u's request, and bumps the revision if anything
\* was saved.
Writes(u) ==
    /\ Answer(u) \/ UNCHANGED req
    /\ status' \in Statuses /\ basis' \in Bases /\ GatedDeterminationIsBacked'
    /\ UNCHANGED <<committee, appeal, site>>
    /\ \/ UNCHANGED <<revision, seen, missed>>
       \/ /\ revision = seen[u] /\ revision' = revision + 1
          /\ seen' = [seen EXCEPT ![u] = revision + 1]
          /\ Outdate(u)
       \/ /\ UNCHANGED revision
          /\ seen' = [seen EXCEPT ![u] = revision]
          /\ missed' = missed \ {u}

\* What such a write leaves true.
LEMMA WritesKeeps == ASSUME IInv, NEW u \in Users, Writes(u) PROVE IInv'
<1> USE DEF Writes, committee, site
<1>0. /\ revision \in Nat /\ seen \in [Users -> Nat]
      /\ missed \subseteq Users
      /\ \A v \in Users : seen[v] <= revision
      /\ \A v \in Users : seen[v] = revision => v \notin missed
  BY DEF IInv, TypeOK, ScreensInPast, CurrentScreenMissedNoSave
<1>1. /\ req' \in [Users -> Requests]
      /\ RequestsAreLawful' /\ RequestsAreBacked' /\ OutcomesAreQuorate'
      /\ CertifiersSawIt'
  <2>1. HistoryGrows
    BY DEF HistoryGrows
  <2>2. CASE Answer(u)
    BY <2>1, <2>2, RequestsSound, RequestsKept DEF Answer, NoRequest, Request
  <2>3. CASE UNCHANGED req
    BY <2>3 DEF IInv, TypeOK, RequestsAreLawful, RequestsAreBacked, Backed, OutcomesAreQuorate,
       CertifiersSawIt, Override, CanTransition
  <2> QED BY <2>2, <2>3
<1>2. /\ revision' \in Nat /\ seen' \in [Users -> Nat]
      /\ missed' \subseteq Users
      /\ ScreensInPast' /\ CurrentScreenMissedNoSave'
  <2>1. CASE UNCHANGED <<revision, seen, missed>>
    BY <1>0, <2>1 DEF ScreensInPast, CurrentScreenMissedNoSave
  <2>2. CASE /\ revision = seen[u] /\ revision' = revision + 1
             /\ seen' = [seen EXCEPT ![u] = revision + 1]
             /\ Outdate(u)
    <3>1. /\ \A v \in Users : seen'[v] = IF v = u THEN revision + 1 ELSE seen[v]
          /\ u \notin missed'
      BY <1>0, <2>2 DEF Outdate
    <3>2. missed' \subseteq Users /\ seen' \in [Users -> Nat]
      BY <1>0, <2>2 DEF Outdate
    <3>3. ScreensInPast'
      BY <1>0, <2>2, <3>1 DEF ScreensInPast
    <3>4. CurrentScreenMissedNoSave'
      <4> SUFFICES ASSUME NEW v \in Users, seen'[v] = revision'
                   PROVE  v \notin missed'
        BY DEF CurrentScreenMissedNoSave
      <4>1. v = u
        BY <1>0, <2>2, <3>1
      <4> QED BY <3>1, <4>1
    <3> QED BY <1>0, <2>2, <3>2, <3>3, <3>4
  <2>3. CASE /\ UNCHANGED revision
             /\ seen' = [seen EXCEPT ![u] = revision]
             /\ missed' = missed \ {u}
    BY <1>0, <2>3 DEF ScreensInPast, CurrentScreenMissedNoSave
  <2> QED BY <2>1, <2>2, <2>3
<1>3. TypeOK'
  BY <1>1, <1>2 DEF IInv, TypeOK
<1>4. PresentIsRemembered' /\ OutcomeWasQuorate' /\ CertifiedWasBuilt'
  BY DEF IInv, PresentIsRemembered, OutcomeWasQuorate, CertifiedWasBuilt, IsQuorate
<1> QED BY <1>1, <1>2, <1>3, <1>4 DEF IInv

\* Each write of the row is one of these.
LEMMA WriteInv ==
  ASSUME IInv, NEW u \in Users,
         \/ LoadCase(u) \/ SaveCase(u) \/ StatusWrite(u) \/ DecideWrite(u) \/ ReturnWrite(u)
         \/ CertifyApprove(u) \/ LodgeMark(u) \/ RemitWrite(u) \/ FeePaid
  PROVE  IInv'
<1>0. /\ status \in Statuses /\ basis \in Bases /\ GatedDeterminationIsBacked
      /\ req[u].to \in Statuses /\ req[u].basis \in Bases
  BY DEF IInv, TypeOK, Requests
<1>1. CASE LoadCase(u) \/ SaveCase(u)
  <2>1. UNCHANGED <<status, basis, heard, quorate, certified, built>>
    BY <1>1 DEF LoadCase, SaveCase, committee, site
  <2>2. GatedDeterminationIsBacked'
    BY <1>0, <2>1 DEF GatedDeterminationIsBacked, Backed
  <2>3. Writes(u)
    BY <1>0, <1>1, <2>1, <2>2 DEF LoadCase, SaveCase, Writes, Bumped
  <2> QED BY <2>3, WritesKeeps
<1>2. CASE StatusWrite(u) \/ DecideWrite(u) \/ ReturnWrite(u)
  <2>1. /\ SetStatus(req[u].to, req[u].basis)
        /\ UNCHANGED <<heard, quorate, certified, built>>
    BY <1>2 DEF StatusWrite, DecideWrite, ReturnWrite, committee, site
  <2>2. status' \in Statuses /\ basis' \in Bases /\ GatedDeterminationIsBacked'
    <3>1. req[u].to \in Decided => req[u].basis = "return" \/ Backed(req[u].basis)
      BY <1>2 DEF StatusWrite, DecideWrite, ReturnWrite, Ready, IInv, RequestsAreBacked
    <3> QED BY <1>0, <2>1, <3>1, StatusSet
  <2>3. Writes(u)
    BY <1>2, <2>2 DEF StatusWrite, DecideWrite, ReturnWrite, Writes, Bumped
  <2> QED BY <2>3, WritesKeeps
<1>3. CASE LodgeMark(u) \/ RemitWrite(u) \/ FeePaid
  <2>1. PICK to \in {"appealed", "under_review", "registered"} :
          SetStatus(to, "none") /\ UNCHANGED <<heard, quorate, certified, built>>
    BY <1>3 DEF LodgeMark, RemitWrite, FeePaid, committee, site
  <2>2. to \in Statuses \ Decided /\ "none" \in Bases
    BY DEF Statuses, Bases, Decided
  <2>3. status' \in Statuses /\ basis' \in Bases /\ GatedDeterminationIsBacked'
    BY <2>1, <2>2, StatusSet
  <2>4. Writes(u)
    BY <1>3, <2>3 DEF LodgeMark, RemitWrite, FeePaid, Writes
  <2> QED BY <2>4, WritesKeeps
<1>4. CASE CertifyApprove(u)
  <2>1. "approved" \in Statuses /\ "certificate" \in Bases
        /\ UNCHANGED <<heard, quorate, certified, built>>
    BY <1>4 DEF Statuses, Bases, Decided, CertifyApprove, committee, site
  <2>2. UNCHANGED <<status, basis>> \/ SetStatus("approved", "certificate")
    BY <1>4 DEF CertifyApprove
  <2>3. status' \in Statuses /\ basis' \in Bases /\ GatedDeterminationIsBacked'
    <3>1. CASE UNCHANGED <<status, basis>>
      BY <1>0, <2>1, <3>1 DEF GatedDeterminationIsBacked, Backed
    <3>2. CASE SetStatus("approved", "certificate")
      BY <2>1, <3>2, StatusSet
    <3> QED BY <2>2, <3>1, <3>2
  <2>4. Writes(u)
    BY <1>4, <2>3 DEF CertifyApprove, Writes
  <2> QED BY <2>4, WritesKeeps
<1> QED BY <1>1, <1>2, <1>3, <1>4

-----------------------------------------------------------------------------
(* The committee and the site. *)

\* The history takes in whatever a step of the committee makes of the present.
LEMMA CommitteeKeeps ==
  ASSUME IInv, CommitteeStep, NEW u \in Users, Answer(u) \/ UNCHANGED req,
         meeting' \in [Meetings -> MeetingStates],
         present' \in [Meetings -> SUBSET Members],
         item' \in [Meetings -> ItemStates],
         \A m \in Meetings : item'[m].outcome = "recorded" =>
            item[m].outcome = "recorded" \/ m \in quorate
  PROVE  IInv'
<1> USE DEF CommitteeStep, caseFile, site
<1>1. HistoryGrows /\ quorate' \subseteq Meetings /\ heard' \subseteq Meetings
  BY DEF HistoryGrows, Remember, IInv, TypeOK
<1>2. /\ req' \in [Users -> Requests]
      /\ RequestsAreLawful' /\ RequestsAreBacked' /\ OutcomesAreQuorate'
      /\ CertifiersSawIt'
  <2>1. CASE Answer(u)
    BY <1>1, <2>1, RequestsSound, RequestsKept DEF Answer, NoRequest, Request
  <2>2. CASE UNCHANGED req
    BY <1>1, <2>2 DEF IInv, TypeOK, RequestsAreLawful, RequestsAreBacked, Backed,
       OutcomesAreQuorate, CertifiersSawIt, Override, CanTransition, HistoryGrows
  <2> QED BY <2>1, <2>2
<1>3. TypeOK'
  BY <1>1, <1>2 DEF IInv, TypeOK
<1>4. PresentIsRemembered'
  BY DEF Remember, PresentIsRemembered, IsQuorate, IInv
<1>5. OutcomeWasQuorate' /\ GatedDeterminationIsBacked'
  BY <1>1 DEF IInv, OutcomeWasQuorate, GatedDeterminationIsBacked, Backed, HistoryGrows
<1>6. ScreensInPast' /\ CurrentScreenMissedNoSave' /\ CertifiedWasBuilt'
  BY DEF IInv, ScreensInPast, CurrentScreenMissedNoSave, CertifiedWasBuilt
<1> QED BY <1>2, <1>3, <1>4, <1>5, <1>6 DEF IInv

\* What the committee's steps do to its tables.
LEMMA CommitteeInv ==
  ASSUME IInv, NEW u \in Users, SecretariatStep \/ HearingStep(u)
  PROVE  IInv'
<1>0. /\ meeting \in [Meetings -> MeetingStates]
      /\ present \in [Meetings -> SUBSET Members]
      /\ item \in [Meetings -> ItemStates]
  BY DEF IInv, TypeOK
<1>1. ASSUME NEW m \in Meetings, NEW q \in 0..Cardinality(Members), CreateMeeting(m, q)
      PROVE  IInv'
  <2>1. meeting' \in [Meetings -> MeetingStates]
    BY <1>0, <1>1, FS_CardinalityType DEF CreateMeeting, MeetingStates
  <2> QED BY <1>0, <1>1, <2>1, CommitteeKeeps DEF CreateMeeting
<1>2. ASSUME NEW m \in Meetings, Schedule(m) PROVE IInv'
  <2>1. item' \in [Meetings -> ItemStates] /\ item'[m].outcome = "pending"
        /\ \A n \in Meetings \ {m} : item'[n] = item[n]
    BY <1>0, <1>2 DEF Schedule, Item, ItemStates
  <2> QED BY <1>0, <1>2, <2>1, CommitteeKeeps DEF Schedule
<1>3. ASSUME NEW m \in Meetings, NEW P \in SUBSET Members, Attend(m, P) PROVE IInv'
  BY <1>0, <1>3, CommitteeKeeps DEF Attend
<1>4. ASSUME NEW m \in Meetings, RemoveItem(m) PROVE IInv'
  <2>1. item' \in [Meetings -> ItemStates]
        /\ \A n \in Meetings : item'[n].outcome = item[n].outcome
    BY <1>0, <1>4 DEF RemoveItem, ItemStates
  <2> QED BY <1>0, <1>4, <2>1, CommitteeKeeps DEF RemoveItem
<1>5. ASSUME NEW m \in Meetings, DeleteMeeting(m) PROVE IInv'
  <2>1. meeting' \in [Meetings -> MeetingStates]
    BY <1>0, <1>5 DEF DeleteMeeting, MeetingStates
  <2> QED BY <1>0, <1>5, <2>1, CommitteeKeeps DEF DeleteMeeting
<1>6. ASSUME NEW m \in Meetings, OutcomeRead(u, m) PROVE IInv'
  BY <1>6, ReadInv
<1>7. ASSUME NEW m \in Meetings, NEW text \in BOOLEAN, OutcomeWrite(u, m, text) PROVE IInv'
  <2>1. m \in quorate
    BY <1>7 DEF OutcomeWrite, Ready, IInv, OutcomesAreQuorate
  <2>2. (item[m].resolved \/ text) \in BOOLEAN
    BY Zenon
  <2>3. item' \in [Meetings -> ItemStates]
        /\ \A n \in Meetings \ {m} : item'[n] = item[n]
    <3> DEFINE resolved == item[m].resolved \/ text
    <3>1. item' = [item EXCEPT ![m] = Item("live", "recorded", resolved)]
      BY <1>0, <1>7 DEF OutcomeWrite
    <3> HIDE DEF resolved
    <3>2. Item("live", "recorded", resolved) \in ItemStates
      BY <2>2 DEF Item, ItemStates, resolved
    <3> QED BY <1>0, <3>1, <3>2
  <2> QED BY <1>0, <1>7, <2>1, <2>3, CommitteeKeeps DEF OutcomeWrite
<1>8. ASSUME NEW m \in Meetings, NEW text \in BOOLEAN, NEW clear \in BOOLEAN,
             EditItem(u, m, text, clear)
      PROVE  IInv'
  <2>1. (item[m].resolved \/ text) \in BOOLEAN
    BY Zenon
  <2>2. item' \in [Meetings -> ItemStates]
        /\ \A n \in Meetings : item'[n].outcome \in {"pending", item[n].outcome}
    <3> DEFINE resolved == item[m].resolved \/ text
               outcome == IF clear THEN "pending" ELSE item[m].outcome
    <3>1. item' = [item EXCEPT ![m] = Item("live", outcome, resolved)]
      BY <1>0, <1>8 DEF EditItem
    <3>2. outcome \in {"pending", item[m].outcome}
      OBVIOUS
    <3> HIDE DEF resolved, outcome
    <3>3. Item("live", outcome, resolved) \in ItemStates
          /\ Item("live", outcome, resolved).outcome = outcome
      BY <1>0, <2>1, <3>2 DEF Item, ItemStates, resolved
    <3> QED BY <1>0, <3>1, <3>2, <3>3
  <2>3. \A n \in Meetings : item'[n].outcome = "recorded" => item[n].outcome = "recorded"
    BY <2>2
  <2> QED BY <1>0, <1>8, <2>2, <2>3, CommitteeKeeps DEF EditItem
<1> QED BY <1>1, <1>2, <1>3, <1>4, <1>5, <1>6, <1>7, <1>8 DEF SecretariatStep, HearingStep

\* Inspections and certificates.
LEMMA SiteInv ==
  ASSUME IInv, SiteStep
  PROVE  IInv'
<1>1. ASSUME NEW stage \in 1..NumStages,
             NewAttempt(stage) \/ \E result \in BOOLEAN : ScoreChecklist(stage, result)
      PROVE  IInv'
  <2> USE DEF NewAttempt, ScoreChecklist, caseFile, committee
  <2>1. /\ attempted' \subseteq 1..NumStages
        /\ passed' \subseteq 1..NumStages /\ built' \in BOOLEAN /\ (built => built')
        /\ (passed' = 1..NumStages => built')
    BY <1>1 DEF IInv, TypeOK
  <2>2. TypeOK'
    BY <1>1, <2>1 DEF IInv, TypeOK
  <2>3. /\ RequestsAreLawful' /\ RequestsAreBacked' /\ OutcomesAreQuorate'
        /\ CertifiersSawIt'
    BY <1>1, <2>1 DEF IInv, RequestsAreLawful, RequestsAreBacked, Backed, OutcomesAreQuorate,
       CertifiersSawIt, Override, CanTransition
  <2>4. PresentIsRemembered' /\ CertifiedWasBuilt'
    BY <1>1, <2>1 DEF IInv, PresentIsRemembered, CertifiedWasBuilt, IsQuorate
  <2>5. ScreensInPast' /\ CurrentScreenMissedNoSave' /\ OutcomeWasQuorate' /\ GatedDeterminationIsBacked'
    BY <1>1 DEF IInv, ScreensInPast, CurrentScreenMissedNoSave, OutcomeWasQuorate,
       GatedDeterminationIsBacked, Backed
  <2> QED BY <2>2, <2>3, <2>4, <2>5 DEF IInv
<1>2. ASSUME NEW u \in Users, CertifyInsert(u) PROVE IInv'
  <2> USE DEF CertifyInsert, caseFile, committee
  <2>1. built /\ Sound(u, [req[u] EXCEPT !.op = "approve"])
    <3>1. Sound(u, req[u]) /\ req[u].op = "certify"
      BY <1>2, RequestsSound DEF Ready
    <3>2. built
      BY <3>1 DEF Sound
    <3> QED BY <3>1, <3>2 DEF Sound, Requests, Ops, Gated
  <2>2. /\ req' \in [Users -> Requests]
        /\ RequestsAreLawful' /\ RequestsAreBacked' /\ OutcomesAreQuorate'
        /\ CertifiersSawIt'
    <3>1. HistoryGrows
      BY <1>2 DEF HistoryGrows
    <3> QED BY <1>2, <2>1, <3>1, RequestsKept
  <2>3. TypeOK'
    BY <1>2, <2>2 DEF IInv, TypeOK
  <2>4. PresentIsRemembered' /\ CertifiedWasBuilt'
    BY <1>2, <2>1 DEF IInv, PresentIsRemembered, CertifiedWasBuilt, IsQuorate
  <2>5. ScreensInPast' /\ CurrentScreenMissedNoSave' /\ OutcomeWasQuorate' /\ GatedDeterminationIsBacked'
    BY <1>2 DEF IInv, ScreensInPast, CurrentScreenMissedNoSave, OutcomeWasQuorate,
       GatedDeterminationIsBacked, Backed
  <2> QED BY <2>2, <2>3, <2>4, <2>5 DEF IInv
<1>3. ASSUME NEW u \in Users, CertifyRead(u) \/ CertifyApprove(u) PROVE IInv'
  BY <1>3, ReadInv, WriteInv
<1> QED BY <1>1, <1>2, <1>3 DEF SiteStep

-----------------------------------------------------------------------------
\* Every step keeps the invariant.
LEMMA StepInv == IInv /\ [Next]_vars => IInv'
<1> SUFFICES ASSUME IInv, [Next]_vars PROVE IInv'
  OBVIOUS
<1>0. PICK someone \in Users : TRUE
  BY UsersAssumption
<1>1. ASSUME NEW u \in Users, CaseStep(u) PROVE IInv'
  BY <1>1, ReadInv, WriteInv DEF CaseStep
<1>2. ASSUME NEW u \in Users, StatusStep(u) PROVE IInv'
  BY <1>2, ReadInv, WriteInv DEF StatusStep
<1>3. ASSUME NEW u \in Users, HearingStep(u) PROVE IInv'
  BY <1>3, CommitteeInv
<1>4. ASSUME NEW u \in Users, AppealStep(u) PROVE IInv'
  BY <1>4, ReadInv, AppealInv, WriteInv DEF AppealStep
<1>5. CASE SecretariatStep
  BY <1>0, <1>5, CommitteeInv
<1>6. CASE SiteStep
  BY <1>6, SiteInv
<1>7. CASE FeePaid
  BY <1>0, <1>7, WriteInv
<1>8. CASE UNCHANGED vars
  BY <1>8 DEF vars, IInv, TypeOK, RequestsAreLawful, RequestsAreBacked, Backed,
     OutcomesAreQuorate,
     CertifiersSawIt, ScreensInPast, PresentIsRemembered, CurrentScreenMissedNoSave,
     OutcomeWasQuorate, GatedDeterminationIsBacked, CertifiedWasBuilt, Override, CanTransition,
     IsQuorate
<1> QED BY <1>1, <1>2, <1>3, <1>4, <1>5, <1>6, <1>7, <1>8 DEF Next

\* The invariant holds in every reachable state.
THEOREM Invariant == Spec => []IInv
  BY InitInv, StepInv, PTL DEF Spec

\* Every variable keeps its type.
THEOREM Typed == Spec => []TypeOK
<1>1. IInv => TypeOK
  BY DEF IInv
<1> QED BY <1>1, Invariant, PTL

\* The optimistic lock on the case file works among its savers: nobody's save is
\* accepted whose screen lacks another save.
THEOREM ScreensTheorem == Spec => []CurrentScreenMissedNoSave
<1>1. IInv => CurrentScreenMissedNoSave
  BY DEF IInv
<1> QED BY <1>1, Invariant, PTL

\* No outcome without a quorum at some time, though the quorum is read before the
\* outcome is written.
THEOREM QuorumTheorem == Spec => []OutcomeWasQuorate
<1>1. IInv => OutcomeWasQuorate
  BY DEF IInv
<1> QED BY <1>1, Invariant, PTL

\* What the two gated routes determine is backed by a resolution in force at a quorate
\* committee, a power to decide or an override, whoever edits the record meanwhile.
THEOREM BackingTheorem == Spec => []GatedDeterminationIsBacked
<1>1. IInv => GatedDeterminationIsBacked
  BY DEF IInv
<1> QED BY <1>1, Invariant, PTL

\* No certificate of occupation before all stages have stood passed.
THEOREM CertificateTheorem == Spec => []CertifiedWasBuilt
<1>1. IInv => CertifiedWasBuilt
  BY DEF IInv
<1> QED BY <1>1, Invariant, PTL

-----------------------------------------------------------------------------
(* What a step may do to the status. *)

\* A step that leaves the status alone, or a write of it.
LEMMA StatusWriters ==
  ASSUME [Next]_vars, status' # status
  PROVE  \/ FeePaid
         \/ \E u \in Users : \/ StatusWrite(u) \/ DecideWrite(u) \/ ReturnWrite(u)
                            \/ CertifyApprove(u) \/ LodgeMark(u) \/ RemitWrite(u)
<1> USE DEF caseFile
<1>1. CASE SecretariatStep
  BY <1>1 DEF SecretariatStep, CreateMeeting, Schedule, Attend, RemoveItem, DeleteMeeting,
     CommitteeStep
<1>2. CASE SiteStep
  BY <1>2 DEF SiteStep, NewAttempt, ScoreChecklist, CertifyRead, CertifyInsert
<1>3. ASSUME NEW u \in Users, CaseStep(u) \/ HearingStep(u) PROVE FALSE
  BY <1>3 DEF CaseStep, HearingStep, LoadCase, SaveCase, Abandon, GiveUp, OutcomeRead,
     OutcomeWrite, EditItem, CommitteeStep
<1>4. ASSUME NEW u \in Users, StatusStep(u) \/ AppealStep(u)
      PROVE  \/ StatusWrite(u) \/ DecideWrite(u) \/ ReturnWrite(u)
             \/ LodgeMark(u) \/ RemitWrite(u)
  BY <1>4 DEF StatusStep, AppealStep, StatusRead, DecideRead, CommitteeGate, ReturnRead,
     LodgeRead, LodgeInsert, AppealWrite
<1> QED BY <1>1, <1>2, <1>3, <1>4 DEF Next, vars

\* A gated write finds the row as it was when its lawfulness was checked.
LEMMA GatedWrites ==
  ASSUME IInv, NEW u \in Users, StatusWrite(u) \/ DecideWrite(u) \/ ReturnWrite(u)
  PROVE  /\ status' = req[u].to /\ status' # "pending_payment"
         /\ Override(u, req[u].basis) \/ CanTransition(status, status')
<1>1. req[u].op \in Gated /\ status = req[u].from /\ status' = req[u].to
  BY DEF StatusWrite, DecideWrite, ReturnWrite, Ready, Gated, Unmoved, SetStatus
<1>2. /\ Override(u, req[u].basis) \/ CanTransition(req[u].from, req[u].to)
      /\ req[u].to # "pending_payment"
  BY <1>1 DEF IInv, RequestsAreLawful
<1> QED BY <1>1, <1>2

\* No interleaving of officers makes a gated handler write an unlawful status.
THEOREM GatedWritesTheorem == Spec => GatedWriteIsLawful
<1> DEFINE Lawfully(u) ==
      /\ req[u].op \in {"status", "decide", "return"}
      /\ req'[u].op = "none"
      /\ status' # status
      => Override(u, req[u].basis) \/ CanTransition(status, status')
<1>1. ASSUME IInv, [Next]_vars, NEW u \in Users PROVE Lawfully(u)
  <2> SUFFICES ASSUME req[u].op \in {"status", "decide", "return"}, req'[u].op = "none",
                      status' # status
               PROVE  Override(u, req[u].basis) \/ CanTransition(status, status')
    OBVIOUS
  <2>1. CASE FeePaid
    BY <1>1, <2>1 DEF FeePaid
  <2>2. ASSUME NEW v \in Users, \/ StatusWrite(v) \/ DecideWrite(v) \/ ReturnWrite(v)
                                \/ CertifyApprove(v) \/ LodgeMark(v) \/ RemitWrite(v)
        PROVE  u = v /\ (StatusWrite(v) \/ DecideWrite(v) \/ ReturnWrite(v))
    <3>1. req' = [req EXCEPT ![v] = NoRequest] /\ req \in [Users -> Requests]
      BY <1>1, <2>2 DEF StatusWrite, DecideWrite, ReturnWrite, CertifyApprove, LodgeMark,
         RemitWrite, Answer, Then, IInv, TypeOK
    <3>2. u = v
      BY <3>1
    <3> QED BY <2>2, <3>2 DEF CertifyApprove, LodgeMark, RemitWrite, Ready
  <2> QED BY <1>1, <2>1, <2>2, StatusWriters, GatedWrites
<1>2. IInv /\ [Next]_vars => [\A u \in Users : Lawfully(u)]_vars
  BY <1>1
<1> QED BY <1>2, Invariant, PTL DEF Spec, GatedWriteIsLawful

\* Intake's first status is never returned to.
THEOREM PaymentTheorem == Spec => NeverBackToPayment
<1>1. ASSUME IInv, [Next]_vars, status # "pending_payment"
      PROVE  status' # "pending_payment"
  <2>1. ASSUME NEW u \in Users, CertifyApprove(u) \/ LodgeMark(u) \/ RemitWrite(u)
        PROVE  status' # "pending_payment"
    BY <1>1, <2>1 DEF CertifyApprove, LodgeMark, RemitWrite, SetStatus
  <2> QED BY <1>1, <2>1, StatusWriters, GatedWrites DEF FeePaid
<1>2. IInv /\ [Next]_vars
      => [status # "pending_payment" => status' # "pending_payment"]_vars
  BY <1>1
<1> QED BY <1>2, Invariant, PTL DEF Spec, NeverBackToPayment

\* A determination stands until an appeal, an override or the certificate.
THEOREM DeterminationTheorem == Spec => DeterminationLeavesByAppeal
<1> DEFINE Leaves == \/ status' = "appealed"
                     \/ \E u \in Users : Override(u, req[u].basis) \/ req[u].op = "approve"
<1>1. ASSUME IInv, [Next]_vars, status \in Decided, status' # status PROVE Leaves
  <2>1. ASSUME NEW u \in Users, StatusWrite(u) \/ DecideWrite(u) \/ ReturnWrite(u)
        PROVE  Leaves
    <3>1. status' \in Statuses
      BY <1>1, <2>1, GatedWrites DEF IInv, TypeOK, Requests
    <3> QED BY <1>1, <2>1, <3>1, GatedWrites, DecidedOnlyAppealed
  <2>2. ASSUME NEW u \in Users, CertifyApprove(u) \/ LodgeMark(u) \/ RemitWrite(u)
        PROVE  Leaves
    BY <1>1, <2>2 DEF CertifyApprove, LodgeMark, RemitWrite, SetStatus, Ready, RemitApplies,
       Decided
  <2> QED BY <1>1, <2>1, <2>2, StatusWriters DEF FeePaid, Decided
<1>2. IInv /\ [Next]_vars => [(status \in Decided /\ status' # status) => Leaves]_vars
  BY <1>1
<1> QED BY <1>2, Invariant, PTL DEF Spec, DeterminationLeavesByAppeal
=============================================================================
