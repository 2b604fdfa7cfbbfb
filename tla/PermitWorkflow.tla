--------------------------- MODULE PermitWorkflow ---------------------------
(***************************************************************************)
(* One permit application, from lodging to determination, appeal and       *)
(* occupation (src/src/config/permitWorkflow.js, the handlers of           *)
(* src/src/routes/development-management.js that write its status, its     *)
(* case file or its committee record, and src/src/routes/appeals.js).      *)
(*                                                                         *)
(* A handler is several statements with awaits between them: it reads the  *)
(* row, decides, and writes later, while other requests do the same.  What *)
(* a request has read is kept in req; a server may die between statements. *)
(*                                                                         *)
(* Not modelled: letters, handoff packages, messages, mail and the event   *)
(* log, which are written after a decision, on a best-effort basis, and    *)
(* which no guard reads; who may see the case.                             *)
(***************************************************************************)
EXTENDS Integers, FiniteSets

CONSTANTS
    Users,         \* people with a request of theirs under way
    Role,          \* user -> users.role
    Meetings,      \* committee meetings
    Members,       \* committee members
    Appeals,       \* rows of application_appeal for this application
    NumStages,     \* construction stages before the certificate, 8 in the code
    Targets,       \* bound: statuses that requests ask for
    MaxRevision    \* bound: optimistic-lock revisions in a behaviour

ASSUME UsersAssumption == Users # {}
ASSUME StagesAssumption == NumStages \in Nat
ASSUME RevisionAssumption == MaxRevision \in Nat
ASSUME RoleAssumption ==
    Role \in [Users -> {"admin", "eo", "planner", "planning_clerk",
                        "building_inspector", "public"}]
ASSUME MembersAssumption == IsFiniteSet(Members)

VARIABLES
    status,        \* permit_application.status
    revision,      \* permit_application.revision
    seen,          \* user -> the revision of the case file on their screen
    req,           \* user -> their request between two statements
    meeting,       \* meeting -> committee_meeting
    present,       \* meeting -> members recorded as present
    item,          \* meeting -> the application's agenda_item there
    appeal,        \* appeal -> its status, with the decision when decided
    attempted,     \* stages with an attempt
    passed,        \* those whose latest attempt has passed
    certified,     \* there is an occupation_certificate
    basis,         \* history: what the present determination rests on
    missed,        \* history: users whose screen lacks a save made since they loaded it
    quorate,       \* history: meetings that have had their quorum
    heard,         \* history: meetings where a resolution has been in force
    built          \* history: all stages have stood passed at one time

caseFile  == <<status, revision, seen, basis, missed>>
committee == <<meeting, present, item, quorate, heard>>
site      == <<attempted, passed, certified, built>>
vars      == <<status, revision, seen, req, meeting, present, item, appeal, attempted,
               passed, certified, basis, missed, quorate, heard, built>>

-----------------------------------------------------------------------------
(* The statutory state machine: TRANSITIONS, canTransition. *)

Decided == {"approved", "approved_with_conditions", "refused"}

Statuses == {"pending_payment", "registered", "acknowledged", "circulation",
             "objection_period", "under_review", "awaiting_eo_decision", "deferred",
             "withdrawn", "appealed"} \union Decided

ASSUME TargetsAssumption == Targets \subseteq Statuses

Transitions ==
    [s \in Statuses |->
        CASE s = "pending_payment"      -> {"registered", "withdrawn"}
          [] s = "registered"           -> {"acknowledged", "circulation", "under_review",
                                            "withdrawn"}
          [] s = "acknowledged"         -> {"circulation", "objection_period",
                                            "under_review", "withdrawn"}
          [] s = "circulation"          -> {"objection_period", "under_review", "withdrawn"}
          [] s = "objection_period"     -> {"under_review", "awaiting_eo_decision",
                                            "withdrawn"}
          [] s = "under_review"         -> {"circulation", "objection_period",
                                            "awaiting_eo_decision", "deferred",
                                            "withdrawn"} \union Decided
          [] s = "awaiting_eo_decision" -> {"circulation", "under_review", "deferred",
                                            "withdrawn"} \union Decided
          [] s = "deferred"             -> {"circulation", "under_review",
                                            "awaiting_eo_decision", "withdrawn"}
          [] s \in Decided              -> {"appealed"}
          [] s = "appealed"             -> {"under_review"} \union Decided
          [] s = "withdrawn"            -> {}]

CanTransition(from, to) == from = to \/ to \in Transitions[from]

\* VALID_STATUSES of both handlers: all but pending_payment.
\* Mutant: PERMIT_STATUSES instead.
AnyStatusKnown == Targets
Requestable == Targets \ {"pending_payment"}

Bases == {"none", "committee", "delegated", "override", "return", "certificate"}

-----------------------------------------------------------------------------
Ops == {"none", "status", "gate", "decide", "return", "certify", "approve",
        "lodge", "mark", "remit", "outcome"}

\* op: the statement the request will execute next; from: the status it read;
\* to: the status it will write; basis: the backing it claims; on: the meeting
\* or appeal it is about.
Subjects == Meetings \union Appeals \union {"case"}
Request(op, from, to, b, x) == [op |-> op, from |-> from, to |-> to, basis |-> b, on |-> x]
NoRequest == Request("none", "registered", "registered", "none", "case")

Requests == [op : Ops, from : Statuses, to : Statuses, basis : Bases, on : Subjects]

MeetingStates == [state : {"none", "live", "deleted"}, quorum : Nat]
ItemStates == [state : {"none", "live", "removed"}, outcome : {"pending", "recorded"},
               resolved : BOOLEAN]
Item(state, outcome, resolved) ==
    [state |-> state, outcome |-> outcome, resolved |-> resolved]

AppealStates == {"none", "open", "upheld", "dismissed", "remitted", "withdrawn"}

TypeOK ==
    /\ status \in Statuses
    /\ revision \in Nat
    /\ seen \in [Users -> Nat]
    /\ req \in [Users -> Requests]
    /\ meeting \in [Meetings -> MeetingStates]
    /\ present \in [Meetings -> SUBSET Members]
    /\ item \in [Meetings -> ItemStates]
    /\ appeal \in [Appeals -> AppealStates]
    /\ attempted \subseteq 1..NumStages
    /\ passed \subseteq 1..NumStages
    /\ certified \in BOOLEAN
    /\ basis \in Bases
    /\ missed \subseteq Users
    /\ quorate \subseteq Meetings
    /\ heard \subseteq Meetings
    /\ built \in BOOLEAN

\* POST /permit-applications: pending_payment when the applicant is to pay online.
Init ==
    /\ status \in {"pending_payment", "registered"}
    /\ revision = 0
    /\ seen = [u \in Users |-> 0]
    /\ req = [u \in Users |-> NoRequest]
    /\ meeting = [m \in Meetings |-> [state |-> "none", quorum |-> 0]]
    /\ present = [m \in Meetings |-> {}]
    /\ item = [m \in Meetings |-> Item("none", "pending", FALSE)]
    /\ appeal = [a \in Appeals |-> "none"]
    /\ attempted = {}
    /\ passed = {}
    /\ certified = FALSE
    /\ basis = "none"
    /\ missed = {}
    /\ quorate = {}
    /\ heard = {}
    /\ built = (passed = 1..NumStages)

Free(u) == req[u].op = "none"
Ready(u, op) == req[u].op = op
Then(u, r) == req' = [req EXCEPT ![u] = r]
Answer(u) == Then(u, NoRequest)

\* A request that ends without having written anything: 4xx, 409, or a server
\* that dies.
GiveUp(u) ==
    /\ Answer(u)
    /\ UNCHANGED <<caseFile, committee, appeal, site>>

\* Mutant: the decision's verb written for its status (approve, not approved).
SetVerb(to, b) ==
    /\ status' = (IF to = "approved" THEN "approve" ELSE to)
    /\ basis' = b

\* basis follows status: kept by a write that does not move a determination.
SetStatus(to, b) ==
    /\ status' = to
    /\ basis' = IF to \notin Decided THEN "none"
                ELSE IF status = to THEN basis ELSE b

\* A save by u: everybody else's screen lacks it.
Outdate(u) == missed' = missed \union (Users \ {u})

-----------------------------------------------------------------------------
(* The case file. *)

Planning == {"eo", "planner", "planning_clerk", "admin"}
EoDeciders == {"eo", "admin"}

\* Somebody opens the case: the screen shows the row as it is.
LoadCase(u) ==
    /\ Free(u)
    /\ seen' = [seen EXCEPT ![u] = revision]
    /\ missed' = missed \ {u}
    /\ UNCHANGED <<status, revision, req, committee, appeal, site, basis>>

\* revision = revision + 1.  Mutant: a write that forgets it.
Unbumped(r) == r
Bumped(r) == r + 1

\* PATCH /permit-applications/:id/case.  The UPDATE repeats the check made
\* before it (WHERE revision = expectedRevision) and returns the row.
SaveCase(u) ==
    /\ Free(u)
    /\ Role[u] \in Planning
    /\ revision = seen[u]
    /\ revision < MaxRevision
    /\ revision' = Bumped(revision)
    /\ seen' = [seen EXCEPT ![u] = Bumped(revision)]
    /\ Outdate(u)
    /\ UNCHANGED <<status, req, committee, appeal, site, basis>>

\* applyPaid() for an application fee.
FeePaid ==
    /\ status = "pending_payment"
    /\ SetStatus("registered", "none")
    /\ UNCHANGED <<revision, seen, req, missed, committee, appeal, site>>

-----------------------------------------------------------------------------
(* Status writes: each reads the status first and repeats it in its WHERE.   *)

Override(u, b) == b = "override" /\ Role[u] = "admin"

\* rejectUnlawfulTransition()
Lawful(u, to, b) == Override(u, b) \/ CanTransition(status, to)

\* WHERE id = $1 AND status = fromStatus.
\* Mutant: the UPDATE by id alone.
AnyRow(u) == req[u].from \in Statuses
Unmoved(u) == status = req[u].from

\* PATCH /permit-applications/:id/status, up to the SELECT.
StatusRead(u, to, b) ==
    /\ Free(u)
    /\ Role[u] \in Planning
    /\ to \in Decided => Override(u, b)
    /\ Lawful(u, to, b)
    /\ Then(u, Request("status", status, to, b, "case"))
    /\ UNCHANGED <<caseFile, committee, appeal, site>>

StatusWrite(u) ==
    /\ Ready(u, "status")
    /\ Unmoved(u)
    /\ revision = seen[u]
    /\ revision < MaxRevision
    /\ SetStatus(req[u].to, req[u].basis)
    /\ revision' = Bumped(revision)
    /\ seen' = [seen EXCEPT ![u] = Bumped(revision)]
    /\ Outdate(u)
    /\ Answer(u)
    /\ UNCHANGED <<committee, appeal, site>>

\* POST /permit-applications/:id/eo-decision, up to the SELECT.  A decision by
\* delegated authority or under an admin's override skips the committee gate.
DecideRead(u, to, b) ==
    /\ Free(u)
    /\ Role[u] \in EoDeciders
    /\ to \in Decided
    /\ Lawful(u, to, b)
    /\ Then(u, Request(IF b = "delegated" \/ Override(u, b) THEN "decide" ELSE "gate",
                       status, to, b, "case"))
    /\ UNCHANGED <<caseFile, committee, appeal, site>>

\* hasCommitteeResolution().  Mutant: any live item, its outcome ignored.
ResolutionText ==
    \E m \in Meetings : /\ item[m].state = "live" /\ item[m].resolved
                        /\ meeting[m].state = "live"
HasCommitteeResolution ==
    \E m \in Meetings : /\ item[m].state = "live"
                        /\ item[m].outcome # "pending"
                        /\ item[m].resolved
                        /\ meeting[m].state = "live"

CommitteeGate(u) ==
    /\ Ready(u, "gate")
    /\ HasCommitteeResolution
    /\ Then(u, Request("decide", req[u].from, req[u].to, "committee", "case"))
    /\ UNCHANGED <<caseFile, committee, appeal, site>>

\* The determination.  The revision is left alone.
DecideWrite(u) ==
    /\ Ready(u, "decide")
    /\ Unmoved(u)
    /\ SetStatus(req[u].to, req[u].basis)
    /\ Answer(u)
    /\ UNCHANGED <<revision, seen, missed, committee, appeal, site>>

\* POST /permit-applications/:id/return-to-role, up to the SELECT.  The caller may
\* name any status to return the case to.
ReturnRead(u, to, b) ==
    /\ Free(u)
    /\ Role[u] \in EoDeciders
    /\ Lawful(u, to, b)
    /\ Then(u, Request("return", status, to, IF Override(u, b) THEN b ELSE "return", "case"))
    /\ UNCHANGED <<caseFile, committee, appeal, site>>

ReturnWrite(u) ==
    /\ Ready(u, "return")
    /\ Unmoved(u)
    /\ SetStatus(req[u].to, req[u].basis)
    /\ Answer(u)
    /\ UNCHANGED <<revision, seen, missed, committee, appeal, site>>

\* The row moved on under the request (409 conflict), the gate is closed (409
\* committee_resolution_required), or the server dies: nothing is written.
Abandon(u) ==
    /\ ~Free(u)
    /\ GiveUp(u)

-----------------------------------------------------------------------------
(* The committee. *)

Schedulers == {"planner", "planning_clerk", "eo", "admin"}

\* The quorum is met, or none was set.  Mutant: attendance not looked at.
QuorumUnchecked(m) == present[m] \subseteq Members
IsQuorate(m) == Cardinality(present[m]) >= meeting[m].quorum

\* history of the committee, after a step
Remember ==
    /\ quorate' = quorate \union
          {m \in Meetings : /\ meeting'[m].state # "none"
                           /\ Cardinality(present'[m]) >= meeting'[m].quorum}
    /\ heard' = heard \union
          {m \in Meetings : /\ item'[m].state = "live" /\ meeting'[m].state = "live"
                           /\ item'[m].outcome = "recorded" /\ item'[m].resolved}

CommitteeStep ==
    /\ Remember
    /\ UNCHANGED <<caseFile, appeal, site>>

\* quorum 0 is the NULL of a meeting without one.
CreateMeeting(m, q) ==
    /\ meeting[m].state = "none"
    /\ meeting' = [meeting EXCEPT ![m] = [state |-> "live", quorum |-> q]]
    /\ UNCHANGED <<req, present, item>>
    /\ CommitteeStep

\* POST /committee-meetings/:id/agenda: one item for ever per meeting and
\* application, a removed one included; the meeting may have been deleted.
Schedule(m) ==
    /\ meeting[m].state # "none"
    /\ item[m].state = "none"
    /\ item' = [item EXCEPT ![m] = Item("live", "pending", FALSE)]
    /\ UNCHANGED <<req, meeting, present>>
    /\ CommitteeStep

\* POST /committee-meetings/:id/attendance, at any time.
Attend(m, P) ==
    /\ meeting[m].state # "none"
    /\ \E p \in Members : P \in {present[m] \union {p}, present[m] \ {p}}
    /\ present' = [present EXCEPT ![m] = P]
    /\ UNCHANGED <<req, meeting, item>>
    /\ CommitteeStep

\* PATCH /agenda-items/:aid with an outcome: the quorum is read first.
OutcomeRead(u, m) ==
    /\ Free(u)
    /\ Role[u] \in {"eo", "planner", "admin"}
    /\ item[m].state = "live" /\ meeting[m].state = "live"
    /\ IsQuorate(m)
    /\ Then(u, Request("outcome", status, status, "none", m))
    /\ UNCHANGED <<caseFile, committee, appeal, site>>

\* The outcome is recorded, with its resolution or without.
OutcomeWrite(u, m, text) ==
    /\ Ready(u, "outcome")
    /\ req[u].on = m
    /\ item[m].state = "live"
    /\ item' = [item EXCEPT ![m] = Item("live", "recorded", @.resolved \/ text)]
    /\ Answer(u)
    /\ UNCHANGED <<meeting, present>>
    /\ CommitteeStep

\* The same handler with no outcome, or with 'pending', which clears one.
EditItem(u, m, text, clear) ==
    /\ Free(u)
    /\ Role[u] \in {"eo", "planner", "admin"}
    /\ item[m].state = "live"
    /\ item' = [item EXCEPT ![m] = Item("live", IF clear THEN "pending" ELSE @.outcome,
                                        @.resolved \/ text)]
    /\ UNCHANGED <<req, meeting, present>>
    /\ CommitteeStep

RemoveItem(m) ==
    /\ item[m].state = "live"
    /\ item' = [item EXCEPT ![m].state = "removed"]
    /\ UNCHANGED <<req, meeting, present>>
    /\ CommitteeStep

DeleteMeeting(m) ==
    /\ meeting[m].state = "live"
    /\ meeting' = [meeting EXCEPT ![m].state = "deleted"]
    /\ UNCHANGED <<req, present, item>>
    /\ CommitteeStep

-----------------------------------------------------------------------------
(* Construction stages and the certificate of occupation. *)

\* POST /permit-applications/:id/stage-inspections: a new attempt at a stage, which
\* is the latest and has no result.  Nothing asks whether the case was approved.
NewAttempt(stage) ==
    /\ attempted' = attempted \union {stage}
    /\ passed' = passed \ {stage}
    /\ built' = (built \/ passed' = 1..NumStages)
    /\ UNCHANGED <<caseFile, req, committee, appeal, certified>>

\* POST /stage-inspections/:sid/checklist for the latest attempt: the scores decide,
\* and may be sent again.
ScoreChecklist(stage, result) ==
    /\ stage \in attempted
    /\ passed' = IF result THEN passed \union {stage} ELSE passed \ {stage}
    /\ built' = (built \/ passed' = 1..NumStages)
    /\ UNCHANGED <<caseFile, req, committee, appeal, attempted, certified>>

\* Mutant: one stage short (s < 8 for s <= 8).
AllButOnePassed == 1..(NumStages - 1) \subseteq passed
AllPassed == 1..NumStages \subseteq passed

\* POST /permit-applications/:id/occupation-certificate: the stages are read ...
CertifyRead(u) ==
    /\ Free(u)
    /\ Role[u] \in {"building_inspector", "admin"}
    /\ AllPassed
    /\ Then(u, Request("certify", status, "approved", "certificate", "case"))
    /\ UNCHANGED <<caseFile, committee, appeal, site>>

\* ... the certificate is inserted (one for ever per application) ...
CertifyInsert(u) ==
    /\ Ready(u, "certify")
    /\ ~certified
    /\ certified' = TRUE
    /\ Then(u, [req[u] EXCEPT !.op = "approve"])
    /\ UNCHANGED <<caseFile, committee, appeal, attempted, passed, built>>

\* ... and the application is marked approved, whatever its status.
CertifyApprove(u) ==
    /\ Ready(u, "approve")
    /\ IF status \in {"approved", "approved_with_conditions"}
         THEN UNCHANGED <<status, basis>>
         ELSE SetStatus("approved", "certificate")
    /\ Answer(u)
    /\ UNCHANGED <<revision, seen, missed, committee, appeal, site>>

-----------------------------------------------------------------------------
(* Appeals. *)

\* POST /permit-applications/:id/appeals: the status is read ...
LodgeRead(u, a) ==
    /\ Free(u)
    /\ appeal[a] = "none"
    /\ \A v \in Users : req[v].on # a
    /\ status \in Decided
    /\ Then(u, Request("lodge", status, "appealed", "none", a))
    /\ UNCHANGED <<caseFile, committee, appeal, site>>

\* ... the appeal is inserted ...
LodgeInsert(u) ==
    /\ Ready(u, "lodge")
    /\ appeal' = [appeal EXCEPT ![req[u].on] = "open"]
    /\ Then(u, [req[u] EXCEPT !.op = "mark"])
    /\ UNCHANGED <<caseFile, committee, site>>

\* ... and the application marked as appealed, by id alone.
LodgeMark(u) ==
    /\ Ready(u, "mark")
    /\ SetStatus("appealed", "none")
    /\ Answer(u)
    /\ UNCHANGED <<revision, seen, missed, committee, appeal, site>>

\* PATCH /appeals/:id/status: any status of an appeal may follow any other.
AppealWrite(u, a, s) ==
    /\ Free(u)
    /\ Role[u] \in Planning
    /\ appeal[a] # "none"
    /\ s # "none"
    /\ appeal' = [appeal EXCEPT ![a] = s]
    /\ IF s = "remitted"
         THEN Then(u, Request("remit", "appealed", "under_review", "none", a))
         ELSE UNCHANGED req
    /\ UNCHANGED <<caseFile, committee, site>>

\* A remitted appeal sends the application back, if it is still appealed.
\* Mutant: whatever its status.
RemitAlways(u) == req[u].op = "remit"
RemitApplies(u) == status = "appealed"

RemitWrite(u) ==
    /\ Ready(u, "remit")
    /\ RemitApplies(u)
    /\ SetStatus("under_review", "none")
    /\ Answer(u)
    /\ UNCHANGED <<revision, seen, missed, committee, appeal, site>>

-----------------------------------------------------------------------------
CaseStep(u) ==
    \/ LoadCase(u)
    \/ SaveCase(u)
    \/ Abandon(u)

StatusStep(u) ==
    \/ \E to \in Requestable, b \in {"none", "override"} : StatusRead(u, to, b)
    \/ StatusWrite(u)
    \/ \E to \in Decided \intersect Targets, b \in {"none", "delegated", "override"} : DecideRead(u, to, b)
    \/ CommitteeGate(u)
    \/ DecideWrite(u)
    \/ \E to \in Requestable, b \in {"none", "override"} : ReturnRead(u, to, b)
    \/ ReturnWrite(u)

HearingStep(u) ==
    \E m \in Meetings :
        \/ OutcomeRead(u, m)
        \/ \E text \in BOOLEAN : OutcomeWrite(u, m, text)
        \/ \E text, clear \in BOOLEAN : EditItem(u, m, text, clear)

SecretariatStep ==
    \E m \in Meetings :
        \/ \E q \in 0..Cardinality(Members) : CreateMeeting(m, q)
        \/ Schedule(m)
        \/ \E P \in SUBSET Members : Attend(m, P)
        \/ RemoveItem(m)
        \/ DeleteMeeting(m)

SiteStep ==
    \/ \E stage \in 1..NumStages : \/ NewAttempt(stage)
                                  \/ \E result \in BOOLEAN : ScoreChecklist(stage, result)
    \/ \E u \in Users : CertifyRead(u) \/ CertifyInsert(u) \/ CertifyApprove(u)

AppealStep(u) ==
    \/ \E a \in Appeals : \/ LodgeRead(u, a)
                          \/ \E s \in AppealStates : AppealWrite(u, a, s)
    \/ LodgeInsert(u)
    \/ LodgeMark(u)
    \/ RemitWrite(u)

Next ==
    \/ FeePaid
    \/ SecretariatStep
    \/ SiteStep
    \/ \E u \in Users : CaseStep(u) \/ StatusStep(u) \/ HearingStep(u) \/ AppealStep(u)

Spec == Init /\ [][Next]_vars

-----------------------------------------------------------------------------
(* Properties *)

\* The officer whose expected revision is accepted by the two PATCH routes has missed
\* no save made through either of them (migration 097's revision counter).  It says
\* nothing of the status: determinations, returns, appeals, certificates and fees
\* change it and leave the revision alone.
CurrentScreenMissedNoSave ==
    \A u \in Users : seen[u] = revision => u \notin missed

\* An outcome on an agenda item belongs to a meeting that has had its quorum,
\* whatever was later edited, cleared, recorded again or removed.
OutcomeWasQuorate ==
    \A m \in Meetings : item[m].outcome = "recorded" => m \in quorate

\* What must back a determination, in the words of the committee gate's comment: a
\* committee resolution, of a meeting that had its quorum (though either may be undone
\* between the gate and the write), unless it is a delegated-authority decision of an
\* officer who decides, or an administrator overrides.
Backed(b) ==
    \/ b = "committee" /\ heard \intersect quorate # {}
    \/ b = "delegated" /\ \E u \in Users : Role[u] \in EoDeciders
    \/ b = "override" /\ \E u \in Users : Role[u] = "admin"

\* Whatever PATCH /status and POST /eo-decision have made a determination of is
\* backed, however the committee's record is edited while they run.  The two other
\* handlers that write a decided status are left out: see DeterminationIsBacked.
GatedDeterminationIsBacked ==
    status \in Decided /\ basis \notin {"return", "certificate"} => Backed(basis)

\* "A determination must be backed by a committee resolution", a delegated authority
\* or an override.  It is not: an officer who decides may return a case to a decided
\* status, and the certificate of occupation approves whatever it finds.
DeterminationIsBacked == status \in Decided => Backed(basis)

\* A status write by the three gated handlers is lawful from the status the row has
\* when it is written, whoever moved it since it was read.
GatedWriteIsLawful ==
    [][\A u \in Users :
         /\ req[u].op \in {"status", "decide", "return"}
         /\ req'[u].op = "none"
         /\ status' # status
         => Override(u, req[u].basis) \/ CanTransition(status, status')]_vars

\* A fee once settled is never asked for again: no handler, override or appeal
\* leads back to intake's first status.
NeverBackToPayment == [][status # "pending_payment" => status' # "pending_payment"]_vars

\* A remitted appeal reopens nothing that is not under appeal: a determination
\* leaves the decided statuses only by an appeal, a return or status write under an
\* override, or the occupation certificate.
DeterminationLeavesByAppeal ==
    [][/\ status \in Decided
       /\ status' # status
       => \/ status' = "appealed"
          \/ \E u \in Users : Override(u, req[u].basis) \/ req[u].op = "approve"]_vars

\* A certificate of occupation exists only if all construction stages have stood
\* passed at one time.
CertifiedWasBuilt == certified => built
=============================================================================
