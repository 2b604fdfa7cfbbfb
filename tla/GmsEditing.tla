----------------------------- MODULE GmsEditing -----------------------------
(***************************************************************************)
(* Edit sessions of the GIS layers and their approval                      *)
(* (src/src/routes/gms-editing.js, services/gms/editing.js, with the       *)
(* tables of migration 133).                                               *)
(*                                                                         *)
(* Editors collect edits in a session, which a timer saves while they      *)
(* work, and submit it; QA approves, rejects or returns it.  An approval   *)
(* applies the edits in one transaction that locks each feature and        *)
(* compares its version with the one the edit was made from.  Most other   *)
(* handlers read the session, check its status and write it by id later.   *)
(*                                                                         *)
(* One layer is modelled: sessions, index and features of different layers *)
(* never meet.  Attribute and topology checks may refuse any session       *)
(* (Refuse); the checks of what an edit refers to are modelled (WellFormed). *)
(***************************************************************************)
EXTENDS Naturals, Sequences, FiniteSets

CONSTANTS
    Sessions,      \* rows the table edit_session may come to have
    Owner,         \* session -> its editor
    Features,      \* rows the table feature may come to have
    Seeded,        \* the features published at the start
    Requests,      \* HTTP requests that may be under way at one time
    MaxVersion,    \* bound: versions of a feature
    Sketches,      \* bound: session -> the sets of changes it may come to hold
    Restorable,    \* bound: the features QA restores
    NoSession,     \* edit_session's NULL
    NoFeature,     \* the feature of a create
    NoRequest      \* nobody holds the row

ASSUME SeededAssumption == Seeded \subseteq Features
ASSUME BoundAssumption == MaxVersion \in Nat /\ Restorable \subseteq Features
ASSUME NullAssumption ==
    NoSession \notin Sessions /\ NoFeature \notin Features /\ NoRequest \notin Requests

VARIABLES
    status,        \* edit_session.status, "absent" when there is no row
    edits,         \* edit_session.edits
    version,       \* feature.version, 0 when there is no row
    body,          \* feature's contents: the sessions whose changes they carry
    retired,       \* features whose status is 'retired'
    history,       \* feature -> its rows in feature_version, oldest first
    lock,          \* feature -> the approval whose transaction holds the row
    req            \* request -> where it is

session == <<status, edits>>
feature == <<version, body, retired, history>>
vars == <<status, edits, version, body, retired, history, lock, req>>

Statuses == {"open", "submitted", "approved", "rejected", "returned", "abandoned"}
Live == {"open", "returned"}

Ref(op, f, base) == [op |-> op, feature |-> f, base |-> base]
Creation == Ref("create", NoFeature, 0)
Targets == {[op |-> "create", feature |-> NoFeature]}
             \union [op : {"update", "delete"}, feature : Features]
Edits == {Creation} \union [op : {"update", "delete"}, feature : Features, base : Nat \ {0}]

ASSUME SketchesAssumption == Sketches \in [Sessions -> SUBSET SUBSET Targets]

\* "review": the session is read, validation to come; "apply": inside the
\* approval's transaction, with the rows of todo still to be locked.
Steps == {"idle", "save", "submit", "abandon", "review", "apply", "conflict"}
At(step, s, E, todo) == [step |-> step, session |-> s, edits |-> E, todo |-> todo]
Idle == At("idle", NoSession, {}, {})

\* A row of feature_version.  "from" is a history field: the base_version of the
\* edit, or the version restored.
Row(action, by, contents, from) ==
    [action |-> action, by |-> by, body |-> contents, from |-> from]
Rows == [action : {"create", "update", "delete", "restore"},
         by : Sessions \union {NoSession}, body : SUBSET Sessions, from : Nat]

TypeOK ==
    /\ status \in [Sessions -> Statuses \union {"absent"}]
    /\ edits \in [Sessions -> SUBSET Edits]
    /\ version \in [Features -> Nat]
    /\ body \in [Features -> SUBSET Sessions]
    /\ retired \subseteq Features
    /\ history \in [Features -> Seq(Rows)]
    /\ lock \in [Features -> Requests \union {NoRequest}]
    /\ req \in [Requests -> [step : Steps, session : Sessions \union {NoSession},
                             edits : SUBSET Edits, todo : SUBSET Edits]]

Init ==
    /\ status = [s \in Sessions |-> "absent"]
    /\ edits = [s \in Sessions |-> {}]
    /\ version = [f \in Features |-> IF f \in Seeded THEN 1 ELSE 0]
    /\ body = [f \in Features |-> {}]
    /\ retired = {}
    /\ history = [f \in Features |-> IF f \in Seeded
                                       THEN <<Row("create", NoSession, {}, 0)>> ELSE <<>>]
    /\ lock = [f \in Features |-> NoRequest]
    /\ req = [r \in Requests |-> Idle]

Goto(r, to) == req' = [req EXCEPT ![r] = to]
Become(s, to) == status' = [status EXCEPT ![s] = to]
LetGo(r) == lock' = [f \in Features |-> IF lock[f] = r THEN NoRequest ELSE lock[f]]

Published(f) == version[f] > 0 /\ f \notin retired

-----------------------------------------------------------------------------
(* The editor. *)

\* uq_edit_session_live.  Mutant: no such index.
AnyLive(s) == TRUE
OnlyLive(s) == \A t \in Sessions \ {s} : Owner[t] = Owner[s] => status[t] \notin Live

\* POST /gms/edit-sessions, when there is no live session to resume.
Open(s) ==
    /\ status[s] = "absent"
    /\ OnlyLive(s)
    /\ Become(s, "open")
    /\ UNCHANGED <<edits, feature, lock, req>>

\* PUT .../edits, POST .../submit and DELETE read the session and check it ...
ReadLive(r, s, step) ==
    /\ req[r].step = "idle"
    /\ status[s] \in Live
    /\ Goto(r, At(step, s, {}, {}))
    /\ UNCHANGED <<session, feature, lock>>

\* ... and the autosave writes by id the edits the editor's map has sent: for each
\* change, the version it was made from is one the map has loaded.
SaveWrite(r, T, base) ==
    /\ req[r].step = "save"
    /\ \A t \in T : base[t] \in IF t.op = "create" THEN {0} ELSE 1..version[t.feature]
    /\ edits' = [edits EXCEPT ![req[r].session] = {Ref(t.op, t.feature, base[t]) : t \in T}]
    /\ Goto(r, Idle)
    /\ UNCHANGED <<status, feature, lock>>

\* validateEdits(): every reference is to a published feature, and to no feature
\* twice.
WellFormed(E) ==
    /\ \A e \in E : e.op # "create" => Published(e.feature)
    /\ \A d, e \in E : d.op # "create" /\ d.feature = e.feature => d = e

SubmitRead(r, s) ==
    /\ edits[s] # {}
    /\ WellFormed(edits[s])
    /\ ReadLive(r, s, "submit")

SubmitWrite(r) ==
    /\ req[r].step = "submit"
    /\ Become(req[r].session, "submitted")
    /\ Goto(r, Idle)
    /\ UNCHANGED <<edits, feature, lock>>

AbandonWrite(r) ==
    /\ req[r].step = "abandon"
    /\ Become(req[r].session, "abandoned")
    /\ Goto(r, Idle)
    /\ UNCHANGED <<edits, feature, lock>>

-----------------------------------------------------------------------------
(* QA. *)

\* POST .../reject and .../return: one UPDATE WHERE status = 'submitted'.
Decide(s, to) ==
    /\ status[s] = "submitted"
    /\ to = "returned" => OnlyLive(s)
    /\ Become(s, to)
    /\ UNCHANGED <<edits, feature, lock, req>>

\* POST .../approve reads the session, its edits with it ...
ReviewRead(r, s) ==
    /\ req[r].step = "idle"
    /\ status[s] = "submitted"
    /\ Goto(r, At("review", s, edits[s], {}))
    /\ UNCHANGED <<session, feature, lock>>

\* ... validates what it read, and BEGINs ...
Validate(r) ==
    /\ req[r].step = "review"
    /\ WellFormed(req[r].edits)
    /\ Goto(r, [req[r] EXCEPT !.step = "apply", !.todo = req[r].edits \ {Creation}])
    /\ UNCHANGED <<session, feature, lock>>

\* cur.version = e.base_version.  Mutant: the comparison left out.
AnyVersion(e) == TRUE
Unchanged(e) == version[e.feature] = e.base

\* FOR UPDATE: the version compared is the one that will be extended.
\* Mutant: a plain SELECT.
NoHold(r, f) == lock' = lock
HoldRow(r, f) == lock' = [lock EXCEPT ![f] = r]

Free(r, f) == lock[f] \in {NoRequest, r}

\* ... locks the features one after the other, each compared ...
LockEdit(r, e) ==
    /\ req[r].step = "apply"
    /\ e \in req[r].todo
    /\ Free(r, e.feature)
    /\ Unchanged(e)
    /\ HoldRow(r, e.feature)
    /\ Goto(r, [req[r] EXCEPT !.todo = @ \ {e}])
    /\ UNCHANGED <<session, feature>>

\* ... EditConflict: ROLLBACK ...
Conflict(r, e) ==
    /\ req[r].step = "apply"
    /\ e \in req[r].todo
    /\ Free(r, e.feature)
    /\ ~Unchanged(e)
    /\ LetGo(r)
    /\ Goto(r, At("conflict", req[r].session, {}, {}))
    /\ UNCHANGED <<session, feature>>

Touched(E, op) == {e.feature : e \in {d \in E : d.op = op}}

\* Every edit writes its row of history.  Mutant: a delete does not.
DeletedSilently(E) == Touched(E, "update")
WritesRow(E) == Touched(E, "update") \union Touched(E, "delete")

\* Mutant: a word that the table's CHECK does not know.
StatusWord(E, f) == IF f \in Touched(E, "update") THEN "update" ELSE "retired"
RowAction(E, f) == IF f \in Touched(E, "update") THEN "update" ELSE "delete"

BaseOf(E, f) == (CHOOSE e \in E : e.feature = f).base

\* ... and COMMITs: the features, their history and the session's status.
ApproveCommit(r, new) ==
    LET s == req[r].session
        E == req[r].edits
        U == Touched(E, "update")
        D == Touched(E, "delete")
        N == IF Creation \in E THEN {new} ELSE {} IN
    /\ req[r].step = "apply"
    /\ req[r].todo = {}
    /\ \A f \in N : version[f] = 0
    /\ \A f \in U \union D : version[f] < MaxVersion
    /\ version' = [f \in Features |-> IF f \in U \union D \union N
                                        THEN version[f] + 1 ELSE version[f]]
    /\ body' = [f \in Features |-> IF f \in U \union N THEN body[f] \union {s} ELSE body[f]]
    /\ retired' = retired \union D
    /\ history' = [f \in Features |->
         IF f \in N THEN Append(history[f], Row("create", s, {s}, 0))
         ELSE IF f \in WritesRow(E)
           THEN Append(history[f], Row(RowAction(E, f), s, body'[f], BaseOf(E, f)))
         ELSE history[f]]
    /\ Become(s, "approved")
    /\ LetGo(r)
    /\ Goto(r, Idle)
    /\ UNCHANGED edits

\* After a conflict the session is returned by id, in a statement of its own.
ReturnConflicting(r) ==
    /\ req[r].step = "conflict"
    /\ OnlyLive(req[r].session)
    /\ Become(req[r].session, "returned")
    /\ Goto(r, Idle)
    /\ UNCHANGED <<edits, feature, lock>>

\* POST /gms/features/:id/restore.  The status goes by the action of the row put
\* back: a deletion retires the feature, anything else publishes it.
RestoredStatus(f, v) == IF history[f][v].action = "delete" THEN retired \union {f}
                                                           ELSE retired \ {f}

\* version = version + 1, and history is never rewritten.  Mutant: the row put
\* back takes the place of the newest.
InPlace(f, row) == [history[f] EXCEPT ![Len(history[f])] = row]
AtEnd(f, row) == Append(history[f], row)

Restore(f, v) ==
    /\ v \in 1..Len(history[f])
    /\ lock[f] = NoRequest
    /\ version[f] < MaxVersion
    /\ version' = [version EXCEPT ![f] = @ + 1]
    /\ body' = [body EXCEPT ![f] = history[f][v].body]
    /\ retired' = RestoredStatus(f, v)
    /\ history' = [history EXCEPT ![f] =
                     AtEnd(f, Row("restore", NoSession, history[f][v].body, v))]
    /\ UNCHANGED <<session, lock, req>>

\* A refusal (422), a constraint, a deadlock, or the server dying: ROLLBACK.
Fail(r) ==
    /\ req[r].step # "idle"
    /\ LetGo(r)
    /\ Goto(r, Idle)
    /\ UNCHANGED <<session, feature>>

-----------------------------------------------------------------------------
Editor(r) ==
    \/ \E s \in Sessions : \/ ReadLive(r, s, "save")
                           \/ ReadLive(r, s, "abandon")
                           \/ SubmitRead(r, s)
    \/ \E s \in {req[r].session} \intersect Sessions : \E T \in Sketches[s] :
        \E base \in [T -> 0..MaxVersion] : SaveWrite(r, T, base)
    \/ SubmitWrite(r)
    \/ AbandonWrite(r)

Approver(r) ==
    \/ \E s \in Sessions : ReviewRead(r, s)
    \/ Validate(r)
    \/ \E e \in req[r].todo : LockEdit(r, e) \/ Conflict(r, e)
    \/ \E new \in Features : ApproveCommit(r, new)
    \/ ReturnConflicting(r)

Next ==
    \/ \E r \in Requests : Editor(r) \/ Approver(r) \/ Fail(r)
    \/ \E s \in Sessions : Open(s) \/ Decide(s, "rejected") \/ Decide(s, "returned")
    \/ \E f \in Restorable : \E v \in 1..MaxVersion : Restore(f, v)

Spec == Init /\ [][Next]_vars

-----------------------------------------------------------------------------
(* Properties *)

\* The two tables agree: what is published of a feature is its newest row of
\* history, and its version counts them (no gap, no version written twice), however
\* approvals and restorations meet.
NewestIsPublished ==
    \A f \in Features :
        /\ version[f] = Len(history[f])
        /\ version[f] > 0 => body[f] = history[f][version[f]].body

\* An editor has one live session per layer, though approvals that conflict put
\* sessions back to returned behind the editor's back.
OneLiveSession ==
    \A s, t \in Sessions :
        /\ status[s] \in Live /\ status[t] \in Live /\ Owner[s] = Owner[t]
        => s = t

\* editing.js:12 "if someone else's edit was approved in between, approval stops with
\* a conflict instead of silently overwriting it", and 247 "History is never rewritten":
\* the promise of FeatureRegister.
Register == INSTANCE FeatureRegister WITH log <- history
ImplementsRegister == Register!AbsSpec
=============================================================================
