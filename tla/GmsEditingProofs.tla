-------------------------- MODULE GmsEditingProofs --------------------------
(***************************************************************************)
(* What holds of the edit sessions for any number of editors, sessions,    *)
(* features and requests, and any bounds.  The argument is the approval's: *)
(* the rows it has locked stand at the versions its edits were made from   *)
(* until it commits, so what it publishes extends what the editors saw.    *)
(***************************************************************************)
EXTENDS GmsEditing, TLAPS

\* A request that is under way is about a session.
AboutSession ==
    \A r \in Requests : req[r].step # "idle" => req[r].session \in Sessions

\* Only an approval that is being applied holds rows.
HolderApplies ==
    \A r \in Requests, f \in Features : lock[f] = r => req[r].step = "apply"

\* An approval being applied edits no feature twice, and the rows of the edits it has
\* dealt with are locked at the versions they were made from.
HoldsItsRows(r) ==
    req[r].step = "apply" =>
        /\ \A d, e \in req[r].edits : d.op # "create" /\ d.feature = e.feature => d = e
        /\ \A e \in req[r].edits : e.op # "create" /\ e \notin req[r].todo =>
             /\ lock[e.feature] = r
             /\ version[e.feature] = e.base

AppliedIsHeld == \A r \in Requests : HoldsItsRows(r)

\* A feature that has not been made yet carries nobody's changes.
UnmadeIsEmpty == \A f \in Features : version[f] = 0 => body[f] = {}

IInv ==
    /\ TypeOK
    /\ NewestIsPublished
    /\ UnmadeIsEmpty
    /\ OneLiveSession
    /\ AboutSession
    /\ HolderApplies
    /\ AppliedIsHeld

USE SeededAssumption, BoundAssumption, NullAssumption, SketchesAssumption

-----------------------------------------------------------------------------
\* Sessions, features, history and requests start with the values their tables allow.
LEMMA InitTyped == Init => TypeOK
<1> SUFFICES ASSUME Init PROVE TypeOK
  OBVIOUS
<1>1. Row("create", NoSession, {}, 0) \in Rows
  BY DEF Row, Rows
<1>2. history \in [Features -> Seq(Rows)]
  BY <1>1 DEF Init
<1>3. req \in [Requests -> [step : Steps, session : Sessions \union {NoSession},
                           edits : SUBSET Edits, todo : SUBSET Edits]]
  BY DEF Init, Idle, At, Steps
<1> QED BY <1>2, <1>3 DEF Init, TypeOK

\* What an autosave may write is a set of edits.
LEMMA DraftsAreEdits ==
  ASSUME TypeOK, NEW s \in Sessions, NEW T \in Sketches[s], NEW base \in [T -> 0..MaxVersion],
         \A t \in T : base[t] \in IF t.op = "create" THEN {0} ELSE 1..version[t.feature]
  PROVE  {Ref(t.op, t.feature, base[t]) : t \in T} \subseteq Edits
<1> SUFFICES ASSUME NEW t \in T PROVE Ref(t.op, t.feature, base[t]) \in Edits
  OBVIOUS
<1>1. t \in Targets
  OBVIOUS
<1>2. CASE t.op = "create"
  BY <1>1, <1>2 DEF Targets, Edits, Creation, Ref
<1>3. CASE t.op # "create"
  <2>1. t.op \in {"update", "delete"} /\ t.feature \in Features
    BY <1>1, <1>3 DEF Targets
  <2>2. base[t] \in Nat \ {0}
    BY <1>3, <2>1 DEF TypeOK
  <2> QED BY <2>1, <2>2 DEF Edits, Ref
<1> QED BY <1>2, <1>3

\* The features an approval touches are features.
LEMMA TouchedAreFeatures ==
  ASSUME NEW E \in SUBSET Edits
  PROVE  /\ Touched(E, "update") \subseteq Features
         /\ Touched(E, "delete") \subseteq Features
         /\ \A f \in Touched(E, "update") \union Touched(E, "delete") :
              \E e \in E : e.op # "create" /\ e.feature = f
  BY DEF Touched, Edits, Creation, Ref

\* An edit of the approvals' is a creation or names a feature.
LEMMA EditFeature ==
  \A e \in Edits :
      /\ e.base \in Nat
      /\ e.op # "create" => e.feature \in Features /\ e.base # 0
      /\ e.op = "create" => e = Creation
      /\ e # Creation <=> e.op # "create"
  BY DEF Edits, Creation, Ref

\* The base of the edit of a feature is a number.
LEMMA BaseTyped ==
  ASSUME NEW E \in SUBSET Edits, NEW f \in WritesRow(E)
  PROVE  /\ BaseOf(E, f) \in Nat
         /\ \E e \in E : e.feature = f /\ BaseOf(E, f) = e.base
<1>1. \E e \in E : e.feature = f
  BY DEF WritesRow, Touched
<1>2. \E e \in E : e.feature = f /\ BaseOf(E, f) = e.base
  BY <1>1 DEF BaseOf
<1>3. \A e \in E : e.base \in Nat
  BY DEF Edits, Creation, Ref
<1> QED BY <1>2, <1>3

-----------------------------------------------------------------------------
\* Nothing has been published twice, opened or locked when the system starts.
LEMMA InitInv == Init => IInv
<1> SUFFICES ASSUME Init PROVE IInv
  OBVIOUS
<1>1. TypeOK
  BY InitTyped
<1>2. NewestIsPublished /\ UnmadeIsEmpty
  BY DEF Init, NewestIsPublished, UnmadeIsEmpty, Row
<1>3. OneLiveSession
  BY DEF Init, OneLiveSession, Live
<1>4. AboutSession /\ HolderApplies /\ AppliedIsHeld
  BY DEF Init, AboutSession, HolderApplies, AppliedIsHeld, HoldsItsRows, Idle, At
<1> QED BY <1>1, <1>2, <1>3, <1>4 DEF IInv

\* What the steps below need of the types.
ReqType == [Requests -> [step : Steps, session : Sessions \union {NoSession},
                         edits : SUBSET Edits, todo : SUBSET Edits]]
LockType == [Features -> Requests \union {NoRequest}]

\* An edit under way is one of the edits that can be.
LEMMA EditsUnderWay ==
  ASSUME TypeOK, NEW r \in Requests
  PROVE  /\ req[r].edits \subseteq Edits
         /\ req[r].todo \subseteq Edits
         /\ \A e \in req[r].edits : e.op # "create" => e.feature \in Features
<1>1. req[r].edits \subseteq Edits /\ req[r].todo \subseteq Edits
  BY DEF TypeOK
<1>2. ASSUME NEW e \in req[r].edits, e.op # "create" PROVE e.feature \in Features
  <2>1. e \in Edits
    BY <1>1
  <2> QED BY <1>2, <2>1, EditFeature
<1> QED BY <1>1, <1>2

\* A request that keeps its place keeps its rows, as long as those it has locked stay
\* locked and as they are.
LEMMA OthersKept ==
  ASSUME TypeOK, NEW q \in Requests, HoldsItsRows(q), req'[q] = req[q],
         \A f \in Features : lock[f] = q /\ version[f] # 0 =>
                                lock'[f] = q /\ version'[f] = version[f]
  PROVE  HoldsItsRows(q)'
<1>1. \A e \in req[q].edits : e.op # "create" => e.feature \in Features /\ e.base # 0
  BY EditsUnderWay, EditFeature
<1> QED BY <1>1 DEF HoldsItsRows

\* A step of a request that is not applying edits, and touches no feature and no lock.
Quiet(r) ==
    /\ UNCHANGED <<feature, lock>>
    /\ req' \in ReqType
    /\ req[r].step # "apply"
    /\ req'[r].step # "idle" => req'[r].session \in Sessions
    /\ req'[r].step # "apply"
    /\ \A q \in Requests \ {r} : req'[q] = req[q]

\* Such a step keeps what the invariant says of the features and the requests.
LEMMA QuietStep ==
  ASSUME IInv, NEW r \in Requests, Quiet(r)
  PROVE  NewestIsPublished' /\ UnmadeIsEmpty' /\ AboutSession' /\ HolderApplies' /\ AppliedIsHeld'
<1>1. NewestIsPublished' /\ UnmadeIsEmpty'
  BY DEF IInv, Quiet, feature, NewestIsPublished, UnmadeIsEmpty
<1>2. AboutSession'
  BY DEF IInv, Quiet, AboutSession
<1>3. HolderApplies'
  BY DEF IInv, Quiet, HolderApplies
<1>4. ASSUME NEW q \in Requests \ {r} PROVE HoldsItsRows(q)'
  <2>1. HoldsItsRows(q) /\ TypeOK
    BY DEF IInv, AppliedIsHeld
  <2>2. UNCHANGED <<version, lock>> /\ req'[q] = req[q]
    BY DEF Quiet, feature
  <2> QED BY <2>1, <2>2, OthersKept
<1>5. HoldsItsRows(r)'
  BY DEF Quiet, HoldsItsRows
<1> QED BY <1>1, <1>2, <1>3, <1>4, <1>5 DEF AppliedIsHeld

\* The steps of an editor's request are quiet.
LEMMA EditorInv ==
  ASSUME IInv, NEW r \in Requests, Editor(r) PROVE IInv'
<1>1. ASSUME NEW s \in Sessions, NEW step \in {"save", "submit", "abandon"},
             ReadLive(r, s, step)
      PROVE  IInv'
  <2>1. Quiet(r)
    BY <1>1 DEF IInv, TypeOK, ReadLive, ReqType, Quiet, Goto, At, Steps
  <2>2. TypeOK' /\ OneLiveSession'
    BY <1>1, <2>1 DEF IInv, TypeOK, ReadLive, Quiet, ReqType, feature, session, OneLiveSession
  <2> QED BY <2>1, <2>2, QuietStep DEF IInv
<1>2. ASSUME NEW s \in Sessions, NEW T \in Sketches[s], NEW base \in [T -> 0..MaxVersion],
             SaveWrite(r, T, base)
      PROVE  IInv'
  <2>1. {Ref(t.op, t.feature, base[t]) : t \in T} \subseteq Edits
    <3>1. \A t \in T : base[t] \in IF t.op = "create" THEN {0} ELSE 1..version[t.feature]
      BY <1>2 DEF SaveWrite
    <3> QED BY <3>1, DraftsAreEdits DEF IInv
  <2> DEFINE new == {Ref(t.op, t.feature, base[t]) : t \in T}
  <2>2. edits' = [edits EXCEPT ![req[r].session] = new]
    BY <1>2 DEF SaveWrite
  <2> HIDE DEF new
  <2>3. edits' \in [Sessions -> SUBSET Edits]
    BY <2>1, <2>2 DEF IInv, TypeOK, new
  <2>4. Quiet(r)
    BY <1>2 DEF IInv, TypeOK, SaveWrite, ReqType, Quiet, Goto, Idle, At, Steps
  <2>5. TypeOK' /\ OneLiveSession'
    BY <1>2, <2>3, <2>4 DEF IInv, TypeOK, SaveWrite, Quiet, ReqType, feature, OneLiveSession
  <2> QED BY <2>4, <2>5, QuietStep DEF IInv
<1>3. ASSUME NEW to \in {"submitted", "abandoned"}, req[r].step \in {"submit", "abandon"},
             Become(req[r].session, to), Goto(r, Idle), UNCHANGED <<edits, feature, lock>>
      PROVE  IInv'
  <2>1. Quiet(r)
    BY <1>3 DEF IInv, TypeOK, ReqType, Quiet, Goto, Idle, At, Steps
  <2>2. status' \in [Sessions -> Statuses \union {"absent"}] /\ OneLiveSession'
    BY <1>3 DEF IInv, TypeOK, Become, Statuses, OneLiveSession, Live
  <2>3. TypeOK'
    BY <1>3, <2>1, <2>2 DEF IInv, TypeOK, Quiet, ReqType, feature
  <2> QED BY <2>1, <2>2, <2>3, QuietStep DEF IInv
<1>4. CASE SubmitWrite(r)
  BY <1>3, <1>4 DEF SubmitWrite
<1>5. CASE AbandonWrite(r)
  BY <1>3, <1>5 DEF AbandonWrite
<1>6. ASSUME NEW s \in Sessions, SubmitRead(r, s) PROVE IInv'
  BY <1>1, <1>6 DEF SubmitRead
<1> QED BY <1>1, <1>2, <1>4, <1>5, <1>6 DEF Editor

\* QA's single statements, and new sessions, keep the index.
LEMMA SessionInv ==
  ASSUME IInv, NEW s \in Sessions, Open(s) \/ Decide(s, "rejected") \/ Decide(s, "returned")
  PROVE  IInv'
<1>1. UNCHANGED <<edits, feature, lock, req>>
  BY DEF Open, Decide
<1>2. status' \in [Sessions -> Statuses \union {"absent"}]
  BY DEF IInv, TypeOK, Open, Decide, Become, Statuses
<1>3. OneLiveSession'
  BY DEF IInv, TypeOK, Open, Decide, Become, OnlyLive, OneLiveSession, Live
<1>4. TypeOK'
  BY <1>1, <1>2 DEF IInv, TypeOK, feature
<1>5. NewestIsPublished' /\ UnmadeIsEmpty' /\ AboutSession' /\ HolderApplies' /\ AppliedIsHeld'
  BY <1>1 DEF IInv, feature, NewestIsPublished, UnmadeIsEmpty, AboutSession, HolderApplies, AppliedIsHeld,
     HoldsItsRows
<1> QED BY <1>3, <1>4, <1>5 DEF IInv

\* A failure lets go of what its request held, and of nothing else.
LEMMA FailInv ==
  ASSUME IInv, NEW r \in Requests, Fail(r) PROVE IInv'
<1>1. /\ req' \in ReqType
      /\ req'[r].step = "idle"
      /\ \A q \in Requests \ {r} : req'[q] = req[q]
  BY DEF IInv, TypeOK, Fail, Goto, Idle, At, Steps, ReqType
<1>2. /\ lock' \in LockType
      /\ \A f \in Features : (lock'[f] = lock[f] /\ lock[f] # r) \/ lock'[f] = NoRequest
      /\ \A f \in Features : lock[f] # r => lock'[f] = lock[f]
  BY DEF IInv, TypeOK, Fail, LetGo, LockType
<1>3. TypeOK'
  BY <1>1, <1>2 DEF IInv, TypeOK, Fail, session, feature, ReqType, LockType
<1>4. NewestIsPublished' /\ UnmadeIsEmpty' /\ OneLiveSession'
  BY DEF IInv, Fail, session, feature, NewestIsPublished, UnmadeIsEmpty, OneLiveSession
<1>5. AboutSession'
  BY <1>1 DEF IInv, AboutSession
<1>6. HolderApplies'
  BY <1>1, <1>2 DEF IInv, HolderApplies
<1>7. ASSUME NEW q \in Requests \ {r} PROVE HoldsItsRows(q)'
  <2>1. HoldsItsRows(q) /\ TypeOK /\ req'[q] = req[q] /\ UNCHANGED version
    BY <1>1 DEF IInv, AppliedIsHeld, Fail, feature
  <2> QED BY <1>2, <2>1, OthersKept
<1>8. HoldsItsRows(r)'
  BY <1>1 DEF HoldsItsRows
<1> QED BY <1>3, <1>4, <1>5, <1>6, <1>7, <1>8 DEF IInv, AppliedIsHeld

\* An approval that reads the session or has found a conflict is quiet.
LEMMA ReviewInv ==
  ASSUME IInv, NEW r \in Requests,
         (\E s \in Sessions : ReviewRead(r, s)) \/ ReturnConflicting(r)
  PROVE  IInv'
<1>1. ASSUME NEW s \in Sessions, ReviewRead(r, s) PROVE IInv'
  <2>1. Quiet(r)
    BY <1>1 DEF IInv, TypeOK, ReviewRead, ReqType, Quiet, Goto, At, Steps
  <2>2. TypeOK' /\ OneLiveSession'
    BY <1>1, <2>1 DEF IInv, TypeOK, ReviewRead, Quiet, ReqType, feature, session, OneLiveSession
  <2> QED BY <2>1, <2>2, QuietStep DEF IInv
<1>2. ASSUME ReturnConflicting(r) PROVE IInv'
  <2>1. Quiet(r)
    BY <1>2 DEF IInv, TypeOK, ReturnConflicting, ReqType, Quiet, Goto, Idle, At, Steps
  <2>2. req[r].session \in Sessions
    BY <1>2 DEF IInv, ReturnConflicting, AboutSession
  <2>3. status' \in [Sessions -> Statuses \union {"absent"}] /\ OneLiveSession'
    BY <1>2, <2>2 DEF IInv, TypeOK, ReturnConflicting, Become, OnlyLive, Statuses,
       OneLiveSession, Live
  <2>4. TypeOK'
    BY <1>2, <2>1, <2>3 DEF IInv, TypeOK, ReturnConflicting, Quiet, ReqType, feature
  <2> QED BY <2>1, <2>3, <2>4, QuietStep DEF IInv
<1> QED BY <1>1, <1>2

\* Validation leaves no feature edited twice, and nothing is locked yet.
LEMMA ValidateInv ==
  ASSUME IInv, NEW r \in Requests, Validate(r) PROVE IInv'
<1>1. /\ req' \in ReqType
      /\ req'[r].step = "apply" /\ req[r].step = "review"
      /\ req'[r].session = req[r].session
      /\ req'[r].edits = req[r].edits /\ req'[r].todo = req[r].edits \ {Creation}
      /\ \A q \in Requests \ {r} : req'[q] = req[q]
  BY DEF IInv, TypeOK, Validate, Goto, Steps, ReqType
<1>2. UNCHANGED <<session, feature, lock>> /\ WellFormed(req[r].edits)
  BY DEF Validate
<1>3. TypeOK'
  BY <1>1, <1>2 DEF IInv, TypeOK, ReqType, session, feature
<1>4. NewestIsPublished' /\ UnmadeIsEmpty' /\ OneLiveSession'
  BY <1>2 DEF IInv, session, feature, NewestIsPublished, UnmadeIsEmpty, OneLiveSession
<1>5. AboutSession' /\ HolderApplies'
  BY <1>1, <1>2 DEF IInv, AboutSession, HolderApplies
<1>6. ASSUME NEW q \in Requests \ {r} PROVE HoldsItsRows(q)'
  <2>1. HoldsItsRows(q) /\ TypeOK /\ req'[q] = req[q] /\ UNCHANGED <<version, lock>>
    BY <1>1, <1>2 DEF IInv, AppliedIsHeld, feature
  <2> QED BY <2>1, OthersKept
<1>7. HoldsItsRows(r)'
  <2>1. \A e \in req[r].edits : e.op # "create" => e # Creation
    BY DEF Creation, Ref
  <2> QED BY <1>1, <1>2, <2>1 DEF HoldsItsRows, WellFormed
<1> QED BY <1>3, <1>4, <1>5, <1>6, <1>7 DEF IInv, AppliedIsHeld

\* A row is locked at the version its edit was made from, and taken from nobody.
LEMMA LockInv ==
  ASSUME IInv, NEW r \in Requests, NEW e \in req[r].todo, LockEdit(r, e) PROVE IInv'
<1>1. /\ req' \in ReqType
      /\ req'[r].step = "apply" /\ req[r].step = "apply"
      /\ req'[r].session = req[r].session
      /\ req'[r].edits = req[r].edits /\ req'[r].todo = req[r].todo \ {e}
      /\ \A q \in Requests \ {r} : req'[q] = req[q]
  <2>1. req \in ReqType /\ req[r].step = "apply"
    BY DEF IInv, TypeOK, LockEdit, ReqType
  <2>2. req' = [req EXCEPT ![r] = [req[r] EXCEPT !.todo = req[r].todo \ {e}]]
    BY DEF LockEdit, Goto
  <2>3. req[r].todo \ {e} \in SUBSET Edits
    BY <2>1 DEF ReqType
  <2> QED BY <2>1, <2>2, <2>3 DEF ReqType
<1>2. /\ lock' \in LockType
      /\ \A f \in Features : f # e.feature => lock'[f] = lock[f]
      /\ e.feature \in Features => lock'[e.feature] = r /\ lock[e.feature] \in {NoRequest, r}
  BY DEF IInv, TypeOK, LockEdit, HoldRow, Free, LockType
<1>3. UNCHANGED <<session, feature>> /\ version[e.feature] = e.base
  BY DEF LockEdit, Unchanged
<1>4. TypeOK'
  BY <1>1, <1>2, <1>3 DEF IInv, TypeOK, ReqType, LockType, session, feature
<1>5. NewestIsPublished' /\ UnmadeIsEmpty' /\ OneLiveSession'
  BY <1>3 DEF IInv, session, feature, NewestIsPublished, UnmadeIsEmpty, OneLiveSession
<1>6. AboutSession'
  BY <1>1 DEF IInv, AboutSession
<1>7. HolderApplies'
  <2> SUFFICES ASSUME NEW q \in Requests, NEW f \in Features, lock'[f] = q
               PROVE  req'[q].step = "apply"
    BY DEF HolderApplies
  <2>1. lock[f] = q \/ q = r
    BY <1>2
  <2> QED BY <1>1, <2>1 DEF IInv, HolderApplies
<1>8. ASSUME NEW q \in Requests \ {r} PROVE HoldsItsRows(q)'
  <2>1. HoldsItsRows(q) /\ TypeOK /\ req'[q] = req[q] /\ UNCHANGED version
    BY <1>1, <1>3 DEF IInv, AppliedIsHeld, feature
  <2>2. \A f \in Features : lock[f] = q => lock'[f] = q
    BY <1>2
  <2> QED BY <2>1, <2>2, OthersKept
<1>9. HoldsItsRows(r)'
  <2>1. HoldsItsRows(r)
    BY DEF IInv, AppliedIsHeld
  <2>2. \A d \in req[r].edits : d.op # "create" => d.feature \in Features
    BY EditsUnderWay DEF IInv
  <2>3. UNCHANGED version
    BY <1>3 DEF feature
  <2> SUFFICES ASSUME NEW d \in req[r].edits, d.op # "create", d \notin req[r].todo \/ d = e
               PROVE  lock'[d.feature] = r /\ version[d.feature] = d.base
    BY <1>1, <2>1, <2>3 DEF HoldsItsRows
  <2>4. CASE d = e
    BY <1>2, <1>3, <2>2, <2>4
  <2>5. CASE d # e
    <3>1. lock[d.feature] = r /\ version[d.feature] = d.base
      BY <1>1, <2>1, <2>5 DEF HoldsItsRows
    <3> QED BY <1>2, <2>2, <3>1
  <2> QED BY <2>4, <2>5
<1> QED BY <1>4, <1>5, <1>6, <1>7, <1>8, <1>9 DEF IInv, AppliedIsHeld

\* A conflict lets go of what its approval held.
LEMMA ConflictInv ==
  ASSUME IInv, NEW r \in Requests, NEW e \in req[r].todo, Conflict(r, e) PROVE IInv'
<1>1. /\ req' \in ReqType
      /\ req'[r].step = "conflict" /\ req[r].step = "apply"
      /\ req'[r].session = req[r].session
      /\ \A q \in Requests \ {r} : req'[q] = req[q]
  BY DEF IInv, TypeOK, Conflict, Goto, At, Steps, ReqType
<1>2. /\ lock' \in LockType
      /\ \A f \in Features : (lock'[f] = lock[f] /\ lock[f] # r) \/ lock'[f] = NoRequest
      /\ \A f \in Features : lock[f] # r => lock'[f] = lock[f]
  BY DEF IInv, TypeOK, Conflict, LetGo, LockType
<1>3. UNCHANGED <<session, feature>>
  BY DEF Conflict
<1>4. TypeOK'
  BY <1>1, <1>2, <1>3 DEF IInv, TypeOK, session, feature, ReqType, LockType
<1>5. NewestIsPublished' /\ UnmadeIsEmpty' /\ OneLiveSession'
  BY <1>3 DEF IInv, session, feature, NewestIsPublished, UnmadeIsEmpty, OneLiveSession
<1>6. AboutSession'
  BY <1>1 DEF IInv, AboutSession
<1>7. HolderApplies'
  BY <1>1, <1>2 DEF IInv, HolderApplies
<1>8. ASSUME NEW q \in Requests \ {r} PROVE HoldsItsRows(q)'
  <2>1. HoldsItsRows(q) /\ TypeOK /\ req'[q] = req[q] /\ UNCHANGED version
    BY <1>1, <1>3 DEF IInv, AppliedIsHeld, feature
  <2> QED BY <1>2, <2>1, OthersKept
<1>9. HoldsItsRows(r)'
  BY <1>1 DEF HoldsItsRows
<1> QED BY <1>4, <1>5, <1>6, <1>7, <1>8, <1>9 DEF IInv, AppliedIsHeld

-----------------------------------------------------------------------------
Updated(r) == Touched(req[r].edits, "update")
Deleted(r) == Touched(req[r].edits, "delete")
Made(r, new) == IF Creation \in req[r].edits THEN {new} ELSE {}

\* What an approval commits: each feature it updates or deletes stands at the version
\* the edit was made from, no feature is edited in two ways, and what it adds to
\* the history is an extension as FeatureRegister understands it.
LEMMA CommitShape ==
  ASSUME IInv, NEW r \in Requests, NEW new \in Features, ApproveCommit(r, new)
  PROVE  /\ req[r].session \in Sessions
         /\ Updated(r) \subseteq Features /\ Deleted(r) \subseteq Features
         /\ Made(r, new) \subseteq Features
         /\ Updated(r) \intersect Deleted(r) = {}
         /\ \A f \in Updated(r) \union Deleted(r) :
              lock[f] = r /\ version[f] # 0 /\ version[f] = BaseOf(req[r].edits, f)
         /\ \A f \in Made(r, new) : version[f] = 0
<1> DEFINE E == req[r].edits
<1>1. req[r].session \in Sessions
  BY DEF IInv, ApproveCommit, AboutSession
<1>2. E \subseteq Edits
  BY EditsUnderWay DEF IInv
<1>3. Updated(r) \subseteq Features /\ Deleted(r) \subseteq Features
  BY <1>2, TouchedAreFeatures DEF Updated, Deleted
<1>4. /\ req[r].step = "apply" /\ req[r].todo = {}
      /\ HoldsItsRows(r)
  BY DEF IInv, ApproveCommit, AppliedIsHeld
<1>5. Updated(r) \intersect Deleted(r) = {}
  BY <1>4 DEF HoldsItsRows, Updated, Deleted, Touched
<1>6. ASSUME NEW f \in Updated(r) \union Deleted(r)
      PROVE  lock[f] = r /\ version[f] # 0 /\ version[f] = BaseOf(E, f)
  <2>1. PICK e \in E : e.op # "create" /\ e.feature = f
    BY DEF Updated, Deleted, Touched
  <2>2. lock[f] = r /\ version[f] = e.base
    BY <1>4, <2>1 DEF HoldsItsRows
  <2>3. e.base # 0
    BY <1>2, <2>1, EditFeature
  <2>4. BaseOf(E, f) = e.base
    <3>1. f \in WritesRow(E)
      BY DEF WritesRow, Updated, Deleted
    <3>2. PICK d \in E : d.feature = f /\ BaseOf(E, f) = d.base
      BY <1>2, <3>1, BaseTyped
    <3>3. d = e
      BY <1>4, <2>1, <3>2 DEF HoldsItsRows
    <3> QED BY <3>2, <3>3
  <2> QED BY <2>2, <2>3, <2>4
<1>7. Made(r, new) \subseteq Features /\ \A f \in Made(r, new) : version[f] = 0
  BY DEF ApproveCommit, Made
<1> QED BY <1>1, <1>3, <1>5, <1>6, <1>7

\* The history and the features after an approval.
LEMMA CommitEffect ==
  ASSUME IInv, NEW r \in Requests, NEW new \in Features, ApproveCommit(r, new)
  PROVE  LET U == Updated(r) \union Made(r, new)
             D == Deleted(r)
             s == req[r].session IN
         /\ version' = [f \in Features |-> IF f \in U \union D THEN version[f] + 1
                                                              ELSE version[f]]
         /\ body' = [f \in Features |-> IF f \in U THEN body[f] \union {s} ELSE body[f]]
         /\ history' = [f \in Features |->
              IF f \in U THEN Append(history[f], Register!Extension(s, f, "update"))
              ELSE IF f \in D THEN Append(history[f], Register!Extension(s, f, "delete"))
              ELSE history[f]]
<1> DEFINE s == req[r].session
           N == Made(r, new)
           E == req[r].edits
<1>1. /\ version' = [f \in Features |-> IF f \in Updated(r) \union Deleted(r) \union N
                                          THEN version[f] + 1 ELSE version[f]]
      /\ body' = [f \in Features |-> IF f \in Updated(r) \union N
                                       THEN body[f] \union {s} ELSE body[f]]
      /\ history' = [f \in Features |->
           IF f \in N THEN Append(history[f], Row("create", s, {s}, 0))
           ELSE IF f \in WritesRow(E)
             THEN Append(history[f], Row(RowAction(E, f), s, body'[f], BaseOf(E, f)))
           ELSE history[f]]
  BY DEF ApproveCommit, Updated, Deleted, Made
<1>2. ASSUME NEW f \in Features
      PROVE  history'[f] =
               IF f \in Updated(r) \union N
                 THEN Append(history[f], Register!Extension(s, f, "update"))
               ELSE IF f \in Deleted(r) THEN Append(history[f], Register!Extension(s, f, "delete"))
               ELSE history[f]
  <2>1. history[f] \in Seq(Rows) /\ version[f] = Len(history[f])
    BY DEF IInv, TypeOK, NewestIsPublished
  <2>2. CASE f \in N
    <3>1. history[f] = <<>>
      BY <2>1, <2>2, CommitShape
    <3> QED BY <1>1, <2>2, <3>1 DEF Register!Extension, Register!Row, Row
  <2>3. CASE f \in Updated(r) \union Deleted(r)
    <3>1. version[f] # 0 /\ version[f] = BaseOf(E, f) /\ f \notin N /\ history[f] # <<>>
      BY <2>1, <2>3, CommitShape
    <3>2. f \in WritesRow(E)
      BY <2>3 DEF WritesRow, Updated, Deleted
    <3>3. body[f] = history[f][Len(history[f])].body
      BY <2>1, <3>1 DEF IInv, NewestIsPublished, TypeOK
    <3>4. CASE f \in Updated(r)
      <4>1. RowAction(E, f) = "update"
        BY <3>4 DEF RowAction, Updated
      <4>2. body'[f] = history[f][Len(history[f])].body \union {s}
        BY <1>1, <3>3, <3>4
      <4>3. history'[f] = Append(history[f], Row("update", s, body'[f], Len(history[f])))
        BY <1>1, <2>1, <3>1, <3>2, <4>1
      <4> QED BY <3>1, <3>4, <4>2, <4>3 DEF Register!Extension, Register!Row, Row
    <3>5. CASE f \in Deleted(r)
      <4>1. f \notin Updated(r)
        BY <3>5, CommitShape
      <4>2. RowAction(E, f) = "delete"
        BY <4>1 DEF RowAction, Updated
      <4>3. body'[f] = history[f][Len(history[f])].body
        BY <1>1, <3>1, <3>3, <4>1
      <4>4. history'[f] = Append(history[f], Row("delete", s, body'[f], Len(history[f])))
        BY <1>1, <2>1, <3>1, <3>2, <4>2
      <4> QED BY <3>1, <3>5, <4>1, <4>3, <4>4 DEF Register!Extension, Register!Row, Row
    <3> QED BY <2>3, <3>4, <3>5
  <2>4. CASE f \notin N /\ f \notin Updated(r) \union Deleted(r)
    <3>1. f \notin WritesRow(E)
      BY <2>4 DEF WritesRow, Updated, Deleted
    <3> QED BY <1>1, <2>4, <3>1
  <2> QED BY <2>2, <2>3, <2>4
<1> QED BY <1>1, <1>2

\* A row of a session's own.
LEMMA ExtensionIsRow ==
  ASSUME TypeOK, NEW s \in Sessions, NEW f \in Features, NEW action \in {"update", "delete"}
  PROVE  Register!Extension(s, f, action) \in Rows
<1>1. CASE history[f] = <<>>
  BY <1>1 DEF Register!Extension, Register!Row, Rows
<1>2. CASE history[f] # <<>>
  <2>1. history[f] \in Seq(Rows)
    BY DEF TypeOK
  <2>2. Len(history[f]) \in Nat /\ history[f][Len(history[f])] \in Rows
    BY <1>2, <2>1
  <2>3. history[f][Len(history[f])].body \subseteq Sessions
    BY <2>2 DEF Rows
  <2> QED BY <1>2, <2>2, <2>3 DEF Register!Extension, Register!Row, Rows
<1> QED BY <1>1, <1>2

\* The approval's transaction keeps the invariant when it commits.
LEMMA CommitInv ==
  ASSUME IInv, NEW r \in Requests, NEW new \in Features, ApproveCommit(r, new) PROVE IInv'
<1> DEFINE s == req[r].session
           U == Updated(r) \union Made(r, new)
           D == Deleted(r)
<1>1. /\ req' \in ReqType
      /\ req'[r].step = "idle"
      /\ \A q \in Requests \ {r} : req'[q] = req[q]
  BY DEF IInv, TypeOK, ApproveCommit, Goto, Idle, At, Steps, ReqType
<1>2. /\ lock' \in LockType
      /\ \A f \in Features : (lock'[f] = lock[f] /\ lock[f] # r) \/ lock'[f] = NoRequest
      /\ \A f \in Features : lock[f] # r => lock'[f] = lock[f]
  BY DEF IInv, TypeOK, ApproveCommit, LetGo, LockType
<1>3. /\ version' = [f \in Features |-> IF f \in U \union D THEN version[f] + 1 ELSE version[f]]
      /\ body' = [f \in Features |-> IF f \in U THEN body[f] \union {s} ELSE body[f]]
      /\ history' = [f \in Features |->
           IF f \in U THEN Append(history[f], Register!Extension(s, f, "update"))
           ELSE IF f \in D THEN Append(history[f], Register!Extension(s, f, "delete"))
           ELSE history[f]]
  BY CommitEffect
<1>4. s \in Sessions /\ U \subseteq Features /\ D \subseteq Features /\ U \intersect D = {}
  BY CommitShape
<1> HIDE DEF U, D, s
<1>5. /\ version' \in [Features -> Nat]
      /\ body' \in [Features -> SUBSET Sessions]
      /\ history' \in [Features -> Seq(Rows)]
  <2>1. version' \in [Features -> Nat] /\ body' \in [Features -> SUBSET Sessions]
    BY <1>3, <1>4 DEF IInv, TypeOK
  <2>2. ASSUME NEW f \in Features PROVE history'[f] \in Seq(Rows)
    <3>1. history[f] \in Seq(Rows)
      BY DEF IInv, TypeOK
    <3>2. /\ Register!Extension(s, f, "update") \in Rows
          /\ Register!Extension(s, f, "delete") \in Rows
      BY <1>4, ExtensionIsRow DEF IInv
    <3> QED BY <1>3, <3>1, <3>2
  <2> QED BY <1>3, <2>1, <2>2
<1>6. /\ retired' \subseteq Features
      /\ status' \in [Sessions -> Statuses \union {"absent"}]
      /\ edits' = edits
  <2>1. retired' = retired \union D /\ edits' = edits
    BY DEF ApproveCommit, Deleted, D
  <2>2. status' \in [Sessions -> Statuses \union {"absent"}]
    BY DEF IInv, TypeOK, ApproveCommit, Become, Statuses
  <2> QED BY <1>4, <2>1, <2>2 DEF IInv, TypeOK
<1>7. TypeOK'
  BY <1>1, <1>2, <1>5, <1>6 DEF IInv, TypeOK, ReqType, LockType
<1>8. NewestIsPublished' /\ UnmadeIsEmpty'
  <2> SUFFICES ASSUME NEW f \in Features
               PROVE  /\ version'[f] = Len(history'[f])
                      /\ version'[f] > 0 => body'[f] = history'[f][version'[f]].body
                      /\ version'[f] = 0 => body'[f] = {}
    BY DEF NewestIsPublished, UnmadeIsEmpty
  <2>1. /\ history[f] \in Seq(Rows) /\ version[f] = Len(history[f]) /\ version[f] \in Nat
        /\ version[f] > 0 => body[f] = history[f][version[f]].body
        /\ version[f] = 0 => body[f] = {}
    BY DEF IInv, TypeOK, NewestIsPublished, UnmadeIsEmpty
  <2>2. ASSUME NEW row, history'[f] = Append(history[f], row), version'[f] = version[f] + 1,
               body'[f] = row.body
        PROVE  /\ version'[f] = Len(history'[f])
               /\ version'[f] > 0 => body'[f] = history'[f][version'[f]].body
               /\ version'[f] = 0 => body'[f] = {}
    BY <2>1, <2>2
  <2>3. CASE f \in U
    <3>1. Register!Extension(s, f, "update").body = body[f] \union {s}
      BY <2>1 DEF Register!Extension, Register!Row
    <3> QED BY <1>3, <2>2, <2>3, <3>1
  <2>4. CASE f \in D
    <3>1. f \notin U
      BY <1>4, <2>4
    <3>2. version[f] # 0
      BY <2>4, CommitShape DEF D
    <3>3. Register!Extension(s, f, "delete").body = body[f]
      BY <2>1, <3>2 DEF Register!Extension, Register!Row
    <3> QED BY <1>3, <2>2, <2>4, <3>1, <3>3
  <2>5. CASE f \notin U \union D
    BY <1>3, <2>1, <2>5
  <2> QED BY <2>3, <2>4, <2>5
<1>9. OneLiveSession'
  BY DEF IInv, TypeOK, ApproveCommit, Become, OneLiveSession, Live
<1>10. AboutSession'
  BY <1>1 DEF IInv, AboutSession
<1>11. HolderApplies'
  BY <1>1, <1>2 DEF IInv, HolderApplies
<1>12. ASSUME NEW q \in Requests \ {r} PROVE HoldsItsRows(q)'
  <2>1. HoldsItsRows(q) /\ TypeOK /\ req'[q] = req[q]
    BY <1>1 DEF IInv, AppliedIsHeld
  <2>2. ASSUME NEW f \in Features, lock[f] = q, version[f] # 0
        PROVE  lock'[f] = q /\ version'[f] = version[f]
    <3>1. f \notin U \union D
      BY <2>2, CommitShape DEF U, D
    <3> QED BY <1>2, <1>3, <2>2, <3>1
  <2> QED BY <2>1, <2>2, OthersKept
<1>13. HoldsItsRows(r)'
  BY <1>1 DEF HoldsItsRows
<1> QED BY <1>7, <1>8, <1>9, <1>10, <1>11, <1>12, <1>13 DEF IInv, AppliedIsHeld

\* A restoration touches no row an approval has locked.
LEMMA RestoreInv ==
  ASSUME IInv, NEW f \in Features, NEW v \in 1..MaxVersion, Restore(f, v) PROVE IInv'
<1> DEFINE row == Row("restore", NoSession, history[f][v].body, v)
<1>1. /\ history[f] \in Seq(Rows) /\ v \in 1..Len(history[f]) /\ v \in Nat
      /\ version[f] \in Nat /\ version[f] = Len(history[f])
  BY DEF IInv, TypeOK, NewestIsPublished, Restore
<1>2. history[f][v] \in Rows /\ history[f][v].body \subseteq Sessions
  <2>1. history[f][v] \in Rows
    BY <1>1
  <2> QED BY <2>1 DEF Rows
<1>3. row \in Rows /\ row.body = history[f][v].body
  BY <1>1, <1>2 DEF Row, Rows
<1>4. /\ version' = [version EXCEPT ![f] = @ + 1]
      /\ body' = [body EXCEPT ![f] = history[f][v].body]
      /\ history' = [history EXCEPT ![f] = Append(@, row)]
      /\ UNCHANGED <<status, edits, lock, req>> /\ lock[f] = NoRequest
  BY DEF Restore, session, AtEnd
<1>5. retired' \subseteq Features
  BY <1>1 DEF Restore, RestoredStatus, IInv, TypeOK
<1> HIDE DEF row
<1>6. Append(history[f], row) \in Seq(Rows)
  BY <1>1, <1>3
<1>7. TypeOK'
  <2>1. history' \in [Features -> Seq(Rows)]
    BY <1>4, <1>6 DEF IInv, TypeOK
  <2>2. version' \in [Features -> Nat] /\ body' \in [Features -> SUBSET Sessions]
    BY <1>1, <1>2, <1>4 DEF IInv, TypeOK
  <2> QED BY <1>4, <1>5, <2>1, <2>2 DEF IInv, TypeOK
<1>8. NewestIsPublished' /\ UnmadeIsEmpty'
  <2> SUFFICES ASSUME NEW g \in Features
               PROVE  /\ version'[g] = Len(history'[g])
                      /\ version'[g] > 0 => body'[g] = history'[g][version'[g]].body
                      /\ version'[g] = 0 => body'[g] = {}
    BY DEF NewestIsPublished, UnmadeIsEmpty
  <2>1. CASE g = f
    <3>1. /\ version'[f] = Len(history[f]) + 1 /\ body'[f] = row.body
          /\ history'[f] = Append(history[f], row)
      BY <1>1, <1>3, <1>4 DEF IInv, TypeOK
    <3> QED BY <1>1, <2>1, <3>1
  <2>2. CASE g # f
    BY <1>4, <2>2 DEF IInv, TypeOK, NewestIsPublished, UnmadeIsEmpty
  <2> QED BY <2>1, <2>2
<1>9. OneLiveSession' /\ AboutSession' /\ HolderApplies'
  BY <1>4 DEF IInv, OneLiveSession, AboutSession, HolderApplies
<1>10. AppliedIsHeld'
  <2> SUFFICES ASSUME NEW q \in Requests PROVE HoldsItsRows(q)'
    BY DEF AppliedIsHeld
  <2>1. HoldsItsRows(q) /\ TypeOK /\ req'[q] = req[q]
    BY <1>4 DEF IInv, AppliedIsHeld
  <2>2. \A g \in Features : lock[g] = q => lock'[g] = q /\ version'[g] = version[g]
    BY <1>4 DEF IInv, TypeOK
  <2> QED BY <2>1, <2>2, OthersKept
<1> QED BY <1>7, <1>8, <1>9, <1>10 DEF IInv

LEMMA StepInv == IInv /\ [Next]_vars => IInv'
<1> SUFFICES ASSUME IInv, [Next]_vars PROVE IInv'
  OBVIOUS
<1>1. ASSUME NEW r \in Requests, Editor(r) PROVE IInv'
  BY <1>1, EditorInv
<1>2. ASSUME NEW r \in Requests, Approver(r) PROVE IInv'
  BY <1>2, ReviewInv, ValidateInv, LockInv, ConflictInv, CommitInv DEF Approver
<1>3. ASSUME NEW r \in Requests, Fail(r) PROVE IInv'
  BY <1>3, FailInv
<1>4. ASSUME NEW s \in Sessions, Open(s) \/ Decide(s, "rejected") \/ Decide(s, "returned")
      PROVE  IInv'
  BY <1>4, SessionInv
<1>5. ASSUME NEW f \in Restorable, NEW v \in 1..MaxVersion, Restore(f, v) PROVE IInv'
  BY <1>5, RestoreInv
<1>6. CASE UNCHANGED vars
  BY <1>6 DEF vars, IInv, TypeOK, NewestIsPublished, UnmadeIsEmpty, OneLiveSession,
     AboutSession, HolderApplies, AppliedIsHeld, HoldsItsRows
<1> QED BY <1>1, <1>2, <1>3, <1>4, <1>5, <1>6 DEF Next

\* The approvals' locks and the versions they were compared at agree in every state.
THEOREM Invariant == Spec => []IInv
  BY InitInv, StepInv, PTL DEF Spec

\* Every column keeps its type, for any number of sessions, features and requests.
THEOREM Typed == Spec => []TypeOK
  BY Invariant, PTL DEF IInv

\* feature and feature_version agree, whatever approvals and restorations meet.
THEOREM TablesAgree == Spec => []NewestIsPublished
  BY Invariant, PTL DEF IInv

\* No editor ever has two live sessions on a layer.
THEOREM OneLive == Spec => []OneLiveSession
  BY Invariant, PTL DEF IInv

-----------------------------------------------------------------------------
\* The features there are at the start have one version each.
LEMMA InitRefines == Init => Register!AbsInit
<1> SUFFICES ASSUME Init PROVE Register!AbsInit
  OBVIOUS
<1> DEFINE First == [action : {"create"}, by : {NoSession}, body : {{}}, from : {0}]
<1>1. Row("create", NoSession, {}, 0) \in First
  BY DEF Row
<1> HIDE DEF First
<1>2. history \in [Features -> Seq(First)]
  BY <1>1 DEF Init
<1> QED BY <1>2 DEF Register!AbsInit, First

\* Every step extends the history as the abstract register does, or leaves it.
LEMMA StepRefines == IInv /\ [Next]_vars => [Register!AbsNext]_history
<1> SUFFICES ASSUME IInv, [Next]_vars, history' # history PROVE Register!AbsNext
  OBVIOUS
<1>1. ASSUME NEW r \in Requests, NEW new \in Features, ApproveCommit(r, new)
      PROVE  Register!AbsNext
  <2> DEFINE U == Updated(r) \union Made(r, new)
             D == Deleted(r)
             s == req[r].session
  <2>1. history' = [f \in Features |->
           IF f \in U THEN Append(history[f], Register!Extension(s, f, "update"))
           ELSE IF f \in D THEN Append(history[f], Register!Extension(s, f, "delete"))
           ELSE history[f]]
    BY <1>1, CommitEffect
  <2>2. s \in Sessions /\ U \in SUBSET Features /\ D \in SUBSET Features
    BY <1>1, CommitShape
  <2>3. Register!Publish(s, U, D)
    BY <2>1 DEF Register!Publish
  <2> QED BY <2>2, <2>3 DEF Register!AbsNext
<1>2. ASSUME NEW f \in Restorable, NEW v \in 1..MaxVersion, Restore(f, v)
      PROVE  Register!AbsNext
  <2>1. v \in 1..Len(history[f]) /\ f \in Features
    BY <1>2 DEF Restore
  <2>2. Register!PutBack(f, v)
    BY <1>2, <2>1 DEF Restore, AtEnd, Row, Register!PutBack, Register!Row
  <2> QED BY <2>1, <2>2 DEF Register!AbsNext
<1>3. ASSUME NEW r \in Requests, Editor(r) PROVE FALSE
  BY <1>3 DEF Editor, ReadLive, SaveWrite, SubmitRead, SubmitWrite, AbandonWrite, feature
<1>4. ASSUME NEW r \in Requests, Approver(r), \A new \in Features : ~ApproveCommit(r, new)
      PROVE  FALSE
  BY <1>4 DEF Approver, ReviewRead, Validate, LockEdit, Conflict, ReturnConflicting, feature
<1>5. ASSUME NEW r \in Requests, Fail(r) PROVE FALSE
  BY <1>5 DEF Fail, feature
<1>6. ASSUME NEW s \in Sessions, Open(s) \/ Decide(s, "rejected") \/ Decide(s, "returned")
      PROVE  FALSE
  BY <1>6 DEF Open, Decide, feature
<1>7. CASE UNCHANGED vars
  BY <1>7 DEF vars
<1> QED BY <1>1, <1>2, <1>3, <1>4, <1>5, <1>6, <1>7 DEF Next

\* The editing of layers keeps the promise of FeatureRegister: approvals are whole, no
\* edit overwrites a version its editor did not start from, history only grows.
THEOREM Refinement == Spec => ImplementsRegister
<1>1. IInv /\ [Next]_vars => [Register!AbsNext]_history
  BY StepRefines
<1> QED BY InitRefines, Invariant, <1>1, PTL DEF Spec, ImplementsRegister, Register!AbsSpec
=============================================================================
