------------------------- MODULE PlanVersionsProofs -------------------------
(***************************************************************************)
(* Theorems about PlanVersions, for any number of versions, requests,      *)
(* polygons and zone types.                                                *)
(*                                                                         *)
(* VersionsInOrder is not inductive by itself: what a request is about to  *)
(* write must still be right when it commits.  RequestInOrder says of each *)
(* step of a request what it holds: the rows it has locked, the status it  *)
(* found there, the polygons it is about to move, and that a plan found    *)
(* frozen is frozen still.  It outlives the steps of other requests        *)
(* because a status changes only under the lock of its row.  RowsInv is    *)
(* that half of the invariant; the other, of which SealedByApproval is a   *)
(* consequence, says what an approval under way may rely on.               *)
(***************************************************************************)
EXTENDS PlanVersions, TLAPS

RequestInOrder(r) ==
    LET p == req[r].plan IN
    /\ req[r].pc # "idle" => p \in Existing
    /\ req[r].pc = "locked" => lock[p] = r /\ <<status[p], req[r].to>> \in Transitions
    /\ req[r].pc = "superseding" =>
         /\ lock[p] = r /\ status[p] = "approved" /\ supersedes[p] # 0
         /\ lock[supersedes[p]] = r
         /\ \A z \in req[r].moves : under[z] = supersedes[p] /\ code[z] \in codes[p]
    /\ req[r].pc \in {"checked", "inserted"} => Frozen(p)
    /\ req[r].pc = "inserted" => number[p] < req[r].number
    /\ req[r].pc = "written" => req[r].cell \in Decisions

RequestsInOrder == \A r \in Requests : RequestInOrder(r)

RowsInv == RowsTyped /\ VersionsInOrder /\ RequestsInOrder

\* Idle fits the type of a request.
LEMMA IdleTyped == Idle \in Request
BY NullAssumption DEF Idle, Request, Steps, Statuses

LEMMA InitRows == Init => RowsInv
<1> SUFFICES ASSUME Init PROVE RowsInv
  OBVIOUS
<1>1. RowsTyped
  <2>1. plans \in Plans /\ plans = 1
    BY PlansAssumption DEF Init, Plans
  <2>2. content \in [Plans -> Decisions] /\ \A z \in Mapped : code[z] \in Codes
    BY MappedAssumption DEF Init
  <2>3. codes \in [Plans -> SUBSET Codes]
    BY <2>2 DEF Init
  <2>4. req \in [Requests -> Request]
    BY IdleTyped DEF Init
  <2>5. status \in [Plans -> Statuses] /\ under \in [Zones -> Plans \union {0}]
    BY <2>1, MappedAssumption DEF Init, Statuses
  <2> QED BY <2>1, <2>2, <2>3, <2>4, <2>5 DEF Init, RowsTyped, Plans
<1>2. VersionsInOrder
  <2>1. Existing = {1} /\ 1 \in Plans
    BY PlansAssumption DEF Init, Existing, Plans
  <2> QED BY <2>1 DEF Init, VersionsInOrder
<1>3. \A r \in Requests : req[r] = Idle
  BY DEF Init
<1>4. RequestsInOrder
  BY <1>3 DEF RequestsInOrder, RequestInOrder, Idle
<1> QED BY <1>1, <1>2, <1>4 DEF RowsInv

\* Every row there is lies within the bound.
LEMMA ExistingPlans ==
  ASSUME RowsTyped
  PROVE  Existing \subseteq Plans /\ \A p \in Existing : p \in Nat \ {0}
BY PlansAssumption DEF RowsTyped, Existing, Plans

-----------------------------------------------------------------------------
(* What outlives the steps of others. *)

\* What a request holds is still right after a step that leaves it alone,
\* leaves the rows and polygons under its locks alone, and thaws nothing.
LEMMA OthersKept ==
  ASSUME RowsTyped, VersionsInOrder, NEW r \in Requests, RequestInOrder(r),
         req'[r] = req[r], plans' \in Plans, plans <= plans',
         \A p \in Existing : lock[p] = r => lock'[p] = r /\ status'[p] = status[p],
         \A p \in Existing : Frozen(p) => Frozen(p)',
         \A p \in Existing : number'[p] = number[p] /\ supersedes'[p] = supersedes[p]
                               /\ codes[p] \subseteq codes'[p],
         \A z \in Zones : under[z] \in Existing /\ lock[under[z]] = r
                            => under'[z] = under[z] /\ code'[z] = code[z]
  PROVE  RequestInOrder(r)'
<1> DEFINE p == req[r].plan
<1>1. \A q \in Existing : q \in Existing'
  BY DEF RowsTyped, Existing, Plans
<1>2. CASE req[r].pc = "idle"
  BY <1>2 DEF RequestInOrder
<1>3. CASE req[r].pc = "locked"
  BY <1>1, <1>3 DEF RequestInOrder
<1>4. CASE req[r].pc = "superseding"
  <2>1. p \in Existing /\ supersedes[p] \in Existing
    BY <1>4 DEF RequestInOrder, VersionsInOrder
  <2>2. \A z \in req[r].moves : z \in Zones
    BY DEF RowsTyped, Request
  <2>3. \A z \in req[r].moves : under'[z] = supersedes[p] /\ code'[z] \in codes'[p]
    BY <1>4, <2>1, <2>2 DEF RequestInOrder
  <2> QED BY <1>1, <1>4, <2>1, <2>3 DEF RequestInOrder
<1>5. CASE req[r].pc \in {"checked", "inserted"}
  BY <1>1, <1>5 DEF RequestInOrder
<1>6. CASE req[r].pc = "written"
  BY <1>1, <1>6 DEF RequestInOrder
<1>7. req[r].pc \in Steps
  BY DEF RowsTyped, Request
<1> QED BY <1>2, <1>3, <1>4, <1>5, <1>6, <1>7 DEF Steps

\* A row a request holds is not freed by another's leaving.
LEMMA OthersHold ==
  ASSUME RowsTyped, NEW r \in Requests, Release(r), NEW q \in Requests, q # r,
         NEW p \in Existing, lock[p] = q
  PROVE  lock'[p] = q
<1>1. p \in Plans
  BY ExistingPlans
<1> QED BY <1>1 DEF Release

LEMMA ReleaseTyped ==
  ASSUME RowsTyped, NEW r \in Requests, Release(r), Leave(r)
  PROVE  /\ lock' \in [Plans -> Requests \union {Nobody}]
         /\ req' \in [Requests -> Request] /\ req'[r] = Idle
         /\ \A q \in Requests : q # r => req'[q] = req[q]
BY IdleTyped DEF Release, Leave, RowsTyped

LEMMA IdleInOrder ==
  ASSUME NEW r \in Requests, req'[r] = Idle
  PROVE  RequestInOrder(r)'
BY DEF RequestInOrder, Idle

-----------------------------------------------------------------------------
(* Every action preserves the invariant. *)

LEMMA ChangeStatusInv ==
  ASSUME RowsInv, NEW r \in Requests, NEW p \in Plans, NEW to \in Statuses, ChangeStatus(r, p, to)
  PROVE  RowsInv'
<1> DEFINE new == [At("locked", p) EXCEPT !.to = to]
<1>1. new \in Request /\ new.pc = "locked" /\ new.plan = p /\ new.to = to
  BY NullAssumption DEF At, Idle, Request, Steps, Statuses
<1> HIDE DEF new
<1>2. /\ req' = [req EXCEPT ![r] = new] /\ lock' = [lock EXCEPT ![p] = r]
      /\ lock[p] = Nobody /\ p \in Existing /\ <<status[p], to>> \in Transitions
      /\ UNCHANGED <<plans, number, supersedes, status, content, signed, codes, under, code>>
  BY DEF ChangeStatus, FreeRow, rows, matrix, zoning, new
<1>3. RowsTyped'
  BY <1>1, <1>2 DEF RowsInv, RowsTyped
<1>4. VersionsInOrder'
  BY <1>2 DEF RowsInv, VersionsInOrder, Existing, Frozen
<1>5. RequestsInOrder'
  <2> SUFFICES ASSUME NEW q \in Requests PROVE RequestInOrder(q)'
    BY DEF RequestsInOrder
  <2>1. CASE q = r
    <3>1. req'[q] = new /\ lock'[p] = r
      BY <1>2, <2>1 DEF RowsInv, RowsTyped
    <3> QED BY <1>1, <1>2, <2>1, <3>1 DEF RequestInOrder, Existing
  <2>2. CASE q # r
    <3>1. req'[q] = req[q]
      BY <1>2, <2>2 DEF RowsInv, RowsTyped
    <3>2. \A x \in Existing : lock[x] = q => lock'[x] = q
      BY <1>2, NullAssumption DEF RowsInv, RowsTyped
    <3>3. RequestInOrder(q) /\ plans' \in Plans /\ plans <= plans'
      BY <1>2 DEF RowsInv, RequestsInOrder, RowsTyped, Plans
    <3> QED BY <1>2, <3>1, <3>2, <3>3, OthersKept DEF RowsInv, Frozen
  <2> QED BY <2>1, <2>2
<1> QED BY <1>3, <1>4, <1>5 DEF RowsInv

LEMMA SupersedeInv ==
  ASSUME RowsInv, NEW r \in Requests, Supersede(r) PROVE RowsInv'
<1> DEFINE p == req[r].plan
           prev == supersedes[p]
           F == Followers(p, prev)
<1>1. p \in Existing /\ lock[p] = r /\ <<status[p], "gazetted">> \in Transitions /\ prev # 0
  BY DEF Supersede, Takes, RowsInv, RequestsInOrder, RequestInOrder
<1>2. prev \in Existing /\ prev \in Plans /\ p \in Plans
  BY <1>1, ExistingPlans DEF RowsInv, VersionsInOrder
<1>3. /\ lock' = [lock EXCEPT ![prev] = r] /\ lock[prev] = Nobody
      /\ req' = [req EXCEPT ![r] = [@ EXCEPT !.pc = "superseding", !.moves = F]]
      /\ UNCHANGED <<plans, number, supersedes, status, content, signed, codes, under, code>>
  BY DEF Supersede, FreeRow, rows, matrix, zoning
<1>4. F \in SUBSET Zones /\ \A z \in F : under[z] = prev /\ code[z] \in codes[p]
  BY DEF Followers
<1>5. status[p] = "approved" /\ p # prev
  BY <1>1, <1>3, NullAssumption DEF Transitions
<1> HIDE DEF F
<1>6. [req[r] EXCEPT !.pc = "superseding", !.moves = F] \in Request
  <2>1. req[r] \in Request
    BY DEF RowsInv, RowsTyped
  <2> QED BY <1>4, <2>1 DEF Request, Steps
<1>7. RowsTyped'
  BY <1>2, <1>3, <1>6 DEF RowsInv, RowsTyped
<1>8. VersionsInOrder'
  BY <1>3 DEF RowsInv, VersionsInOrder, Existing, Frozen
<1>9. RequestsInOrder'
  <2> SUFFICES ASSUME NEW q \in Requests PROVE RequestInOrder(q)'
    BY DEF RequestsInOrder
  <2>1. CASE q = r
    <3>1. /\ req'[r].pc = "superseding" /\ req'[r].plan = p /\ req'[r].moves = F
      BY <1>3 DEF RowsInv, RowsTyped, Request
    <3>2. lock'[p] = r /\ lock'[prev] = r
      BY <1>1, <1>2, <1>3, <1>5 DEF RowsInv, RowsTyped
    <3> QED BY <1>1, <1>3, <1>4, <1>5, <2>1, <3>1, <3>2 DEF RequestInOrder, Existing
  <2>2. CASE q # r
    <3>1. req'[q] = req[q]
      BY <1>3, <2>2 DEF RowsInv, RowsTyped
    <3>2. \A x \in Existing : lock[x] = q => lock'[x] = q
      BY <1>2, <1>3, NullAssumption DEF RowsInv, RowsTyped
    <3>3. RequestInOrder(q) /\ plans' \in Plans /\ plans <= plans'
      BY <1>3 DEF RowsInv, RequestsInOrder, RowsTyped, Plans
    <3> QED BY <1>3, <3>1, <3>2, <3>3, OthersKept DEF RowsInv, Frozen
  <2> QED BY <2>1, <2>2
<1> QED BY <1>7, <1>8, <1>9 DEF RowsInv

LEMMA StatusCommitInv ==
  ASSUME RowsInv, NEW r \in Requests, StatusCommit(r) PROVE RowsInv'
<1> DEFINE p == req[r].plan
           to == req[r].to
<1>1. p \in Existing /\ p \in Plans /\ lock[p] = r /\ <<status[p], to>> \in Transitions
  <2>1. p \in Existing /\ lock[p] = r /\ <<status[p], to>> \in Transitions
    BY DEF StatusCommit, RowsInv, RequestsInOrder, RequestInOrder
  <2> QED BY <2>1, ExistingPlans DEF RowsInv
<1>2. /\ status' = [status EXCEPT ![p] = to] /\ Release(r) /\ Leave(r)
      /\ UNCHANGED <<plans, number, supersedes, content, signed, codes, under, code>>
  BY DEF StatusCommit, rows, matrix, zoning
<1>3. to \in Statuses /\ (Frozen(p) => to \in FrozenWhen)
  BY <1>1 DEF Transitions, Statuses, Frozen, FrozenWhen
<1>4. \A x \in Existing : Frozen(x) => Frozen(x)'
  BY <1>1, <1>2, <1>3, ExistingPlans DEF RowsInv, RowsTyped, Frozen
<1>5. RowsTyped'
  BY <1>2, <1>3, ReleaseTyped DEF RowsInv, RowsTyped
<1>6. VersionsInOrder'
  BY <1>2, <1>4 DEF RowsInv, VersionsInOrder, Existing
<1>7. RequestsInOrder'
  <2> SUFFICES ASSUME NEW q \in Requests PROVE RequestInOrder(q)'
    BY DEF RequestsInOrder
  <2>1. CASE q = r
    BY <1>2, <2>1, ReleaseTyped, IdleInOrder DEF RowsInv
  <2>2. CASE q # r
    <3>1. req'[q] = req[q]
      BY <1>2, <2>2, ReleaseTyped DEF RowsInv
    <3>2. \A x \in Existing : lock[x] = q => lock'[x] = q /\ status'[x] = status[x]
      BY <1>1, <1>2, <2>2, OthersHold DEF RowsInv, RowsTyped
    <3>3. RequestInOrder(q) /\ plans' \in Plans /\ plans <= plans'
      BY <1>2 DEF RowsInv, RequestsInOrder, RowsTyped, Plans
    <3> QED BY <1>2, <1>4, <3>1, <3>2, <3>3, OthersKept DEF RowsInv
  <2> QED BY <2>1, <2>2
<1> QED BY <1>5, <1>6, <1>7 DEF RowsInv

\* What a gazetting writes when it commits.
LEMMA SupersedeShape ==
  ASSUME RowsInv, NEW r \in Requests, SupersedeCommit(r)
  PROVE  LET p == req[r].plan
             prev == supersedes[p]
         IN /\ p \in Existing /\ prev \in Existing /\ p \in Plans /\ prev \in Plans /\ p # prev
            /\ lock[p] = r /\ lock[prev] = r /\ status[p] = "approved" /\ Frozen(prev)
            /\ status' = [status EXCEPT ![p] = "gazetted", ![prev] = "superseded"]
            /\ under' = [z \in Zones |-> IF z \in req[r].moves THEN p ELSE under[z]]
            /\ \A z \in req[r].moves : z \in Zones /\ under[z] = prev /\ code[z] \in codes[p]
            /\ Release(r) /\ Leave(r)
            /\ UNCHANGED <<plans, number, supersedes, content, signed, codes, code>>
<1> DEFINE p == req[r].plan
           prev == supersedes[p]
<1>1. /\ p \in Existing /\ lock[p] = r /\ lock[prev] = r /\ status[p] = "approved" /\ prev # 0
      /\ \A z \in req[r].moves : under[z] = prev /\ code[z] \in codes[p]
  BY DEF SupersedeCommit, RowsInv, RequestsInOrder, RequestInOrder
<1>2. prev \in Existing /\ number[prev] < number[p] /\ Frozen(prev)
  BY <1>1 DEF RowsInv, VersionsInOrder
<1>3. p \in Plans /\ prev \in Plans /\ p # prev
  <2>1. number[prev] \in Nat /\ number[p] \in Nat /\ p \in Plans /\ prev \in Plans
    BY <1>1, <1>2, ExistingPlans DEF RowsInv, RowsTyped
  <2> QED BY <1>2, <2>1
<1>4. \A z \in req[r].moves : z \in Zones
  BY DEF RowsInv, RowsTyped, Request
<1> QED BY <1>1, <1>2, <1>3, <1>4 DEF SupersedeCommit, rows, matrix

LEMMA SupersedeCommitInv ==
  ASSUME RowsInv, NEW r \in Requests, SupersedeCommit(r) PROVE RowsInv'
<1> DEFINE p == req[r].plan
           prev == supersedes[p]
<1>1. /\ p \in Existing /\ prev \in Existing /\ p \in Plans /\ prev \in Plans /\ p # prev
      /\ lock[p] = r /\ lock[prev] = r
      /\ status' = [status EXCEPT ![p] = "gazetted", ![prev] = "superseded"]
      /\ under' = [z \in Zones |-> IF z \in req[r].moves THEN p ELSE under[z]]
      /\ \A z \in req[r].moves : z \in Zones /\ under[z] = prev
      /\ Release(r) /\ Leave(r)
      /\ UNCHANGED <<plans, number, supersedes, content, signed, codes, code>>
  BY SupersedeShape
<1>2. \A x \in Existing : Frozen(x) => Frozen(x)'
  BY <1>1, ExistingPlans DEF RowsInv, RowsTyped, Frozen, FrozenWhen
<1>3. RowsTyped'
  <2>1. status' \in [Plans -> Statuses] /\ under' \in [Zones -> Plans \union {0}]
    BY <1>1 DEF RowsInv, RowsTyped, Statuses
  <2> QED BY <1>1, <2>1, ReleaseTyped DEF RowsInv, RowsTyped
<1>4. VersionsInOrder'
  BY <1>1, <1>2 DEF RowsInv, VersionsInOrder, Existing
<1>5. RequestsInOrder'
  <2> SUFFICES ASSUME NEW q \in Requests PROVE RequestInOrder(q)'
    BY DEF RequestsInOrder
  <2>1. CASE q = r
    BY <1>1, <2>1, ReleaseTyped, IdleInOrder DEF RowsInv
  <2>2. CASE q # r
    <3>1. req'[q] = req[q]
      BY <1>1, <2>2, ReleaseTyped DEF RowsInv
    <3>2. \A x \in Existing : lock[x] = q => lock'[x] = q /\ status'[x] = status[x]
      <4>1. \A x \in Existing : lock[x] = q => lock'[x] = q
        BY <1>1, <2>2, OthersHold DEF RowsInv
      <4> QED BY <1>1, <2>2, <4>1, ExistingPlans DEF RowsInv, RowsTyped
    <3>3. RequestInOrder(q) /\ plans' \in Plans /\ plans <= plans'
      BY <1>1 DEF RowsInv, RequestsInOrder, RowsTyped, Plans
    <3>4. \A z \in Zones : lock[under[z]] = q => under'[z] = under[z]
      BY <1>1, <2>2
    <3> QED BY <1>1, <1>2, <3>1, <3>2, <3>3, <3>4, OthersKept DEF RowsInv
  <2> QED BY <2>1, <2>2
<1> QED BY <1>3, <1>4, <1>5 DEF RowsInv

\* A request that only moves itself, or leaves.
LEMMA Alone ==
  ASSUME RowsInv, NEW r \in Requests, RowsTyped', RequestInOrder(r)',
         \A q \in Requests : q # r => req'[q] = req[q],
         \A q \in Requests, p \in Existing : q # r /\ lock[p] = q => lock'[p] = q,
         UNCHANGED <<plans, number, supersedes, status, codes, under, code>>
  PROVE  RowsInv'
<1>1. VersionsInOrder'
  BY DEF RowsInv, VersionsInOrder, Existing, Frozen
<1>2. ASSUME NEW q \in Requests, q # r PROVE RequestInOrder(q)'
  <2>1. RequestInOrder(q) /\ plans' \in Plans /\ plans <= plans'
    BY DEF RowsInv, RequestsInOrder, RowsTyped, Plans
  <2> QED BY <1>2, <2>1, OthersKept DEF RowsInv, Frozen
<1> QED BY <1>1, <1>2 DEF RowsInv, RequestsInOrder

LEMMA RollbackInv ==
  ASSUME RowsInv, NEW r \in Requests, Rollback(r) PROVE RowsInv'
<1>1. /\ Release(r) /\ Leave(r)
      /\ UNCHANGED <<plans, number, supersedes, status, content, signed, codes, under, code>>
  BY DEF Rollback, rows, matrix, zoning
<1>2. RowsTyped'
  BY <1>1, ReleaseTyped DEF RowsInv, RowsTyped
<1>3. /\ req'[r] = Idle /\ \A q \in Requests : q # r => req'[q] = req[q]
      /\ \A q \in Requests, p \in Existing : q # r /\ lock[p] = q => lock'[p] = q
  BY <1>1, ReleaseTyped, OthersHold DEF RowsInv
<1> QED BY <1>1, <1>2, <1>3, IdleInOrder, Alone

LEMMA VersionCheckInv ==
  ASSUME RowsInv, NEW r \in Requests, NEW p \in Plans, VersionCheck(r, p) PROVE RowsInv'
<1> DEFINE new == At("checked", p)
<1>1. new \in Request /\ new.pc = "checked" /\ new.plan = p
  BY NullAssumption DEF At, Idle, Request, Steps, Statuses
<1> HIDE DEF new
<1>2. /\ req' = [req EXCEPT ![r] = new] /\ p \in Existing /\ Frozen(p)
      /\ UNCHANGED <<plans, number, supersedes, status, content, signed, codes, under, code, lock>>
  BY DEF VersionCheck, rows, matrix, zoning, new, Frozen, FrozenWhen
<1>3. RowsTyped' /\ req'[r] = new /\ \A q \in Requests : q # r => req'[q] = req[q]
  BY <1>1, <1>2 DEF RowsInv, RowsTyped
<1>4. RequestInOrder(r)'
  BY <1>1, <1>2, <1>3 DEF RequestInOrder, Existing, Frozen
<1> QED BY <1>2, <1>3, <1>4, Alone

LEMMA VersionInsertInv ==
  ASSUME RowsInv, NEW r \in Requests, VersionInsert(r) PROVE RowsInv'
<1> DEFINE p == req[r].plan
<1>1. PICK m \in Existing :
        /\ \A q \in Existing : number[q] <= number[m]
        /\ req' = [req EXCEPT ![r] = [@ EXCEPT !.pc = "inserted", !.number = number[m] + 1]]
  BY DEF VersionInsert
<1>2. UNCHANGED <<plans, number, supersedes, status, content, signed, codes, under, code, lock>>
  BY DEF VersionInsert, rows, matrix, zoning
<1>3. number[m] \in Nat /\ req[r] \in Request
  BY <1>1, ExistingPlans DEF RowsInv, RowsTyped
<1> DEFINE new == [req[r] EXCEPT !.pc = "inserted", !.number = number[m] + 1]
<1>4. new \in Request /\ new.pc = "inserted" /\ new.plan = p /\ new.number = number[m] + 1
  <2>1. ASSUME NEW k \in Nat, NEW q \in Request
        PROVE  LET x == [q EXCEPT !.pc = "inserted", !.number = k]
               IN x \in Request /\ x.pc = "inserted" /\ x.plan = q.plan /\ x.number = k
    BY DEF Request, Steps
  <2>2. number[m] + 1 \in Nat
    BY <1>3
  <2> QED BY <1>3, <2>1, <2>2
<1>5. p \in Existing /\ Frozen(p)
  BY DEF VersionInsert, RowsInv, RequestsInOrder, RequestInOrder
<1>6. number[p] \in Nat /\ number[p] <= number[m]
  BY <1>1, <1>5, ExistingPlans DEF RowsInv, RowsTyped
<1> HIDE DEF new
<1>7. RowsTyped' /\ req'[r] = new /\ \A q \in Requests : q # r => req'[q] = req[q]
  BY <1>1, <1>2, <1>4 DEF RowsInv, RowsTyped, new
<1>8. RequestInOrder(r)'
  BY <1>2, <1>3, <1>4, <1>5, <1>6, <1>7 DEF RequestInOrder, Existing, Frozen
<1> QED BY <1>2, <1>7, <1>8, Alone

LEMMA VersionCommitInv ==
  ASSUME RowsInv, NEW r \in Requests, VersionCommit(r) PROVE RowsInv'
<1> DEFINE p == req[r].plan
           new == plans + 1
           n == req[r].number
<1>1. /\ p \in Existing /\ Frozen(p) /\ number[p] < n /\ n \in Nat /\ p \in Plans
      /\ \A q \in Existing : number[q] # n
  BY ExistingPlans DEF VersionCommit, NotTaken, RowsInv, RequestsInOrder, RequestInOrder, RowsTyped, Request
<1>2. new \in Plans /\ new \notin Existing /\ plans' = new
      /\ Existing' = Existing \union {new} /\ Existing \subseteq Plans /\ new \in Nat \ {0}
  BY PlansAssumption, ExistingPlans DEF VersionCommit, RowsInv, RowsTyped, Existing, Plans
<1>3. /\ status' = [status EXCEPT ![new] = "draft"] /\ number' = [number EXCEPT ![new] = n]
      /\ supersedes' = [supersedes EXCEPT ![new] = p]
      /\ content' = [content EXCEPT ![new] = content[p]]
      /\ codes' = [codes EXCEPT ![new] = codes[p]]
      /\ req' = [req EXCEPT ![r] = Idle] /\ UNCHANGED <<signed, under, code, lock>>
  BY DEF VersionCommit, AsDraft, Leave
<1> HIDE DEF p, new, n
<1>4. RowsTyped'
  <2>1. content[p] \in Decisions /\ codes[p] \in SUBSET Codes
    BY <1>1 DEF RowsInv, RowsTyped
  <2>2. status' \in [Plans -> Statuses] /\ number' \in [Plans -> Nat]
        /\ supersedes' \in [Plans -> Plans \union {0}]
    BY <1>1, <1>2, <1>3 DEF RowsInv, RowsTyped, Statuses
  <2>3. content' \in [Plans -> Decisions] /\ codes' \in [Plans -> SUBSET Codes]
        /\ req' \in [Requests -> Request]
    BY <1>2, <1>3, <2>1, IdleTyped DEF RowsInv, RowsTyped
  <2> QED BY <1>2, <1>3, <2>2, <2>3 DEF RowsInv, RowsTyped
<1>5. \A q \in Existing : /\ status'[q] = status[q] /\ number'[q] = number[q]
                          /\ supersedes'[q] = supersedes[q] /\ codes'[q] = codes[q]
  BY <1>2, <1>3 DEF RowsInv, RowsTyped
<1>6. number'[new] = n /\ supersedes'[new] = p
  BY <1>2, <1>3 DEF RowsInv, RowsTyped
<1>7. VersionsInOrder'
  <2>1. ASSUME NEW x \in Existing', NEW y \in Existing', number'[x] = number'[y] PROVE x = y
    <3>1. CASE x \in Existing /\ y \in Existing
      BY <1>5, <2>1, <3>1 DEF RowsInv, VersionsInOrder
    <3>2. CASE x = new \/ y = new
      BY <1>1, <1>2, <1>5, <1>6, <2>1, <3>2
    <3> QED BY <1>2, <3>1, <3>2
  <2>2. ASSUME NEW q \in Existing', supersedes'[q] # 0
        PROVE  /\ supersedes'[q] \in Existing' /\ number'[supersedes'[q]] < number'[q]
               /\ status'[supersedes'[q]] \in FrozenWhen
    <3>1. CASE q = new
      BY <1>1, <1>2, <1>5, <1>6, <3>1 DEF Frozen
    <3>2. CASE q \in Existing
      <4>1. supersedes[q] \in Existing /\ number[supersedes[q]] < number[q] /\ Frozen(supersedes[q])
        BY <1>5, <2>2, <3>2 DEF RowsInv, VersionsInOrder
      <4> QED BY <1>2, <1>5, <3>2, <4>1 DEF Frozen
    <3> QED BY <1>2, <3>1, <3>2
  <2> QED BY <2>1, <2>2 DEF VersionsInOrder, Frozen
<1>8. RequestsInOrder'
  <2> SUFFICES ASSUME NEW q \in Requests PROVE RequestInOrder(q)'
    BY DEF RequestsInOrder
  <2>1. CASE q = r
    BY <1>3, <2>1, IdleInOrder DEF RowsInv, RowsTyped
  <2>2. CASE q # r
    <3>1. req'[q] = req[q]
      BY <1>3, <2>2 DEF RowsInv, RowsTyped
    <3>2. RequestInOrder(q) /\ plans' \in Plans /\ plans <= plans'
      BY <1>2 DEF RowsInv, RequestsInOrder, RowsTyped, Plans, new
    <3> QED BY <1>3, <1>5, <3>1, <3>2, OthersKept DEF RowsInv, Frozen
  <2> QED BY <2>1, <2>2
<1> QED BY <1>4, <1>7, <1>8 DEF RowsInv

LEMMA CellWriteInv ==
  ASSUME RowsInv, NEW r \in Requests, NEW p \in Plans, NEW d \in Decisions, CellWrite(r, p, d)
  PROVE  RowsInv'
<1> DEFINE new == [At("written", p) EXCEPT !.cell = d]
<1>1. new \in Request /\ new.pc = "written" /\ new.plan = p /\ new.cell = d
  BY NullAssumption DEF At, Idle, Request, Steps, Statuses
<1> HIDE DEF new
<1>2. /\ req' = [req EXCEPT ![r] = new] /\ p \in Existing
      /\ UNCHANGED <<plans, number, supersedes, status, content, signed, codes, under, code, lock>>
  BY DEF CellWrite, rows, matrix, zoning, new
<1>3. RowsTyped' /\ req'[r] = new /\ \A q \in Requests : q # r => req'[q] = req[q]
  BY <1>1, <1>2 DEF RowsInv, RowsTyped
<1>4. RequestInOrder(r)'
  BY <1>1, <1>2, <1>3 DEF RequestInOrder, Existing
<1> QED BY <1>2, <1>3, <1>4, Alone

LEMMA CellCommitInv ==
  ASSUME RowsInv, NEW r \in Requests, CellCommit(r) PROVE RowsInv'
<1>1. /\ content' = [content EXCEPT ![req[r].plan] = req[r].cell] /\ req' = [req EXCEPT ![r] = Idle]
      /\ UNCHANGED <<plans, number, supersedes, status, signed, codes, under, code, lock>>
  BY DEF CellCommit, Leave, rows, zoning
<1>2. req[r].cell \in Decisions
  BY DEF CellCommit, RowsInv, RequestsInOrder, RequestInOrder
<1>3. RowsTyped' /\ req'[r] = Idle /\ \A q \in Requests : q # r => req'[q] = req[q]
  BY <1>1, <1>2, IdleTyped DEF RowsInv, RowsTyped
<1> QED BY <1>1, <1>3, IdleInOrder, Alone

LEMMA SignOffInv == ASSUME RowsInv, NEW p \in Plans, SignOff(p) PROVE RowsInv'
<1>1. /\ signed' = [signed EXCEPT ![p] = content[p]]
      /\ UNCHANGED <<plans, number, supersedes, status, content, codes, under, code, lock, req>>
  BY DEF SignOff, rows, zoning
<1>2. RowsTyped'
  BY <1>1 DEF RowsInv, RowsTyped
<1>3. VersionsInOrder' /\ RequestsInOrder'
  BY <1>1 DEF RowsInv, VersionsInOrder, RequestsInOrder, RequestInOrder, Existing, Frozen
<1> QED BY <1>2, <1>3 DEF RowsInv

LEMMA DrawInv ==
  ASSUME RowsInv, NEW z \in Zones, NEW c \in Codes, NEW p \in Plans, Draw(z, c, p) PROVE RowsInv'
<1>1. /\ under[z] = 0 /\ under' = [under EXCEPT ![z] = p] /\ code' = [code EXCEPT ![z] = c]
      /\ codes' = [codes EXCEPT ![p] = @ \union {c}]
      /\ UNCHANGED <<plans, number, supersedes, status, content, signed, lock, req>>
  BY DEF Draw, rows, matrix
<1>2. RowsTyped'
  BY <1>1 DEF RowsInv, RowsTyped
<1>3. VersionsInOrder'
  BY <1>1 DEF RowsInv, VersionsInOrder, Existing, Frozen
<1>4. ASSUME NEW q \in Requests PROVE RequestInOrder(q)'
  <2>1. RequestInOrder(q) /\ plans' \in Plans /\ plans <= plans'
    BY <1>1 DEF RowsInv, RequestsInOrder, RowsTyped, Plans
  <2>2. \A x \in Existing : codes[x] \subseteq codes'[x]
    BY <1>1, ExistingPlans DEF RowsInv, RowsTyped
  <2>3. 0 \notin Existing
    BY ExistingPlans DEF RowsInv
  <2>4. \A y \in Zones : under[y] \in Existing => under'[y] = under[y] /\ code'[y] = code[y]
    BY <1>1, <2>3 DEF RowsInv, RowsTyped
  <2> QED BY <1>1, <2>1, <2>2, <2>4, OthersKept DEF RowsInv, Frozen
<1> QED BY <1>2, <1>3, <1>4 DEF RowsInv, RequestsInOrder

LEMMA StepRows == RowsInv /\ [Next]_vars => RowsInv'
<1> SUFFICES ASSUME RowsInv, [Next]_vars PROVE RowsInv'
  OBVIOUS
<1>1. ASSUME NEW r \in Requests, NEW p \in Plans, NEW to \in Statuses, ChangeStatus(r, p, to)
      PROVE  RowsInv'
  BY <1>1, ChangeStatusInv
<1>2. ASSUME NEW r \in Requests, NEW p \in Plans, VersionCheck(r, p) PROVE RowsInv'
  BY <1>2, VersionCheckInv
<1>3. ASSUME NEW r \in Requests, NEW p \in Plans, NEW d \in Decisions, CellWrite(r, p, d)
      PROVE  RowsInv'
  BY <1>3, CellWriteInv
<1>4. ASSUME NEW r \in Requests, Supersede(r) \/ StatusCommit(r) \/ SupersedeCommit(r) PROVE RowsInv'
  BY <1>4, SupersedeInv, StatusCommitInv, SupersedeCommitInv
<1>5. ASSUME NEW r \in Requests,
             VersionInsert(r) \/ VersionCommit(r) \/ CellCommit(r) \/ Rollback(r)
      PROVE  RowsInv'
  BY <1>5, VersionInsertInv, VersionCommitInv, CellCommitInv, RollbackInv
<1>6. ASSUME NEW p \in Plans, SignOff(p) PROVE RowsInv'
  BY <1>6, SignOffInv
<1>7. ASSUME NEW z \in Zones, NEW c \in Codes, NEW p \in Plans, Draw(z, c, p) PROVE RowsInv'
  BY <1>7, DrawInv
<1>8. CASE UNCHANGED vars
  BY <1>8 DEF vars, tables, RowsInv, RowsTyped, VersionsInOrder, RequestsInOrder, RequestInOrder, Existing, Frozen
<1> QED BY <1>1, <1>2, <1>3, <1>4, <1>5, <1>6, <1>7, <1>8 DEF Next, Step

\* The first half of the invariant holds in every reachable state.
THEOREM RowsInvariant == Spec => []RowsInv
BY InitRows, StepRows, PTL DEF Spec

\* However many versions are made at once, their numbers differ and rise, and
\* what they were made from stays frozen.
THEOREM InOrder == Spec => []VersionsInOrder
BY RowsInvariant, PTL DEF RowsInv

-----------------------------------------------------------------------------
(* Steps. *)

\* Which actions change a status.
LEMMA StatusSteps ==
  ASSUME RowsInv, [Next]_vars, NEW p \in Existing, status'[p] # status[p]
  PROVE  \E r \in Requests : StatusCommit(r) \/ SupersedeCommit(r)
<1>1. ASSUME NEW r \in Requests, VersionCommit(r) PROVE FALSE
  <2>1. plans + 1 # p
    BY DEF RowsInv, RowsTyped, Existing, Plans
  <2> QED BY <1>1, <2>1, ExistingPlans DEF VersionCommit, RowsInv, RowsTyped
<1>2. ASSUME UNCHANGED status PROVE FALSE
  BY <1>2
<1> QED BY <1>1, <1>2 DEF Next, Step, tables, ChangeStatus, Supersede, Rollback, VersionCheck, VersionInsert,
        CellWrite, CellCommit, SignOff, Draw, vars

LEMMA OneStep ==
  ASSUME RowsInv, [Next]_vars, NEW p \in Existing, status'[p] # status[p]
  PROVE  StepsByTheTable(p)
<1>1. PICK r \in Requests : StatusCommit(r) \/ SupersedeCommit(r)
  BY StatusSteps
<1> DEFINE x == req[r].plan
<1>2. CASE StatusCommit(r)
  <2>1. lock[x] = r /\ <<status[x], req[r].to>> \in Transitions /\ x \in Existing
    BY <1>2 DEF StatusCommit, RowsInv, RequestsInOrder, RequestInOrder
  <2>2. x = p /\ status'[p] = req[r].to
    BY <1>2, <2>1, ExistingPlans DEF StatusCommit, RowsInv, RowsTyped
  <2> QED BY <2>1, <2>2 DEF StepsByTheTable
<1>3. CASE SupersedeCommit(r)
  <2> DEFINE prev == supersedes[x]
  <2>1. /\ x \in Existing /\ prev \in Existing /\ x \in Plans /\ prev \in Plans /\ x # prev
        /\ status[x] = "approved" /\ Frozen(prev)
        /\ status' = [status EXCEPT ![x] = "gazetted", ![prev] = "superseded"]
    BY <1>3, SupersedeShape
  <2>2. status'[x] = "gazetted" /\ status'[prev] = "superseded" /\ (p = x \/ p = prev)
    BY <2>1, ExistingPlans DEF RowsInv, RowsTyped
  <2>3. CASE p = x
    BY <2>1, <2>2, <2>3 DEF StepsByTheTable, Transitions
  <2>4. CASE p = prev
    <3>1. status[p] \in {"approved", "gazetted"}
      BY <2>1, <2>2, <2>4 DEF Frozen, FrozenWhen
    <3> QED BY <2>1, <2>2, <2>4, <3>1 DEF StepsByTheTable
  <2> QED BY <2>2, <2>3, <2>4
<1> QED BY <1>1, <1>2, <1>3

\* Whatever requests run at once, a plan's status moves along the table, one
\* step at a time.
THEOREM StatusMoves == Spec => OneStepAtATime
<1>1. RowsInv /\ [Next]_vars
        => [\A p \in Existing : status'[p] # status[p] => StepsByTheTable(p)]_vars
  BY OneStep
<1> QED BY <1>1, RowsInvariant, PTL DEF Spec, OneStepAtATime

LEMMA OnePass ==
  ASSUME RowsInv, [Next]_vars, NEW z \in Zones, under[z] # 0, under'[z] # under[z]
  PROVE  PassesOn(z)
<1>1. ASSUME NEW y \in Zones, NEW c \in Codes, NEW p \in Plans, Draw(y, c, p) PROVE FALSE
  BY <1>1 DEF Draw, RowsInv, RowsTyped
<1>2. ASSUME UNCHANGED under PROVE FALSE
  BY <1>2
<1>3. PICK r \in Requests : SupersedeCommit(r)
  BY <1>1, <1>2 DEF Next, Step, tables, ChangeStatus, Supersede, StatusCommit, Rollback, VersionCheck,
     VersionInsert, VersionCommit, CellWrite, CellCommit, SignOff, vars, zoning
<1> DEFINE x == req[r].plan
           prev == supersedes[x]
<1>4. /\ x \in Plans /\ prev \in Plans /\ x # prev /\ status[x] = "approved"
      /\ status' = [status EXCEPT ![x] = "gazetted", ![prev] = "superseded"]
      /\ under' = [y \in Zones |-> IF y \in req[r].moves THEN x ELSE under[y]]
      /\ \A y \in req[r].moves : y \in Zones /\ under[y] = prev /\ code[y] \in codes[x]
  BY <1>3, SupersedeShape
<1>5. under'[z] = x /\ under[z] = prev /\ code[z] \in codes[x]
  BY <1>4
<1>6. status'[x] = "gazetted" /\ status'[prev] = "superseded"
  BY <1>4 DEF RowsInv, RowsTyped
<1> QED BY <1>4, <1>5, <1>6 DEF PassesOn

\* A polygon is handed only from a plan to its successor, as that takes force.
THEOREM HandedOn == Spec => PolygonsFollow
<1>1. RowsInv /\ [Next]_vars
        => [\A z \in Zones : under[z] # 0 /\ under'[z] # under[z] => PassesOn(z)]_vars
  BY OnePass
<1> QED BY <1>1, RowsInvariant, PTL DEF Spec, PolygonsFollow

-----------------------------------------------------------------------------
(* What is approved is what was signed off. *)

\* The plan of an approval under way is as it was signed off, and a frozen one has
\* no import under way, unless an import met the approval.
ApprovalSigned ==
    \A p \in Existing : Approving(p) => content[p] = signed[p] \/ p \in met
MeetingsNoticed ==
    \A p \in Existing : (Approving(p) \/ Frozen(p)) /\ Importing(p) => p \in met

IInv ==
    /\ RowsInv
    /\ TypeOK
    /\ ApprovalSigned
    /\ MeetingsNoticed

LEMMA InitMore == Init => IInv
<1> SUFFICES ASSUME Init PROVE IInv
  OBVIOUS
<1>1. \A r \in Requests : req[r].pc = "idle"
  BY DEF Init, Idle
<1>2. met = {}
  BY DEF Init
<1> QED BY <1>1, <1>2, InitRows
        DEF IInv, RowsInv, TypeOK, ApprovalSigned, MeetingsNoticed, Approving, Importing

\* What a step of a request leaves it with, if it is a lock or a cell written.
LEMMA Begun ==
  ASSUME RowsInv, Step, NEW r \in Requests, req'[r] # req[r]
  PROVE  /\ req'[r].pc = "locked" => \E p \in Plans, to \in Statuses :
              ChangeStatus(r, p, to) /\ req'[r].plan = p /\ req'[r].to = to
         /\ req'[r].pc = "written" => \E p \in Plans, d \in Decisions :
              CellWrite(r, p, d) /\ req'[r].plan = p
<1> USE DEF RowsInv, RowsTyped
<1>1. ASSUME NEW q \in Requests, NEW p \in Plans, NEW to \in Statuses, ChangeStatus(q, p, to)
      PROVE  q = r /\ req'[r].pc = "locked" /\ req'[r].plan = p /\ req'[r].to = to
  <2>1. req' = [req EXCEPT ![q] = [At("locked", p) EXCEPT !.to = to]]
    BY <1>1 DEF ChangeStatus
  <2>2. q = r /\ req'[r] = [At("locked", p) EXCEPT !.to = to]
    BY <2>1
  <2> QED BY <2>2 DEF At, Idle
<1>2. ASSUME NEW q \in Requests, NEW p \in Plans, NEW d \in Decisions, CellWrite(q, p, d)
      PROVE  q = r /\ req'[r].pc = "written" /\ req'[r].plan = p
  <2>1. req' = [req EXCEPT ![q] = [At("written", p) EXCEPT !.cell = d]]
    BY <1>2 DEF CellWrite
  <2>2. q = r /\ req'[r] = [At("written", p) EXCEPT !.cell = d]
    BY <2>1
  <2> QED BY <2>2 DEF At, Idle
<1>3. ASSUME NEW q \in Requests, NEW p \in Plans, VersionCheck(q, p) PROVE req'[r].pc = "checked"
  <2>1. req' = [req EXCEPT ![q] = At("checked", p)]
    BY <1>3 DEF VersionCheck
  <2>2. req'[r] = At("checked", p)
    BY <2>1
  <2> QED BY <2>2 DEF At, Idle
<1>4. ASSUME NEW q \in Requests, Supersede(q) PROVE req'[r].pc = "superseding"
  BY <1>4 DEF Supersede, Request
<1>5. ASSUME NEW q \in Requests, VersionInsert(q) PROVE req'[r].pc = "inserted"
  BY <1>5 DEF VersionInsert, Request
<1>6. ASSUME NEW q \in Requests, Leave(q) PROVE req'[r].pc = "idle"
  BY <1>6 DEF Leave, Idle
<1>7. ASSUME UNCHANGED req PROVE FALSE
  BY <1>7
<1>8. CASE \E q \in Requests, p \in Plans :
             \/ \E to \in Statuses : ChangeStatus(q, p, to)
             \/ VersionCheck(q, p)
             \/ \E d \in Decisions : CellWrite(q, p, d)
  BY <1>1, <1>2, <1>3, <1>8
<1>9. CASE \E q \in Requests : Supersede(q) \/ VersionInsert(q)
  BY <1>4, <1>5, <1>9
<1>10. CASE \E q \in Requests : Leave(q)
  BY <1>6, <1>10
<1> QED BY <1>7, <1>8, <1>9, <1>10 DEF Step, StatusCommit, SupersedeCommit, VersionCommit,
        CellCommit, Rollback, SignOff, Draw

\* A plan that has just been made is a draft nobody is approving.
LEMMA Newborn ==
  ASSUME RowsInv, [Next]_vars, NEW p \in Existing', p \notin Existing
  PROVE  ~Approving(p)' /\ ~Frozen(p)'
<1> USE DEF RowsInv, RowsTyped
<1>1. PICK r \in Requests : VersionCommit(r)
  BY DEF Next, Step, vars, tables, rows, ChangeStatus, Supersede, StatusCommit, SupersedeCommit,
     Rollback, VersionCheck, VersionInsert, CellWrite, CellCommit, SignOff, Draw, Existing
<1>2. p = plans + 1 /\ p \in Plans
  BY <1>1, ExistingPlans DEF VersionCommit, Existing, Plans
<1>3. status'[p] = "draft"
  BY <1>1, <1>2 DEF VersionCommit, AsDraft
<1>4. \A q \in Requests : req'[q] = req[q] \/ req'[q] = Idle
  BY <1>1 DEF VersionCommit, Leave
<1>5. \A q \in Requests : req[q].pc = "locked" => req[q].plan # p
  BY DEF RequestsInOrder, RequestInOrder
<1>6. ~Approving(p)'
  BY <1>4, <1>5 DEF Approving, Idle
<1> QED BY <1>3, <1>6 DEF Frozen, FrozenWhen

\* A plan is frozen by the commit of its approval.
LEMMA Approved ==
  ASSUME RowsInv, [Next]_vars, NEW p \in Existing,
         \/ ~Frozen(p) /\ Frozen(p)'
         \/ status[p] # "approved" /\ status'[p] = "approved"
  PROVE  \E r \in Requests : StatusCommit(r) /\ req[r].plan = p /\ req[r].to = "approved"
<1>1. StepsByTheTable(p)
  BY OneStep DEF Frozen
<1>2. status'[p] = "approved" /\ status[p] # "approved"
  BY <1>1 DEF StepsByTheTable, Transitions, Frozen, FrozenWhen
<1>3. PICK r \in Requests : StatusCommit(r) \/ SupersedeCommit(r)
  BY <1>2, StatusSteps
<1>4. ~SupersedeCommit(r)
  <2> SUFFICES ASSUME SupersedeCommit(r) PROVE FALSE
    OBVIOUS
  <2>1. status' = [status EXCEPT ![req[r].plan] = "gazetted",
                                 ![supersedes[req[r].plan]] = "superseded"]
    BY SupersedeShape
  <2> QED BY <1>2, <2>1, ExistingPlans DEF RowsInv, RowsTyped
<1>5. status' = [status EXCEPT ![req[r].plan] = req[r].to]
  BY <1>3, <1>4 DEF StatusCommit
<1> QED BY <1>2, <1>3, <1>4, <1>5, ExistingPlans DEF RowsInv, RowsTyped

\* The commit of an approval is of a plan that was being approved.
LEMMA ApprovedApproving ==
  ASSUME NEW r \in Requests, StatusCommit(r), req[r].to = "approved"
  PROVE  Approving(req[r].plan)
BY DEF StatusCommit, Approving

\* The content of a plan changes when an import into it commits.
LEMMA ContentSteps ==
  ASSUME RowsInv, [Next]_vars, NEW p \in Existing, content'[p] # content[p]
  PROVE  Importing(p) /\ signed' = signed
<1>1. ASSUME NEW r \in Requests, VersionCommit(r) PROVE FALSE
  <2>1. plans + 1 # p
    BY DEF RowsInv, RowsTyped, Existing, Plans
  <2> QED BY <1>1, <2>1, ExistingPlans DEF VersionCommit, RowsInv, RowsTyped
<1>2. ASSUME UNCHANGED content PROVE FALSE
  BY <1>2
<1>3. PICK r \in Requests : CellCommit(r)
  BY <1>1, <1>2 DEF Next, Step, tables, vars, matrix, ChangeStatus, Supersede, StatusCommit,
     SupersedeCommit, Rollback, VersionCheck, VersionInsert, CellWrite, SignOff, Draw
<1>4. req[r].plan = p
  BY <1>3 DEF CellCommit, RowsInv, RowsTyped
<1> QED BY <1>3, <1>4 DEF CellCommit, Importing

\* A sign-off signs what there is.
LEMMA SignedSteps ==
  ASSUME RowsInv, [Next]_vars, NEW p \in Existing, signed'[p] # signed[p]
  PROVE  signed'[p] = content[p] /\ content' = content
<1>1. ASSUME UNCHANGED signed PROVE FALSE
  BY <1>1
<1>2. PICK q \in Plans : SignOff(q)
  BY <1>1 DEF Next, Step, tables, vars, matrix, ChangeStatus, Supersede, StatusCommit,
     SupersedeCommit, Rollback, VersionCheck, VersionInsert, VersionCommit, CellWrite, CellCommit, Draw
<1> QED BY <1>2, ExistingPlans DEF SignOff, RowsInv, RowsTyped

\* An import that met an approval is remembered while that lasts, and for ever if
\* it succeeds.
LEMMA Remembered ==
  ASSUME RowsInv, [Next]_vars, NEW p \in Plans, p \in met, Approving(p)' \/ Frozen(p)'
  PROVE  p \in met'
BY DEF Next, Noticed, vars

LEMMA ApprovalStep == ASSUME IInv, [Next]_vars PROVE ApprovalSigned'
<1> USE DEF IInv
<1> SUFFICES ASSUME NEW p \in Existing', Approving(p)'
             PROVE  content'[p] = signed'[p] \/ p \in met'
  BY DEF ApprovalSigned
<1>1. p \in Existing /\ p \in Plans
  BY Newborn, ExistingPlans DEF RowsInv
<1>2. CASE p \in met
  BY <1>1, <1>2, Remembered
<1>3. CASE Approving(p) /\ p \notin met
  <2>1. content[p] = signed[p] /\ ~Importing(p)
    BY <1>1, <1>3 DEF ApprovalSigned, MeetingsNoticed
  <2> QED BY <1>1, <2>1, ContentSteps, SignedSteps
<1>4. CASE ~Approving(p)
  <2>1. PICK r \in Requests : req'[r].pc = "locked" /\ req'[r].plan = p /\ req'[r].to = "approved"
    BY DEF Approving
  <2>2. req'[r] # req[r]
    BY <1>4, <2>1 DEF Approving
  <2>3. Step
    BY <2>2 DEF Next, vars, tables
  <2>4. ChangeStatus(r, p, "approved")
    BY <2>1, <2>2, <2>3, Begun
  <2> QED BY <2>4 DEF ChangeStatus, SignedAsItIs, matrix
<1> QED BY <1>2, <1>3, <1>4

LEMMA MeetingStep == ASSUME IInv, [Next]_vars PROVE MeetingsNoticed'
<1> USE DEF IInv
<1> SUFFICES ASSUME NEW p \in Existing', Approving(p)' \/ Frozen(p)', Importing(p)'
             PROVE  p \in met'
  BY DEF MeetingsNoticed
<1>1. p \in Existing /\ p \in Plans
  BY Newborn, ExistingPlans DEF RowsInv
<1>2. CASE p \in met
  BY <1>1, <1>2, Remembered
<1>3. CASE Approving(p)' /\ ~UNCHANGED vars
  BY <1>1, <1>3 DEF Next, Noticed
<1>4. CASE Frozen(p) /\ p \notin met
  <2>1. ~Importing(p)
    BY <1>1, <1>4 DEF MeetingsNoticed
  <2>2. PICK r \in Requests : req'[r].pc = "written" /\ req'[r].plan = p
    BY DEF Importing
  <2>3. req'[r] # req[r]
    BY <2>1, <2>2 DEF Importing
  <2>4. Step
    BY <2>3 DEF Next, vars, tables
  <2>5. PICK d \in Decisions : CellWrite(r, p, d)
    BY <2>2, <2>3, <2>4, Begun
  <2> QED BY <1>4, <2>5 DEF CellWrite, Editable
<1>5. CASE Frozen(p)' /\ ~Frozen(p)
  <2>1. PICK r \in Requests : StatusCommit(r) /\ req[r].plan = p /\ req[r].to = "approved"
    BY <1>1, <1>5, Approved
  <2>2. \A q \in Requests : req'[q] = req[q] \/ req'[q].pc = "idle"
    BY <2>1 DEF StatusCommit, Leave, RowsInv, RowsTyped, Idle
  <2>3. Importing(p) /\ Approving(p)
    BY <2>1, <2>2, ApprovedApproving DEF Importing
  <2>4. p \in met
    BY <1>1, <2>3 DEF MeetingsNoticed
  <2> QED BY <1>1, <2>4, Remembered
<1>6. CASE UNCHANGED vars
  BY <1>1, <1>6 DEF MeetingsNoticed, vars, tables, Approving, Importing, Frozen
<1> QED BY <1>2, <1>3, <1>4, <1>5, <1>6

LEMMA StepMore == IInv /\ [Next]_vars => IInv'
<1> SUFFICES ASSUME IInv, [Next]_vars PROVE IInv'
  OBVIOUS
<1>1. RowsInv'
  BY StepRows DEF IInv
<1>2. met' \subseteq Plans
  BY DEF IInv, TypeOK, Next, Noticed, vars
<1> QED BY <1>1, <1>2, ApprovalStep, MeetingStep DEF IInv, TypeOK, RowsInv

\* The inductive invariant holds in every reachable state.
THEOREM Invariant == Spec => []IInv
BY InitMore, StepMore, PTL DEF Spec

\* Every variable keeps its type.
THEOREM Typed == Spec => []TypeOK
BY Invariant, PTL DEF IInv

\* Whatever imports, sign-offs and approvals run at once, an approved plan is and stays
\* what was signed off, unless an import was under way while it was approved.
THEOREM SealedTheorem == Spec => SealedByApproval
<1> DEFINE A == \A p \in Existing :
         /\ status[p] # "approved" /\ status'[p] = "approved" => content[p] = signed[p] \/ p \in met
         /\ Frozen(p) /\ content'[p] # content[p] => p \in met
<1>1. ASSUME IInv, [Next]_vars, NEW p \in Existing, status[p] # "approved", status'[p] = "approved"
      PROVE  content[p] = signed[p] \/ p \in met
  <2>1. Approving(p)
    BY <1>1, Approved, ApprovedApproving DEF IInv
  <2> QED BY <1>1, <2>1 DEF IInv, ApprovalSigned
<1>2. ASSUME IInv, [Next]_vars, NEW p \in Existing, Frozen(p), content'[p] # content[p]
      PROVE  p \in met
  <2>1. Importing(p)
    BY <1>2, ContentSteps DEF IInv
  <2> QED BY <1>2, <2>1 DEF IInv, MeetingsNoticed
<1>3. IInv /\ [Next]_vars => [A]_vars
  BY <1>1, <1>2
<1> QED BY <1>3, Invariant, PTL DEF Spec, SealedByApproval
=============================================================================
