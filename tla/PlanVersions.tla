---------------------------- MODULE PlanVersions ----------------------------
(***************************************************************************)
(* The versions of a plan and the zone polygons judged under them          *)
(* (src/migrations/150_plan_workbench.sql and 161, the plan workbench's    *)
(* routes, the matrix import and the trigger that files new zones).        *)
(*                                                                         *)
(* A plan goes from draft through public notice and approval to the        *)
(* gazette.  Approval needs a sign-off of the plan's present content; an   *)
(* approved plan is frozen and changed by making its next version.  A      *)
(* version that is gazetted supersedes the one it was made from and takes  *)
(* over that plan's polygons.  Every operation is one transaction under    *)
(* READ COMMITTED, so each of its statements sees what has committed by    *)
(* then; only the rows it updates, or selects FOR UPDATE, are locked.      *)
(*                                                                         *)
(* One plan title of one authority is modelled, with one decision cell in  *)
(* its matrix.  An insert's foreign key also waits for a plan row locked   *)
(* FOR UPDATE, and is waited for; the latter is left out, which allows     *)
(* more interleavings than the database does.                              *)
(***************************************************************************)
EXTENDS Naturals

CONSTANTS
    MaxPlans,      \* bound: versions of the plan
    Requests,      \* workbench requests that may be under way at one time
    Zones,         \* polygons, drawn or yet to be drawn
    Mapped,        \* the polygons of the plan as first mapped
    Codes,         \* zone type codes
    Decisions,     \* what the matrix may say of the cell
    NoCode,        \* the code of a polygon not yet drawn
    Unsigned,      \* no sign-off
    Nobody         \* nobody holds the row

ASSUME PlansAssumption == MaxPlans \in Nat \ {0}
ASSUME MappedAssumption == Mapped \subseteq Zones
ASSUME NullAssumption == NoCode \notin Codes /\ Unsigned \notin Decisions /\ Nobody \notin Requests

VARIABLES
    plans,         \* the rows of plan_instrument are 1..plans
    status,        \* plan_instrument.status
    number,        \* plan_instrument.version
    supersedes,    \* plan_instrument.supersedes_id, 0 for NULL
    content,       \* the decision in the plan's matrix
    signed,        \* content of the latest sign-off
    codes,         \* the codes of the plan's zone types
    under,         \* polygon -> the plan it is filed under, 0 before it is drawn
    code,          \* polygon -> the code of its zone type
    lock,          \* plan -> the request whose transaction holds the row
    req,           \* request -> where it is
    met            \* history: plans in whose approval an import was under way

rows == <<plans, number, supersedes>>
matrix == <<content, signed>>
zoning == <<codes, under, code>>
tables == <<plans, status, number, supersedes, content, signed, codes, under, code, lock, req>>
vars == <<tables, met>>

Plans == 1..MaxPlans
Existing == 1..plans

Statuses == {"unknown", "draft", "public_notice", "approved", "gazetted", "superseded"}

\* plan_status_transition.
Transitions == {<<"unknown", "draft">>, <<"draft", "public_notice">>, <<"public_notice", "draft">>,
                <<"public_notice", "approved">>, <<"approved", "gazetted">>}

\* plan_is_frozen.
FrozenWhen == {"approved", "gazetted", "superseded"}
Frozen(p) == status[p] \in FrozenWhen

\* A request inside its transaction.  "locked": set_plan_status has locked,
\* checked and updated the plan; "superseding": and its predecessor;
\* "checked", "inserted": new_plan_version; "written": a matrix import.
Steps == {"idle", "locked", "superseding", "checked", "inserted", "written"}
Request == [pc : Steps, plan : Plans \union {0}, to : Statuses, moves : SUBSET Zones,
            number : Nat, cell : Decisions \union {Unsigned}]
Idle == [pc |-> "idle", plan |-> 0, to |-> "unknown", moves |-> {}, number |-> 0, cell |-> Unsigned]
At(step, p) == [Idle EXCEPT !.pc = step, !.plan = p]

\* The plan as first mapped, of status unknown until somebody takes it up.
Init ==
    /\ plans = 1
    /\ status = [p \in Plans |-> "unknown"]
    /\ number = [p \in Plans |-> IF p = 1 THEN 1 ELSE 0]
    /\ supersedes = [p \in Plans |-> 0]
    /\ content \in {[p \in Plans |-> d] : d \in Decisions}
    /\ signed = [p \in Plans |-> Unsigned]
    /\ code \in [Zones -> Codes \union {NoCode}]
    /\ \A z \in Zones : code[z] = NoCode <=> z \notin Mapped
    /\ codes = [p \in Plans |-> IF p = 1 THEN {code[z] : z \in Mapped} ELSE {}]
    /\ under = [z \in Zones |-> IF z \in Mapped THEN 1 ELSE 0]
    /\ lock = [p \in Plans |-> Nobody]
    /\ req = [r \in Requests |-> Idle]
    /\ met = {}

-----------------------------------------------------------------------------
(* set_plan_status. *)

\* The fingerprint of the latest sign-off is that of the plan as it is now.
SignedAsItIs(p) == signed[p] = content[p]

\* SELECT ... FOR UPDATE waits for the row.  Mutant: a plain SELECT.
AnyRow(p) == TRUE
FreeRow(p) == lock[p] = Nobody

\* The plan row is locked, the step is in the table of transitions, and an
\* approval finds its sign-off current.  A gazetting without a reference or
\* a date is refused too, and changes nothing.
ChangeStatus(r, p, to) ==
    /\ req[r].pc = "idle" /\ p \in Existing /\ FreeRow(p)
    /\ <<status[p], to>> \in Transitions
    /\ to = "approved" => SignedAsItIs(p)
    /\ lock' = [lock EXCEPT ![p] = r]
    /\ req' = [req EXCEPT ![r] = [At("locked", p) EXCEPT !.to = to]]
    /\ UNCHANGED <<rows, status, matrix, zoning>>

Takes(r) == req[r].to = "gazetted" /\ supersedes[req[r].plan] # 0

\* The polygons whose zone type has one of the same code in the new plan.
\* Mutant: whatever plan they are filed under.
AllOfCode(p, prev) == {z \in Zones : under[z] # 0 /\ code[z] \in codes[p]}
Followers(p, prev) == {z \in Zones : under[z] = prev /\ code[z] \in codes[p]}

\* The version it was made from is updated, whatever its status, and then
\* the polygons filed under it by now.
Supersede(r) ==
    LET p == req[r].plan
        prev == supersedes[p]
    IN
    /\ req[r].pc = "locked" /\ Takes(r) /\ FreeRow(prev)
    /\ lock' = [lock EXCEPT ![prev] = r]
    /\ req' = [req EXCEPT ![r].pc = "superseding", ![r].moves = Followers(p, prev)]
    /\ UNCHANGED <<rows, status, matrix, zoning>>

Release(r) == lock' = [p \in Plans |-> IF lock[p] = r THEN Nobody ELSE lock[p]]
Leave(r) == req' = [req EXCEPT ![r] = Idle]

StatusCommit(r) ==
    LET p == req[r].plan IN
    /\ req[r].pc = "locked" /\ ~Takes(r)
    /\ status' = [status EXCEPT ![p] = req[r].to]
    /\ Release(r) /\ Leave(r)
    /\ UNCHANGED <<rows, matrix, zoning>>

SupersedeCommit(r) ==
    LET p == req[r].plan IN
    /\ req[r].pc = "superseding"
    /\ status' = [status EXCEPT ![p] = "gazetted", ![supersedes[p]] = "superseded"]
    /\ under' = [z \in Zones |-> IF z \in req[r].moves THEN p ELSE under[z]]
    /\ Release(r) /\ Leave(r)
    /\ UNCHANGED <<rows, matrix, codes, code>>

\* A failed statement, or the server dying, before COMMIT.
Rollback(r) ==
    /\ req[r].pc # "idle"
    /\ Release(r) /\ Leave(r)
    /\ UNCHANGED <<rows, status, matrix, zoning>>

-----------------------------------------------------------------------------
(* new_plan_version. *)

\* An approved or gazetted plan without a later version that is still alive.
VersionCheck(r, p) ==
    /\ req[r].pc = "idle" /\ p \in Existing /\ plans < MaxPlans
    /\ status[p] \in {"approved", "gazetted"}
    /\ ~\E q \in Existing : supersedes[q] = p /\ status[q] # "superseded"
    /\ req' = [req EXCEPT ![r] = At("checked", p)]
    /\ UNCHANGED <<rows, status, matrix, zoning, lock>>

\* A foreign key can lock the plan row: nobody holds it FOR UPDATE.
FreeForKeys(p) ==
    \A r \in Requests : req[r].pc \in {"locked", "superseding"} => req[r].plan # p

\* MAX(version) + 1 of the rows committed by now.
VersionInsert(r) ==
    /\ req[r].pc = "checked"
    /\ \E m \in Existing :
         /\ \A q \in Existing : number[q] <= number[m]
         /\ req' = [req EXCEPT ![r].pc = "inserted", ![r].number = number[m] + 1]
    /\ UNCHANGED <<rows, status, matrix, zoning, lock>>

\* uq_plan_instrument.  Mutant: no such index.
Untaken(n) == TRUE
NotTaken(n) == \A q \in Existing : number[q] # n

\* A new version starts as a draft, with what it was made from.
\* Mutant: as a word that the table's CHECK does not know.
AsNew == "new"
AsDraft == "draft"

VersionCommit(r) ==
    LET p == req[r].plan
        new == plans + 1
    IN
    /\ req[r].pc = "inserted" /\ new <= MaxPlans
    /\ NotTaken(req[r].number) /\ FreeForKeys(p)
    /\ plans' = new
    /\ status' = [status EXCEPT ![new] = AsDraft]
    /\ number' = [number EXCEPT ![new] = req[r].number]
    /\ supersedes' = [supersedes EXCEPT ![new] = p]
    /\ content' = [content EXCEPT ![new] = content[p]]
    /\ codes' = [codes EXCEPT ![new] = codes[p]]
    /\ Leave(r)
    /\ UNCHANGED <<signed, under, code, lock>>

-----------------------------------------------------------------------------
(* Matrix import, sign-off, and zones drawn on the map. *)

\* plan_freeze_guard().  Mutant: no such trigger.
AnyPlan(p) == TRUE
Editable(p) == ~Frozen(p)

\* The freeze trigger reads the plan's status and locks nothing; the cell's
\* row stays locked until COMMIT.
CellWrite(r, p, d) ==
    /\ req[r].pc = "idle" /\ p \in Existing /\ Editable(p)
    /\ \A q \in Requests : req[q].pc = "written" => req[q].plan # p
    /\ req' = [req EXCEPT ![r] = [At("written", p) EXCEPT !.cell = d]]
    /\ UNCHANGED <<rows, status, matrix, zoning, lock>>

CellCommit(r) ==
    /\ req[r].pc = "written"
    /\ content' = [content EXCEPT ![req[r].plan] = req[r].cell]
    /\ Leave(r)
    /\ UNCHANGED <<rows, status, signed, zoning, lock>>

\* sign_off_plan takes any plan, whatever its status.
SignOff(p) ==
    /\ p \in Existing
    /\ signed' = [signed EXCEPT ![p] = content[p]]
    /\ UNCHANGED <<rows, status, content, zoning, lock, req>>

\* POST /zones or QGIS: the trigger files the polygon under a plan of the
\* title, LIMIT 1 and of any status, and adds its zone type if there is none.
Draw(z, c, p) ==
    /\ under[z] = 0 /\ p \in Existing /\ FreeForKeys(p)
    /\ under' = [under EXCEPT ![z] = p]
    /\ code' = [code EXCEPT ![z] = c]
    /\ codes' = [codes EXCEPT ![p] = @ \union {c}]
    /\ UNCHANGED <<rows, status, matrix, lock, req>>

Step ==
    \/ \E r \in Requests, p \in Plans :
         \/ \E to \in Statuses : ChangeStatus(r, p, to)
         \/ VersionCheck(r, p)
         \/ \E d \in Decisions : CellWrite(r, p, d)
    \/ \E r \in Requests :
         \/ Supersede(r)
         \/ StatusCommit(r)
         \/ SupersedeCommit(r)
         \/ VersionInsert(r)
         \/ VersionCommit(r)
         \/ CellCommit(r)
         \/ Rollback(r)
    \/ \E p \in Plans : SignOff(p)
    \/ \E z \in Zones, c \in Codes, p \in Plans : Draw(z, c, p)

Approving(p) == \E r \in Requests : req[r].pc = "locked" /\ req[r].plan = p /\ req[r].to = "approved"
Importing(p) == \E r \in Requests : req[r].pc = "written" /\ req[r].plan = p

Noticed ==
    met' = {p \in Plans : \/ (Approving(p) /\ Importing(p))'
                          \/ p \in met /\ (Approving(p) \/ Frozen(p))'}

Next == Step /\ Noticed

Spec == Init /\ [][Next]_vars

-----------------------------------------------------------------------------
(* Properties. *)

RowsTyped ==
    /\ plans \in Plans
    /\ status \in [Plans -> Statuses]
    /\ number \in [Plans -> Nat]
    /\ supersedes \in [Plans -> Plans \union {0}]
    /\ content \in [Plans -> Decisions]
    /\ signed \in [Plans -> Decisions \union {Unsigned}]
    /\ codes \in [Plans -> SUBSET Codes]
    /\ under \in [Zones -> Plans \union {0}]
    /\ code \in [Zones -> Codes \union {NoCode}]
    /\ lock \in [Plans -> Requests \union {Nobody}]
    /\ req \in [Requests -> Request]

TypeOK ==
    /\ RowsTyped
    /\ met \subseteq Plans

\* However requests interleave, no two versions have one number, each is
\* numbered above the one it was made from, and a plan a version was made
\* from never comes to be editable again.
VersionsInOrder ==
    /\ \A p, q \in Existing : number[p] = number[q] => p = q
    /\ \A q \in Existing : supersedes[q] # 0 =>
         supersedes[q] \in Existing /\ number[supersedes[q]] < number[q] /\ Frozen(supersedes[q])

\* A plan takes one step of plan_status_transition at a time, or is
\* superseded in the step that gazettes a version made from it.
StepsByTheTable(p) ==
    \/ <<status[p], status'[p]>> \in Transitions
    \/ /\ status[p] \in {"approved", "gazetted"} /\ status'[p] = "superseded"
       /\ \E q \in Existing :
            supersedes[q] = p /\ status[q] = "approved" /\ status'[q] = "gazetted"
OneStepAtATime == [][\A p \in Existing : status'[p] # status[p] => StepsByTheTable(p)]_vars

\* A polygon only ever passes from a plan to the version made from it, as
\* that version comes into force and the plan goes out of it.
PassesOn(z) ==
    LET p == under[z]
        q == under'[z]
    IN supersedes[q] = p /\ code[z] \in codes[q] /\ status'[p] = "superseded"
         /\ status[q] = "approved" /\ status'[q] = "gazetted"
PolygonsFollow == [][\A z \in Zones : under[z] # 0 /\ under'[z] # under[z] => PassesOn(z)]_vars

\* 150_plan_workbench.sql:199 in the form that holds: what is approved is what was
\* signed off, then and ever after, unless an import was under way while the plan was
\* being approved.
SealedByApproval ==
    [][\A p \in Existing :
         /\ status[p] # "approved" /\ status'[p] = "approved" => content[p] = signed[p] \/ p \in met
         /\ Frozen(p) /\ content'[p] # content[p] => p \in met]_vars

\* Migration 150, lines 21-22: "the superseded version's zone POLYGONS move
\* to the new version's zone types of the same name, so parcels are judged
\* under the plan in force".  No polygon stays under an earlier version once
\* a later one with a zone type of its name is gazetted.
JudgedUnderThePlanInForce ==
    \A z \in Zones, q \in Existing :
        under[z] # 0 /\ status[q] = "gazetted" /\ code[z] \in codes[q] => number[under[z]] >= number[q]
=============================================================================
