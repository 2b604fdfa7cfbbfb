-------------------------- MODULE StandAllocation --------------------------
(***************************************************************************)
(* The register of stands and of their allocations                         *)
(* (src/src/routes/stands.js, with the constraints of migrations 062, 105, *)
(* 107 and 172).                                                           *)
(*                                                                         *)
(* Citizens reserve stands; officers create, edit, withdraw, merge, split, *)
(* allocate and revoke them.  A transaction holds the row locks it has     *)
(* taken (SELECT ... FOR UPDATE, UPDATE) until it ends, and its writes are *)
(* seen when it commits.  Where a statement makes a stand active, what its *)
(* trigger has read may be stale when it commits: the look and the commit  *)
(* are steps of their own, one look for each row that is inserted.  A      *)
(* citizen's statement finds the stand active, and is one step.            *)
(*                                                                         *)
(* Not modelled: geometry is a fixed set of plots per stand (so no edit of *)
(* a boundary), stand numbers, prices, conditions, certificates.           *)
(***************************************************************************)
EXTENDS Integers, FiniteSets

CONSTANTS
    Stands,        \* rows the table stands may come to have
    Plots,         \* pieces of ground
    Ground,        \* stand -> the plots in its geometry
    Surveyed,      \* the stands there are at the start
    Citizens,
    Officers,      \* requests by officers that may be under way at one time
    MaxRef,        \* bound: reference numbers
    ByHand,        \* bound: stands whose status is edited by hand
    MaxEdits,      \* bound: edits of one such stand
    Estates,       \* bound: stands whose estate requirement is set or cleared
    NoOne

ASSUME GroundAssumption == Ground \in [Stands -> (SUBSET Plots) \ {{}}]
ASSUME SurveyedAssumption ==
    /\ Surveyed \subseteq Stands
    /\ \A s, t \in Surveyed : s # t => Ground[s] \intersect Ground[t] = {}
ASSUME NoOneAssumption == NoOne \notin Citizens \union Officers
ASSUME RefAssumption == MaxRef \in Nat

VARIABLES
    status,        \* stands.status, "absent" when there is no row
    reservedBy,    \* stands.reserved_by
    live,          \* stands whose reserved_until is in the future
    estate,        \* stands.requires_minister_approval
    approved,      \* the approval that allocations name is in effect
    entry,         \* reference number -> stand_allocation
    lock,          \* stand -> the officer's transaction holding its row
    txn,           \* officer -> the transaction or statement under way
    edits,         \* history: stand -> how often its status was set by hand
    unseen,        \* history: officer -> <<s, t>>: t came to be active on the ground of
                   \* s since the trigger looked for its write of s
    effective      \* history: officers in whose allocation under way of a stand that needs
                   \* the approval it has been in effect

stands == <<status, reservedBy, live>>
tables == <<status, reservedBy, live, estate, approved, entry, lock, txn, edits>>
history == <<unseen, effective>>
vars == <<tables, history>>

Statuses == {"available", "reserved", "allocated", "withdrawn"}
Offered == {"available", "reserved"}

\* What an officer's request does next.  "number": the row is locked and checked;
\* "insert": the reference number has been read; "entered": the entry is inserted;
\* "freed": the entry is revoked and its stand made available.
Ops == {"none", "create", "edit", "reparcel", "number", "insert", "entered", "revoke", "freed"}

\* from: the rows it holds, or will; onto: the rows it will insert; passed: the rows it
\* has written for which the trigger has looked.
Doing(op, from, onto, to, ref, passed) ==
    [op |-> op, from |-> from, onto |-> onto, to |-> to, ref |-> ref, passed |-> passed]
Idle == Doing("none", {}, {}, "available", 0, {})

Txns == [op : Ops, from : SUBSET Stands, onto : SUBSET Stands, to : Statuses, ref : Nat,
         passed : SUBSET Stands]

Refs == 1..MaxRef
Entries == [stand : Stands \union {NoOne}, state : {"none", "active", "revoked"}]

TablesTyped ==
    /\ status \in [Stands -> Statuses \union {"absent"}]
    /\ reservedBy \in [Stands -> Citizens \union {NoOne}]
    /\ live \subseteq Stands
    /\ estate \subseteq Stands
    /\ approved \in BOOLEAN
    /\ entry \in [Refs -> Entries]
    /\ lock \in [Stands -> Officers \union {NoOne}]
    /\ txn \in [Officers -> Txns]
    /\ edits \in [Stands -> Nat]

TypeOK ==
    /\ TablesTyped
    /\ unseen \in [Officers -> SUBSET (Stands \X Stands)]
    /\ effective \subseteq Officers

Init ==
    /\ status = [s \in Stands |-> IF s \in Surveyed THEN "available" ELSE "absent"]
    /\ reservedBy = [s \in Stands |-> NoOne]
    /\ live = {}
    /\ estate = {}
    /\ approved = FALSE
    /\ entry = [r \in Refs |-> [stand |-> NoOne, state |-> "none"]]
    /\ lock = [s \in Stands |-> NoOne]
    /\ txn = [o \in Officers |-> Idle]
    /\ edits = [s \in Stands |-> 0]
    /\ unseen = [o \in Officers |-> {}]
    /\ effective = {}

-----------------------------------------------------------------------------
Free(o) == txn[o].op = "none"
Unlocked(S) == \A s \in S : lock[s] = NoOne

Hold(o, S) == lock' = [s \in Stands |-> IF s \in S THEN o ELSE lock[s]]
LetGo(o) == lock' = [s \in Stands |-> IF lock[s] = o THEN NoOne ELSE lock[s]]

Begin(o, t) == txn' = [txn EXCEPT ![o] = t]
End(o) == Begin(o, Idle) /\ LetGo(o)

Covered(S) == UNION {Ground[s] : s \in S}
Active == {s \in Stands : status[s] \in Statuses \ {"withdrawn"}}

\* stands_no_overlap(): the other stands in the way of s, withdrawn ones excepted.
\* Mutant: those that are taken excepted too.
ClashesOffered(s) ==
    {t \in Stands \ {s} : status[t] = "available" /\ Ground[t] \intersect Ground[s] # {}}
Clashes(s) == {t \in Active \ {s} : Ground[t] \intersect Ground[s] # {}}

Held(s) == \E r \in Refs : entry[r].stand = s /\ entry[r].state = "active"

-----------------------------------------------------------------------------
(* Citizens.  One UPDATE each, which waits for the row. *)

\* POST /stands/:id/reserve: a lapsed reservation is there for the taking.
\* Mutant: the lapse not asked for.
AnyReserved(u, s) == status[s] \in Offered
Reservable(u, s) ==
    \/ status[s] = "available"
    \/ status[s] = "reserved" /\ (reservedBy[s] = u \/ s \notin live)

\* citizen_reserve: status_code is written by the migrations and by no handler,
\* and what the migrations found was available.
Permitted(u, s) == s \in Surveyed \/ reservedBy[s] = u

Reserve(u, s) ==
    /\ Unlocked({s})
    /\ Permitted(u, s)
    /\ Reservable(u, s)
    /\ Clashes(s) = {}
    /\ status' = [status EXCEPT ![s] = "reserved"]
    /\ reservedBy' = [reservedBy EXCEPT ![s] = u]
    /\ live' = live \union {s}
    /\ UNCHANGED <<estate, approved, entry, lock, txn, edits>>

Release(u, s) ==
    /\ Unlocked({s})
    /\ status[s] = "reserved" /\ reservedBy[s] = u
    /\ Clashes(s) = {}
    /\ status' = [status EXCEPT ![s] = "available"]
    /\ reservedBy' = [reservedBy EXCEPT ![s] = NoOne]
    /\ live' = live \ {s}
    /\ UNCHANGED <<estate, approved, entry, lock, txn, edits>>

\* Half an hour has passed.  No job looks for it.
Lapse(s) ==
    /\ s \in live
    /\ live' = live \ {s}
    /\ UNCHANGED <<status, reservedBy, estate, approved, entry, lock, txn, edits>>

-----------------------------------------------------------------------------
(* The cadastre. *)

\* POST /stands: the trigger has passed the new stand ...
Create(o, s) ==
    /\ Free(o)
    /\ status[s] = "absent"
    /\ Clashes(s) = {}
    /\ Begin(o, Doing("create", {}, {s}, "available", 0, {s}))
    /\ UNCHANGED <<stands, estate, approved, entry, lock, edits>>

\* ... and it is there, unless its number was taken meanwhile.
CreateCommit(o) ==
    /\ txn[o].op = "create"
    /\ \A s \in txn[o].onto : status[s] = "absent"
    /\ status' = [s \in Stands |-> IF s \in txn[o].onto THEN "available" ELSE status[s]]
    /\ End(o)
    /\ UNCHANGED <<reservedBy, live, estate, approved, entry, edits>>

\* PUT /stands/:id with a status: any status may follow any other.
Edit(o, s, to) ==
    /\ Free(o)
    /\ s \in ByHand /\ edits[s] < MaxEdits
    /\ Unlocked({s})
    /\ status[s] # "absent"
    /\ to # "withdrawn" => Clashes(s) = {}
    /\ Hold(o, {s})
    /\ Begin(o, Doing("edit", {s}, {}, to, 0, IF to = "withdrawn" THEN {} ELSE {s}))
    /\ UNCHANGED <<stands, estate, approved, entry, edits>>

EditCommit(o) ==
    /\ txn[o].op = "edit"
    /\ status' = [s \in Stands |-> IF s \in txn[o].from THEN txn[o].to ELSE status[s]]
    /\ edits' = [s \in Stands |-> IF s \in txn[o].from THEN edits[s] + 1 ELSE edits[s]]
    /\ End(o)
    /\ UNCHANGED <<reservedBy, live, estate, approved, entry>>

\* DELETE /stands/:id withdraws it.  Mutant: an allocated one too.
Exists(s) == status[s] # "absent"
Withdrawable(s) == status[s] \notin {"absent", "allocated"}

Withdraw(s) ==
    /\ Unlocked({s})
    /\ Withdrawable(s)
    /\ status' = [status EXCEPT ![s] = "withdrawn"]
    /\ UNCHANGED <<reservedBy, live, estate, approved, entry, lock, txn, edits>>

\* Several stands into one, or one into several, on the same ground.
Reparcels(from, onto) ==
    /\ Covered(from) = Covered(onto)
    /\ \/ Cardinality(from) >= 2 /\ Cardinality(onto) = 1
       \/ Cardinality(from) = 1 /\ Cardinality(onto) >= 2
    /\ \A s, t \in onto : s # t => Ground[s] \intersect Ground[t] = {}

\* POST /stands/merge and POST /stands/:id/split lock the parents ...
Reparcel(o, from, onto) ==
    /\ Free(o)
    /\ Reparcels(from, onto)
    /\ Unlocked(from)
    /\ \A s \in from : Withdrawable(s)
    /\ \A s \in onto : status[s] = "absent"
    /\ Hold(o, from)
    /\ Begin(o, Doing("reparcel", from, onto, "available", 0, {}))
    /\ UNCHANGED <<stands, estate, approved, entry, edits>>

\* ... insert the children one by one, the trigger looking at the parents too ...
InsertChild(o, s) ==
    /\ txn[o].op = "reparcel"
    /\ s \in txn[o].onto \ txn[o].passed
    /\ status[s] = "absent"
    /\ Clashes(s) = {}
    /\ Begin(o, [txn[o] EXCEPT !.passed = @ \union {s}])
    /\ UNCHANGED <<stands, estate, approved, entry, lock, edits>>

\* ... withdraw the parents, for which it does not look, and COMMIT.
ReparcelCommit(o) ==
    /\ txn[o].op = "reparcel"
    /\ txn[o].passed = txn[o].onto
    /\ \A s \in txn[o].onto : status[s] = "absent"
    /\ status' = [s \in Stands |-> IF s \in txn[o].onto THEN "available"
                                  ELSE IF s \in txn[o].from THEN "withdrawn" ELSE status[s]]
    /\ End(o)
    /\ UNCHANGED <<reservedBy, live, estate, approved, entry, edits>>

-----------------------------------------------------------------------------
(* Allocation. *)

\* POST /stands/:id/estate-requirement
RequireMinister(s, required) ==
    /\ s \in Estates
    /\ Unlocked({s})
    /\ status[s] # "absent"
    /\ estate' = IF required THEN estate \union {s} ELSE estate \ {s}
    /\ UNCHANGED <<stands, approved, entry, lock, txn, edits>>

\* PATCH /registers/estate-approvals/:id, or the end of the objection period: any status
\* of an approval may follow any other, and an allocation may name any approval.
DecideLayout(effect) ==
    /\ approved' = effect
    /\ UNCHANGED <<stands, estate, entry, lock, txn, edits>>

\* FOR UPDATE.  Mutant: a plain SELECT.
NoHold(o, S) == lock' = lock
HoldForUpdate(o, S) == Hold(o, S)

\* POST /stands/:id/allocate: BEGIN, the row is locked and checked ...
Allocate(o, s) ==
    /\ Free(o)
    /\ Unlocked({s})
    /\ status[s] \in Offered
    /\ s \in estate => approved
    /\ HoldForUpdate(o, {s})
    /\ Begin(o, Doing("number", {s}, {}, "allocated", 0, {}))
    /\ UNCHANGED <<stands, estate, approved, entry, edits>>

\* nextAllocationRef(): MAX + 1 over the numbers that have committed ...
LastRef == CHOOSE n \in 0..MaxRef :
             /\ n = 0 \/ entry[n].state # "none"
             /\ \A r \in Refs : entry[r].state # "none" => r <= n

TakeRef(o) ==
    /\ txn[o].op = "number"
    /\ LastRef < MaxRef
    /\ Begin(o, Doing("insert", txn[o].from, {}, "allocated", LastRef + 1, {}))
    /\ UNCHANGED <<stands, estate, approved, entry, lock, edits>>

\* uq_stand_allocation_active.  Mutant: no such index.
NoIndex(s) == FALSE
Duplicate(s) == Held(s)

\* ... the entry is inserted and the stand, which was active, marked allocated ...
InsertEntry(o) ==
    /\ txn[o].op = "insert"
    /\ \A s \in txn[o].from : ~Duplicate(s) /\ Clashes(s) = {}
    /\ Begin(o, [txn[o] EXCEPT !.op = "entered"])
    /\ UNCHANGED <<stands, estate, approved, entry, lock, edits>>

\* ... COMMIT, if neither unique index has been given the same key meanwhile.
AllocateCommit(o) ==
    /\ txn[o].op = "entered"
    /\ entry[txn[o].ref].state = "none"
    /\ \A s \in txn[o].from : ~Duplicate(s)
    /\ \E s \in txn[o].from :
        /\ entry' = [entry EXCEPT ![txn[o].ref] = [stand |-> s, state |-> "active"]]
        /\ status' = [status EXCEPT ![s] = "allocated"]
        /\ reservedBy' = [reservedBy EXCEPT ![s] = NoOne]
    /\ live' = live \ txn[o].from
    /\ End(o)
    /\ UNCHANGED <<estate, approved, edits>>

Revoking(o) == txn[o].op \in {"revoke", "freed"}

\* POST /stands/:id/revoke-allocation: the UPDATE of the active entry, whose row
\* one transaction holds at a time ...
Revoke(o, s) ==
    /\ Free(o)
    /\ Held(s)
    /\ \A p \in Officers : ~(Revoking(p) /\ s \in txn[p].from)
    /\ Begin(o, Doing("revoke", {s}, {}, "available", 0, {}))
    /\ UNCHANGED <<stands, estate, approved, entry, lock, edits>>

\* What a revocation leaves of an entry.  Mutant: a word that the table's CHECK
\* does not know.
Cancelled(e) == [e EXCEPT !.state = "cancelled"]
Revoked(e) == [e EXCEPT !.state = "revoked"]

\* ... the stand's row, waited for, is made available, whatever its status ...
FreeStand(o) ==
    /\ txn[o].op = "revoke"
    /\ Unlocked(txn[o].from)
    /\ \A s \in txn[o].from : Clashes(s) = {}
    /\ Hold(o, txn[o].from)
    /\ Begin(o, [txn[o] EXCEPT !.op = "freed", !.passed = txn[o].from])
    /\ UNCHANGED <<stands, estate, approved, entry, edits>>

\* ... COMMIT.
RevokeCommit(o) ==
    /\ txn[o].op = "freed"
    /\ entry' = [r \in Refs |->
                   IF entry[r].stand \in txn[o].from /\ entry[r].state = "active"
                     THEN Revoked(entry[r]) ELSE entry[r]]
    /\ status' = [s \in Stands |-> IF s \in txn[o].from THEN "available" ELSE status[s]]
    /\ End(o)
    /\ UNCHANGED <<reservedBy, live, estate, approved, edits>>

\* ROLLBACK: a unique index, the trigger, a deadlock, or the server dies.
Fail(o) ==
    /\ ~Free(o)
    /\ End(o)
    /\ UNCHANGED <<stands, estate, approved, entry, edits>>

-----------------------------------------------------------------------------
CitizenStep == \E u \in Citizens, s \in Stands : Reserve(u, s) \/ Release(u, s)

OfficerStep(o) ==
    \/ \E s \in Stands : \/ Create(o, s) \/ InsertChild(o, s) \/ Allocate(o, s) \/ Revoke(o, s)
                        \/ \E to \in Statuses : Edit(o, s, to)
    \/ \E from \in SUBSET {s \in Stands : Withdrawable(s)},
         onto \in SUBSET {s \in Stands : ~Exists(s)} : Reparcel(o, from, onto)
    \/ CreateCommit(o)
    \/ EditCommit(o)
    \/ ReparcelCommit(o)
    \/ TakeRef(o)
    \/ InsertEntry(o)
    \/ AllocateCommit(o)
    \/ FreeStand(o)
    \/ RevokeCommit(o)
    \/ Fail(o)

Step ==
    \/ CitizenStep
    \/ \E o \in Officers : OfficerStep(o)
    \/ \E s \in Stands : \/ Lapse(s) \/ Withdraw(s)
                        \/ \E required \in BOOLEAN : RequireMinister(s, required)
    \/ \E effect \in BOOLEAN : DecideLayout(effect)

Allocating(o) == txn[o].op \in {"number", "insert", "entered"}

\* The history, after a step.
Remember ==
    /\ unseen' = [o \in Officers |->
          IF txn'[o].op = "none" THEN {}
          ELSE unseen[o] \union {p \in txn[o].passed \X (Active' \ Active) :
                                   /\ p[1] # p[2]
                                   /\ Ground[p[1]] \intersect Ground[p[2]] # {}}]
    /\ effective' = {o \in Officers : /\ Allocating(o)' /\ txn'[o].from \subseteq estate'
                                      /\ approved \/ o \in effective}

Next == Step /\ Remember

Spec == Init /\ [][Next]_vars

-----------------------------------------------------------------------------
(* Properties *)

\* A stand is never allocated twice at one time, though its status may have been
\* put back by hand while it was allocated.
OneActiveEntry ==
    \A q, r \in Refs : /\ entry[q].state = "active" /\ entry[r].state = "active"
                       /\ entry[q].stand = entry[r].stand
                       => q = r

\* The two tables agree: a stand whose status nobody set by hand is allocated if
\* and only if the register has an active entry for it, whatever was withdrawn,
\* merged, revoked or rolled back.
RegisterAgrees ==
    \A s \in Stands : edits[s] = 0 => (status[s] = "allocated" <=> Held(s))

\* An entry once made keeps its reference number and its stand for ever, and once
\* revoked is never active again.
RegisterIsHistory ==
    [][\A r \in Refs : entry[r].state # "none" =>
         /\ entry'[r].stand = entry[r].stand
         /\ entry'[r].state \in {entry[r].state, "revoked"}]_vars

\* What is allocated is on offer at that moment, not only when the request looked; and
\* if it has to be approved at that moment, the approval has been in effect since its
\* row was locked.  It need not be in effect still: nothing holds the approval's row,
\* and the council may take it back before the COMMIT.
AllocatedWhileOffered ==
    [][\A s \in Stands : ~Held(s) /\ Held(s)' =>
         /\ status[s] \in Offered
         /\ s \in estate => \E o \in effective : s \in txn[o].from /\ lock[s] = o]_vars

\* A reservation that has not lapsed passes to no other citizen: its holder's name
\* leaves the row only when the holder lets go or the stand is allocated.
ReservationKept ==
    \A s \in live, u \in Citizens :
         status[s] = "reserved" /\ reservedBy[s] = u =>
           /\ reservedBy'[s] \in {u, NoOne}
           /\ reservedBy'[s] = NoOne => \/ Release(u, s)
                                        \/ Held(s)'
ReservationHolds == [][ReservationKept]_vars

\* 107_stands_topology.sql:2 in the form that holds: active stands come to overlap
\* only by the commit of a transaction (a new stand, an edit, a merge, a split, a
\* revocation) whose trigger looked before the other stand was there.  None lays one
\* stand on another that it could have seen, whatever was withdrawn, put back by hand
\* or rolled back meanwhile.
Overlaps == {p \in Active \X Active : p[1] # p[2] /\ Ground[p[1]] \intersect Ground[p[2]] # {}}
Raced(s, t) == \E o \in Officers : <<s, t>> \in unseen[o] /\ txn'[o].op = "none"
OverlapOnlyByRace ==
    [][\A p \in Overlaps' \ Overlaps : Raced(p[1], p[2]) \/ Raced(p[2], p[1])]_vars

\* Officers who allocate, revoke, create and edit at one time keep the promise of
\* LandRegister, as if each allocation had the register to itself.
Register == INSTANCE LandRegister WITH
    grants <- [r \in 1..LastRef |-> entry[r]],
    offer <- {s \in Stands : status[s] \in Offered}
ImplementsLandRegister == Register!AbsSpec
=============================================================================
