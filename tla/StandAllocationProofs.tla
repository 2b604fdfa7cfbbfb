----------------------- MODULE StandAllocationProofs -----------------------
(***************************************************************************)
(* What holds of the stand register for any land, any number of stands,    *)
(* citizens and officers.  The invariant says what a transaction may still *)
(* rely on when it commits, because it holds the rows it has looked at.    *)
(***************************************************************************)
EXTENDS StandAllocation, Sequences, WellFoundedInduction, TLAPS

Holding == {"edit", "reparcel", "number", "insert", "entered", "freed"}

\* A transaction that has looked at rows to change them holds them all.
LocksHeld ==
    \A o \in Officers : txn[o].op \in Holding => \A s \in txn[o].from : lock[s] = o

\* The stand of an allocation under way is still on offer.
AllocationStands ==
    \A o \in Officers : Allocating(o) => \A s \in txn[o].from : status[s] \in Offered

\* No parent of a merge or a split under way has been allocated since.
ParentsStand ==
    \A o \in Officers : txn[o].op = "reparcel" =>
        \A s \in txn[o].from : Withdrawable(s)

\* The number of an allocation under way is one of the series.
RefRead ==
    \A o \in Officers : txn[o].op \in {"insert", "entered"} => txn[o].ref \in Refs

TablesInv ==
    /\ TablesTyped
    /\ LocksHeld
    /\ AllocationStands
    /\ ParentsStand
    /\ RefRead
    /\ OneActiveEntry
    /\ RegisterAgrees

USE GroundAssumption, SurveyedAssumption, NoOneAssumption, RefAssumption

-----------------------------------------------------------------------------
\* A bounded set of numbers has a highest one.
LEMMA HasMaximum ==
  ASSUME NEW T \in SUBSET Nat, T # {}, NEW b \in Nat, \A t \in T : t <= b
  PROVE  \E m \in T : \A t \in T : t <= m
<1> DEFINE Below == {d \in Nat : b - d \in T}
<1>1. Below # {}
  <2>1. PICK t \in T : TRUE
    OBVIOUS
  <2>2. b - t \in Nat /\ b - (b - t) = t
    BY <2>1
  <2> QED BY <2>1, <2>2
<1>2. PICK d \in Below : \A k \in Below : <<k, d>> \notin OpToRel(<, Nat)
  BY <1>1, WFMin, NatLessThanWellFounded, Zenon
<1>3. \A k \in Below : ~(k < d)
  BY <1>2, Zenon DEF OpToRel
<1>4. ASSUME NEW t \in T PROVE t <= b - d
  <2>1. b - t \in Nat /\ b - (b - t) = t
    OBVIOUS
  <2>2. b - t \in Below
    BY <2>1
  <2> QED BY <1>3, <2>1, <2>2
<1> QED BY <1>2, <1>4

\* MAX + 1 over the entries there are is a number of the series.
LEMMA LastRefTyped == ASSUME TablesTyped PROVE LastRef \in 0..MaxRef
<1> DEFINE Used == {0} \union {r \in Refs : entry[r].state # "none"}
<1>1. Used \in SUBSET Nat /\ Used # {} /\ \A r \in Used : r <= MaxRef
  BY DEF Refs
<1>2. PICK m \in Used : \A r \in Used : r <= m
  <2> HIDE DEF Used
  <2> QED BY <1>1, HasMaximum
<1>3. /\ m \in 0..MaxRef
      /\ m = 0 \/ entry[m].state # "none"
      /\ \A r \in Refs : entry[r].state # "none" => r <= m
  BY <1>1, <1>2 DEF Refs
<1> QED BY <1>3 DEF LastRef

\* Nothing is allocated, locked or under way at the start.
LEMMA InitInv == Init => TablesInv
<1> SUFFICES ASSUME Init PROVE TablesInv
  OBVIOUS
<1>1. TablesTyped
  BY DEF Init, TablesTyped, Statuses, Entries, Refs, Idle, Doing, Ops, Txns
<1>2. LocksHeld /\ AllocationStands /\ ParentsStand /\ RefRead
  BY DEF Init, LocksHeld, AllocationStands, Allocating, ParentsStand, RefRead, Idle,
     Doing, Holding
<1>3. OneActiveEntry /\ RegisterAgrees
  BY DEF Init, OneActiveEntry, RegisterAgrees, Held
<1> QED BY <1>1, <1>2, <1>3 DEF TablesInv

-----------------------------------------------------------------------------
\* A request that leaves the register alone, changes the status of rows nobody
\* holds, and neither to nor from allocated.
Outside ==
    /\ UNCHANGED <<entry, lock, txn, edits>>
    /\ \A s \in Stands : lock[s] # NoOne => status'[s] = status[s]
    /\ \A s \in Stands : status'[s] = "allocated" <=> status[s] = "allocated"

\* What it leaves true.
LEMMA OutsideKeeps == ASSUME TablesInv, TablesTyped', Outside PROVE TablesInv'
<1> USE DEF TablesInv, Outside
<1>1. LocksHeld' /\ RefRead'
  BY DEF LocksHeld, RefRead
<1>2. \A o \in Officers : txn[o].op \in Holding =>
        \A s \in txn[o].from : s \in Stands /\ lock[s] # NoOne
  BY DEF LocksHeld, TablesTyped, Txns
<1>3. AllocationStands'
  BY <1>2 DEF AllocationStands, Allocating, Holding
<1>4. ParentsStand'
  BY <1>2 DEF ParentsStand, Holding, Withdrawable
<1>5. OneActiveEntry' /\ RegisterAgrees'
  BY DEF OneActiveEntry, RegisterAgrees, Held
<1> QED BY <1>1, <1>3, <1>4, <1>5

\* Citizens, withdrawals, decisions about the estate and the passing of time.
LEMMA OutsideInv ==
  ASSUME TablesInv,
         \/ CitizenStep
         \/ \E s \in Stands : \/ Lapse(s) \/ Withdraw(s)
                             \/ \E required \in BOOLEAN : RequireMinister(s, required)
         \/ \E effect \in BOOLEAN : DecideLayout(effect)
  PROVE  TablesInv'
<1> USE DEF TablesInv, TablesTyped
<1>1. ASSUME NEW u \in Citizens, NEW s \in Stands, Reserve(u, s) PROVE TablesInv'
  <2>1. TablesTyped' /\ Outside
    BY <1>1 DEF Reserve, Outside, Unlocked, Statuses, Reservable
  <2> QED BY <2>1, OutsideKeeps
<1>2. ASSUME NEW u \in Citizens, NEW s \in Stands, Release(u, s) PROVE TablesInv'
  <2>1. TablesTyped' /\ Outside
    BY <1>2 DEF Release, Outside, Unlocked, Statuses
  <2> QED BY <2>1, OutsideKeeps
<1>3. ASSUME NEW s \in Stands, Lapse(s) PROVE TablesInv'
  <2>1. TablesTyped' /\ Outside
    BY <1>3 DEF Lapse, Outside
  <2> QED BY <2>1, OutsideKeeps
<1>4. ASSUME NEW s \in Stands, Withdraw(s) PROVE TablesInv'
  <2>1. TablesTyped' /\ Outside
    BY <1>4 DEF Withdraw, Outside, Unlocked, Statuses, Withdrawable
  <2> QED BY <2>1, OutsideKeeps
<1>5. ASSUME NEW s \in Stands, NEW r \in BOOLEAN, RequireMinister(s, r) PROVE TablesInv'
  <2>1. TablesTyped' /\ Outside
    BY <1>5 DEF RequireMinister, stands, Outside, Unlocked
  <2> QED BY <2>1, OutsideKeeps
<1>6. ASSUME NEW e \in BOOLEAN, DecideLayout(e) PROVE TablesInv'
  <2>1. TablesTyped' /\ Outside
    BY <1>6 DEF DecideLayout, stands, Outside
  <2> QED BY <2>1, OutsideKeeps
<1> QED BY <1>1, <1>2, <1>3, <1>4, <1>5, <1>6 DEF CitizenStep

-----------------------------------------------------------------------------
\* A request that begins or goes on commits nothing; it may take rows nobody holds.
Begins(o, t) ==
    /\ txn' = [txn EXCEPT ![o] = t]
    /\ UNCHANGED <<stands, estate, approved, entry, edits>>
    /\ \A s \in Stands : lock[s] # NoOne => lock'[s] = lock[s]
    /\ t.op \in Holding => \A s \in t.from : lock'[s] = o
    /\ t.op \in {"number", "insert", "entered"} => \A s \in t.from : status[s] \in Offered
    /\ t.op = "reparcel" => \A s \in t.from : Withdrawable(s)
    /\ t.op \in {"insert", "entered"} => t.ref \in Refs

\* What it leaves true.
LEMMA BeginsKeeps ==
  ASSUME TablesInv, TablesTyped', NEW o \in Officers, NEW t, Begins(o, t)
  PROVE  TablesInv'
<1> USE DEF TablesInv, Begins, stands
<1>1. \A p \in Officers : txn'[p] = IF p = o THEN t ELSE txn[p]
  BY DEF TablesTyped
<1>2. LocksHeld'
  <2>1. ASSUME NEW p \in Officers, p # o, txn[p].op \in Holding, NEW s \in txn[p].from
        PROVE  lock'[s] = p
    BY <2>1 DEF LocksHeld, TablesTyped, Txns
  <2> QED BY <1>1, <2>1 DEF LocksHeld
<1>3. AllocationStands'
  BY <1>1 DEF AllocationStands, Allocating
<1>4. ParentsStand' /\ RefRead'
  BY <1>1 DEF ParentsStand, RefRead, Withdrawable
<1>5. OneActiveEntry' /\ RegisterAgrees'
  BY DEF OneActiveEntry, RegisterAgrees, Held
<1> QED BY <1>2, <1>3, <1>4, <1>5

\* The first statements of each request.
LEMMA BeginInv ==
  ASSUME TablesInv, NEW o \in Officers, NEW s \in Stands,
         Create(o, s) \/ Allocate(o, s) \/ Revoke(o, s) \/ \E to \in Statuses : Edit(o, s, to)
  PROVE  TablesInv'
<1> USE DEF TablesInv, TablesTyped, Begins, Begin, Doing, Ops, Txns, Statuses, Holding, Unlocked,
        Hold
<1>1. CASE Create(o, s)
  <2>1. TablesTyped' /\ Begins(o, Doing("create", {}, {s}, "available", 0, {s}))
    BY <1>1 DEF Create, stands
  <2> QED BY <2>1, BeginsKeeps
<1>2. CASE Allocate(o, s)
  <2>1. TablesTyped' /\ Begins(o, Doing("number", {s}, {}, "allocated", 0, {}))
    BY <1>2 DEF Allocate, HoldForUpdate, stands
  <2> QED BY <2>1, BeginsKeeps
<1>3. CASE Revoke(o, s)
  <2>1. TablesTyped' /\ Begins(o, Doing("revoke", {s}, {}, "available", 0, {}))
    BY <1>3 DEF Revoke, stands
  <2> QED BY <2>1, BeginsKeeps
<1>4. ASSUME NEW to \in Statuses, Edit(o, s, to) PROVE TablesInv'
  <2> DEFINE seen == IF to = "withdrawn" THEN {} ELSE {s}
  <2>1. seen \in SUBSET Stands
    OBVIOUS
  <2>2. txn' = [txn EXCEPT ![o] = Doing("edit", {s}, {}, to, 0, seen)]
    BY <1>4 DEF Edit
  <2> HIDE DEF seen
  <2>3. TablesTyped'
    BY <1>4, <2>1, <2>2 DEF Edit, stands
  <2>4. Begins(o, Doing("edit", {s}, {}, to, 0, seen))
    BY <1>4, <2>2 DEF Edit, stands
  <2> QED BY <2>3, <2>4, BeginsKeeps
<1> QED BY <1>1, <1>2, <1>3, <1>4

\* The parents are locked.
LEMMA ReparcelInv ==
  ASSUME TablesInv, NEW o \in Officers, NEW from \in SUBSET Stands, NEW onto \in SUBSET Stands,
         Reparcel(o, from, onto)
  PROVE  TablesInv'
<1>1. TablesTyped' /\ Begins(o, Doing("reparcel", from, onto, "available", 0, {}))
  BY DEF TablesInv, TablesTyped, Begins, Begin, Doing, Ops, Txns, Statuses, Holding, Unlocked, Hold,
     Reparcel, stands
<1> QED BY <1>1, BeginsKeeps

\* The reference number is read; the row stays locked.
LEMMA TakeRefInv == ASSUME TablesInv, NEW o \in Officers, TakeRef(o) PROVE TablesInv'
<1> DEFINE t == Doing("insert", txn[o].from, {}, "allocated", LastRef + 1, {})
<1>1. LastRef \in 0..MaxRef /\ LastRef < MaxRef /\ txn[o].op = "number"
  BY LastRefTyped DEF TablesInv, TakeRef
<1>2. /\ txn[o] \in Txns
      /\ txn' = [txn EXCEPT ![o] = t]
      /\ UNCHANGED <<stands, estate, approved, entry, lock, edits>>
  BY DEF TablesInv, TablesTyped, TakeRef, Begin
<1>3. t.op = "insert" /\ t.ref \in Refs /\ t.from = txn[o].from
  <2> HIDE DEF LastRef
  <2> QED BY <1>1, <1>2 DEF Refs, Doing
<1>4. t \in Txns
  <2> HIDE DEF LastRef
  <2> QED BY <1>1, <1>2 DEF Ops, Doing, Statuses, Txns
<1> HIDE DEF t
<1>5. TablesTyped'
  BY <1>2, <1>4 DEF TablesInv, TablesTyped, stands
<1>6. Begins(o, t)
  BY <1>1, <1>2, <1>3 DEF Begins, TablesInv, LocksHeld, AllocationStands, Allocating, Holding
<1> QED BY <1>5, <1>6, BeginsKeeps

\* A child or an entry is inserted, or a stand freed, in a transaction that goes on.
LEMMA GoOnInv ==
  ASSUME TablesInv, NEW o \in Officers,
         (\E s \in Stands : InsertChild(o, s)) \/ InsertEntry(o) \/ FreeStand(o)
  PROVE  TablesInv'
<1> USE DEF TablesInv
<1>1. txn[o] \in Txns
  BY DEF TablesTyped
<1>2. ASSUME NEW s \in Stands, InsertChild(o, s) PROVE TablesInv'
  <2> DEFINE t == [txn[o] EXCEPT !.passed = @ \union {s}]
  <2>1. /\ t \in Txns /\ t.op = "reparcel" /\ t.from = txn[o].from
        /\ txn' = [txn EXCEPT ![o] = t]
        /\ UNCHANGED <<stands, estate, approved, entry, lock, edits>>
    BY <1>1, <1>2 DEF InsertChild, Begin, Txns
  <2> HIDE DEF t
  <2>2. TablesTyped' /\ Begins(o, t)
    BY <1>2, <2>1 DEF TablesTyped, Begins, LocksHeld, ParentsStand, Holding, InsertChild, stands
  <2> QED BY <2>2, BeginsKeeps
<1>3. CASE InsertEntry(o)
  <2> DEFINE t == [txn[o] EXCEPT !.op = "entered"]
  <2>1. /\ t \in Txns /\ t.op = "entered" /\ t.from = txn[o].from /\ t.ref = txn[o].ref
        /\ txn' = [txn EXCEPT ![o] = t] /\ txn[o].op = "insert"
        /\ UNCHANGED <<stands, estate, approved, entry, lock, edits>>
    BY <1>1, <1>3 DEF InsertEntry, Begin, Txns, Ops
  <2> HIDE DEF t
  <2>2. TablesTyped' /\ Begins(o, t)
    BY <2>1 DEF TablesTyped, Begins, LocksHeld, AllocationStands, Allocating, RefRead, Holding, stands
  <2> QED BY <2>2, BeginsKeeps
<1>4. CASE FreeStand(o)
  <2> DEFINE t == [txn[o] EXCEPT !.op = "freed", !.passed = txn[o].from]
  <2>1. /\ t \in Txns /\ t.op = "freed" /\ t.from = txn[o].from
        /\ txn' = [txn EXCEPT ![o] = t]
        /\ UNCHANGED <<stands, estate, approved, entry, edits>>
        /\ lock' = [s \in Stands |-> IF s \in txn[o].from THEN o ELSE lock[s]]
        /\ \A s \in txn[o].from : lock[s] = NoOne
        /\ txn[o].from \subseteq Stands
    BY <1>1, <1>4 DEF FreeStand, Begin, Hold, Unlocked, Txns, Ops
  <2> HIDE DEF t
  <2>2. TablesTyped' /\ Begins(o, t)
    BY <2>1 DEF TablesTyped, Begins, stands
  <2> QED BY <2>2, BeginsKeeps
<1> QED BY <1>2, <1>3, <1>4

-----------------------------------------------------------------------------
\* A request that ends lets go of its rows, and changes those or absent ones.
Ends(o) ==
    /\ End(o)
    /\ UNCHANGED <<estate, approved>>
    /\ \A s \in Stands : status'[s] # status[s] =>
         \/ status[s] = "absent"
         \/ lock[s] = NoOne
         \/ lock[s] = o

\* What it leaves true of the requests that go on.
LEMMA EndsKeeps ==
  ASSUME TablesInv, NEW o \in Officers, Ends(o)
  PROVE  LocksHeld' /\ AllocationStands' /\ ParentsStand' /\ RefRead'
<1> USE DEF TablesInv, Ends, End, Begin, LetGo
<1>1. /\ txn'[o].op = "none"
      /\ \A p \in Officers : p # o => txn'[p] = txn[p]
  BY DEF TablesTyped, Idle, Doing
<1>2. \A p \in Officers : p # o /\ txn[p].op \in Holding =>
        \A s \in txn[p].from : s \in Stands /\ lock[s] = p /\ lock[s] # NoOne
  BY DEF LocksHeld, TablesTyped, Txns
<1>3. LocksHeld'
  BY <1>1, <1>2 DEF LocksHeld, Holding
<1>4. AllocationStands'
  BY <1>1, <1>2 DEF AllocationStands, Allocating, Holding, Offered
<1>5. ParentsStand'
  BY <1>1, <1>2 DEF ParentsStand, Holding, Withdrawable
<1>6. RefRead'
  BY <1>1 DEF RefRead
<1> QED BY <1>3, <1>4, <1>5, <1>6

\* The row of an ended request is free, and its officer idle.
LEMMA EndTyped ==
  ASSUME TablesTyped, NEW o \in Officers, End(o)
  PROVE  /\ lock' \in [Stands -> Officers \union {NoOne}]
         /\ txn' \in [Officers -> Txns]
  BY DEF TablesTyped, End, Begin, LetGo, Idle, Doing, Ops, Txns, Statuses

\* The entry is inserted for a stand that has none, and both tables say so.
LEMMA AllocateCommitInv == ASSUME TablesInv, NEW o \in Officers, AllocateCommit(o) PROVE TablesInv'
<1> USE DEF TablesInv
<1>1. PICK s \in txn[o].from :
        /\ entry' = [entry EXCEPT ![txn[o].ref] = [stand |-> s, state |-> "active"]]
        /\ status' = [status EXCEPT ![s] = "allocated"]
        /\ reservedBy' = [reservedBy EXCEPT ![s] = NoOne]
  BY DEF AllocateCommit
<1>2. /\ s \in Stands /\ ~Held(s) /\ lock[s] = o
      /\ txn[o].ref \in Refs /\ entry[txn[o].ref].state = "none"
      /\ End(o)
      /\ live' \subseteq Stands
      /\ UNCHANGED <<estate, approved, edits>>
  BY DEF AllocateCommit, Duplicate, RefRead, LocksHeld, Holding, TablesTyped, Txns
<1>3. TablesTyped'
  BY <1>1, <1>2, EndTyped DEF TablesTyped, Entries, Statuses
<1>4. Ends(o)
  BY <1>1, <1>2 DEF Ends, TablesTyped
<1>5. \A r \in Refs : entry'[r] = IF r = txn[o].ref THEN [stand |-> s, state |-> "active"]
                                 ELSE entry[r]
  BY <1>1 DEF TablesTyped
<1>6. OneActiveEntry'
  BY <1>2, <1>5 DEF OneActiveEntry, Held
<1>7. RegisterAgrees'
  <2>1. Held(s)'
    BY <1>2, <1>5 DEF Held
  <2>2. \A q \in Stands \ {s} : Held(q)' <=> Held(q)
    BY <1>2, <1>5 DEF Held
  <2>3. \A q \in Stands : status'[q] = IF q = s THEN "allocated" ELSE status[q]
    BY <1>1 DEF TablesTyped
  <2> QED BY <1>2, <2>1, <2>2, <2>3 DEF RegisterAgrees
<1> QED BY <1>3, <1>4, <1>6, <1>7, EndsKeeps

\* The stand's entries are revoked, and the stand is free.
LEMMA RevokeCommitInv == ASSUME TablesInv, NEW o \in Officers, RevokeCommit(o) PROVE TablesInv'
<1> USE DEF TablesInv
<1>1. /\ \A s \in txn[o].from : lock[s] = o
      /\ End(o)
      /\ UNCHANGED <<reservedBy, live, estate, approved, edits>>
      /\ txn[o].from \subseteq Stands
  BY DEF RevokeCommit, LocksHeld, Holding, TablesTyped, Txns
<1>2. \A r \in Refs :
        /\ entry'[r] \in Entries
        /\ entry'[r].stand = entry[r].stand
        /\ entry'[r].state = IF entry[r].stand \in txn[o].from /\ entry[r].state = "active"
                               THEN "revoked" ELSE entry[r].state
  <2> TAKE r \in Refs
  <2>1. entry[r] \in Entries
    BY DEF TablesTyped
  <2>2. entry'[r] = IF entry[r].stand \in txn[o].from /\ entry[r].state = "active"
                      THEN [entry[r] EXCEPT !.state = "revoked"] ELSE entry[r]
    BY DEF RevokeCommit, Revoked
  <2>3. CASE entry[r].stand \in txn[o].from /\ entry[r].state = "active"
    BY <2>1, <2>2, <2>3 DEF Entries
  <2>4. CASE ~(entry[r].stand \in txn[o].from /\ entry[r].state = "active")
    BY <2>1, <2>2, <2>4
  <2> QED BY <2>3, <2>4
<1>3. \A s \in Stands : status'[s] = IF s \in txn[o].from THEN "available" ELSE status[s]
  BY DEF RevokeCommit
<1>4. TablesTyped'
  <2>1. entry' \in [Refs -> Entries]
    <3>1. entry' = [r \in Refs |-> entry'[r]]
      BY DEF RevokeCommit
    <3> QED BY <1>2, <3>1
  <2>2. status' \in [Stands -> Statuses \union {"absent"}]
    BY DEF RevokeCommit, TablesTyped, Statuses
  <2> QED BY <1>1, <2>1, <2>2, EndTyped DEF TablesTyped
<1>5. Ends(o)
  BY <1>1, <1>3 DEF Ends
<1>6. OneActiveEntry'
  BY <1>2 DEF OneActiveEntry
<1>7. \A s \in Stands : Held(s)' <=> s \notin txn[o].from /\ Held(s)
  BY <1>2 DEF Held
<1>8. RegisterAgrees'
  BY <1>1, <1>3, <1>7 DEF RegisterAgrees
<1> QED BY <1>4, <1>5, <1>6, <1>8, EndsKeeps

\* The other commits leave the register alone; so does a rollback.
LEMMA CommitInv ==
  ASSUME TablesInv, NEW o \in Officers,
         CreateCommit(o) \/ EditCommit(o) \/ ReparcelCommit(o) \/ Fail(o)
  PROVE  TablesInv'
<1> USE DEF TablesInv
<1>1. End(o) /\ UNCHANGED <<reservedBy, live, estate, approved, entry>>
  BY DEF CreateCommit, EditCommit, ReparcelCommit, Fail, stands
<1>2. txn[o].onto \subseteq Stands /\ txn[o].from \subseteq Stands /\ txn[o].to \in Statuses
  BY DEF TablesTyped, Txns
<1>3. status' \in [Stands -> Statuses \union {"absent"}] /\ edits' \in [Stands -> Nat]
  BY <1>2 DEF CreateCommit, EditCommit, ReparcelCommit, Fail, stands, TablesTyped, Statuses
<1>4. TablesTyped'
  BY <1>1, <1>3, EndTyped DEF TablesTyped
<1>5. Ends(o) /\ RegisterAgrees'
  <2>1. CASE CreateCommit(o)
    BY <1>1, <2>1 DEF CreateCommit, Ends, RegisterAgrees, Held
  <2>2. CASE EditCommit(o)
    <3>1. \A s \in txn[o].from : lock[s] = o
      BY <2>2 DEF EditCommit, LocksHeld, Holding
    <3>2. \A s \in Stands : edits'[s] = 0 => s \notin txn[o].from /\ edits[s] = 0
      BY <2>2 DEF EditCommit, TablesTyped
    <3> QED BY <1>1, <2>2, <3>1, <3>2 DEF EditCommit, Ends, RegisterAgrees, Held
  <2>3. CASE ReparcelCommit(o)
    <3>1. \A s \in txn[o].from : lock[s] = o /\ status[s] # "allocated"
      BY <2>3 DEF ReparcelCommit, LocksHeld, ParentsStand, Withdrawable, Holding
    <3>2. \A s \in txn[o].onto : status[s] = "absent"
      BY <2>3 DEF ReparcelCommit
    <3>3. /\ edits' = edits
          /\ \A s \in Stands : status'[s] = IF s \in txn[o].onto THEN "available"
               ELSE IF s \in txn[o].from THEN "withdrawn" ELSE status[s]
      BY <2>3 DEF ReparcelCommit
    <3> QED BY <1>1, <3>1, <3>2, <3>3 DEF Ends, RegisterAgrees, Held
  <2>4. CASE Fail(o)
    BY <1>1, <2>4 DEF Fail, stands, Ends, RegisterAgrees, Held
  <2> QED BY <2>1, <2>2, <2>3, <2>4
<1>6. OneActiveEntry'
  BY <1>1 DEF OneActiveEntry
<1> QED BY <1>4, <1>5, <1>6, EndsKeeps

-----------------------------------------------------------------------------
\* Every step keeps the invariant.
LEMMA StepInv == TablesInv /\ [Next]_vars => TablesInv'
<1> SUFFICES ASSUME TablesInv, [Next]_vars PROVE TablesInv'
  OBVIOUS
<1>1. ASSUME NEW o \in Officers, OfficerStep(o) PROVE TablesInv'
  BY <1>1, BeginInv, ReparcelInv, TakeRefInv, GoOnInv, AllocateCommitInv, RevokeCommitInv,
     CommitInv DEF OfficerStep
<1>2. CASE UNCHANGED vars
  BY <1>2 DEF vars, tables, TablesInv, TablesTyped, LocksHeld, AllocationStands, Allocating,
     ParentsStand, Withdrawable, RefRead, OneActiveEntry, RegisterAgrees, Held
<1> QED BY <1>1, <1>2, OutsideInv DEF Next, Step

\* The two tables, their locks and transactions, for any register.
THEOREM TablesInvariant == Spec => []TablesInv
  BY InitInv, StepInv, PTL DEF Spec

\* No stand is allocated twice at one time.
THEOREM NoDoubleAllocation == Spec => []OneActiveEntry
<1>1. TablesInv => OneActiveEntry
  BY DEF TablesInv
<1> QED BY <1>1, TablesInvariant, PTL

\* The stand and the register agree unless somebody set the status by hand.
THEOREM TablesAgree == Spec => []RegisterAgrees
<1>1. TablesInv => RegisterAgrees
  BY DEF TablesInv
<1> QED BY <1>1, TablesInvariant, PTL

-----------------------------------------------------------------------------
\* The register changes in two places only.
LEMMA RegisterWrites ==
  ASSUME [Next]_vars
  PROVE  \/ UNCHANGED entry
         \/ \E o \in Officers : AllocateCommit(o) \/ RevokeCommit(o)
<1>1. CASE UNCHANGED vars
  BY <1>1 DEF vars, tables, stands
<1>2. CASE CitizenStep
  BY <1>2 DEF CitizenStep, Reserve, Release, stands
<1>3. ASSUME NEW o \in Officers, OfficerStep(o)
      PROVE  UNCHANGED entry \/ AllocateCommit(o) \/ RevokeCommit(o)
  <2>1. ASSUME NEW t \in Stands,
               Create(o, t) \/ InsertChild(o, t) \/ Allocate(o, t) \/ Revoke(o, t)
        PROVE  UNCHANGED entry
    BY <2>1 DEF Create, InsertChild, Allocate, Revoke, stands
  <2>2. ASSUME NEW t \in Stands, NEW to \in Statuses, Edit(o, t, to)
        PROVE  UNCHANGED entry
    BY <2>2 DEF Edit, stands
  <2>3. ASSUME NEW from, NEW onto, Reparcel(o, from, onto)
        PROVE  UNCHANGED entry
    BY <2>3 DEF Reparcel, stands
  <2>4. CASE CreateCommit(o) \/ EditCommit(o) \/ ReparcelCommit(o)
    BY <2>4 DEF CreateCommit, EditCommit, ReparcelCommit
  <2>5. CASE TakeRef(o) \/ InsertEntry(o) \/ FreeStand(o) \/ Fail(o)
    BY <2>5 DEF TakeRef, InsertEntry, FreeStand, Fail, stands
  <2> QED BY <1>3, <2>1, <2>2, <2>3, <2>4, <2>5 DEF OfficerStep
<1>4. ASSUME NEW t \in Stands,
             Lapse(t) \/ Withdraw(t) \/ \E required \in BOOLEAN : RequireMinister(t, required)
      PROVE  UNCHANGED entry
  BY <1>4 DEF Lapse, Withdraw, RequireMinister, stands
<1>5. ASSUME NEW effect \in BOOLEAN, DecideLayout(effect)
      PROVE  UNCHANGED entry
  BY <1>5 DEF DecideLayout, stands
<1> QED BY <1>1, <1>2, <1>3, <1>4, <1>5 DEF Next, Step

\* Both keep what was there.
LEMMA StepIsHistory ==
  ASSUME TablesInv, [Next]_vars
  PROVE  \A r \in Refs : entry[r].state # "none" =>
           /\ entry'[r].stand = entry[r].stand
           /\ entry'[r].state \in {entry[r].state, "revoked"}
<1> USE DEF TablesInv
<1>1. ASSUME NEW o \in Officers, AllocateCommit(o), NEW r \in Refs, entry[r].state # "none"
      PROVE  entry'[r] = entry[r]
  <2>1. r # txn[o].ref
    BY <1>1 DEF AllocateCommit
  <2> QED BY <1>1, <2>1 DEF AllocateCommit, TablesTyped
<1>2. ASSUME NEW o \in Officers, RevokeCommit(o), NEW r \in Refs
      PROVE  /\ entry'[r].stand = entry[r].stand
             /\ entry'[r].state \in {entry[r].state, "revoked"}
  <2>1. entry'[r] \in {[entry[r] EXCEPT !.state = "revoked"], entry[r]}
    BY <1>2 DEF RevokeCommit, Revoked
  <2>2. entry[r] \in Entries
    BY DEF TablesTyped
  <2> QED BY <2>1, <2>2 DEF Entries
<1> QED BY <1>1, <1>2, RegisterWrites

\* The register is a history: entries are made and revoked, and nothing else.
THEOREM RegisterTheorem == Spec => RegisterIsHistory
<1>1. TablesInv /\ [Next]_vars =>
        [\A r \in Refs : entry[r].state # "none" =>
           /\ entry'[r].stand = entry[r].stand
           /\ entry'[r].state \in {entry[r].state, "revoked"}]_vars
  BY StepIsHistory
<1> QED BY <1>1, TablesInvariant, PTL DEF Spec, RegisterIsHistory

-----------------------------------------------------------------------------
\* The holder's name is written by a reservation, a release and an allocation only.
LEMMA HolderWrites ==
  ASSUME [Next]_vars
  PROVE  \/ UNCHANGED reservedBy
         \/ \E v \in Citizens, t \in Stands : Reserve(v, t) \/ Release(v, t)
         \/ \E o \in Officers : AllocateCommit(o)
<1>1. CASE UNCHANGED vars
  BY <1>1 DEF vars, tables, stands
<1>2. CASE CitizenStep
  BY <1>2 DEF CitizenStep
<1>3. ASSUME NEW o \in Officers, OfficerStep(o)
      PROVE  UNCHANGED reservedBy \/ AllocateCommit(o)
  <2>1. ASSUME NEW s \in Stands,
               Create(o, s) \/ InsertChild(o, s) \/ Allocate(o, s) \/ Revoke(o, s)
        PROVE  UNCHANGED reservedBy
    BY <2>1 DEF Create, InsertChild, Allocate, Revoke, stands
  <2>2. ASSUME NEW s \in Stands, NEW to \in Statuses, Edit(o, s, to)
        PROVE  UNCHANGED reservedBy
    BY <2>2 DEF Edit, stands
  <2>3. ASSUME NEW from, NEW onto, Reparcel(o, from, onto)
        PROVE  UNCHANGED reservedBy
    BY <2>3 DEF Reparcel, stands
  <2>4. CASE CreateCommit(o) \/ EditCommit(o) \/ ReparcelCommit(o) \/ RevokeCommit(o)
    BY <2>4 DEF CreateCommit, EditCommit, ReparcelCommit, RevokeCommit
  <2>5. CASE TakeRef(o) \/ InsertEntry(o) \/ FreeStand(o) \/ Fail(o)
    BY <2>5 DEF TakeRef, InsertEntry, FreeStand, Fail, stands
  <2> QED BY <1>3, <2>1, <2>2, <2>3, <2>4, <2>5 DEF OfficerStep
<1>4. ASSUME NEW s \in Stands,
             Lapse(s) \/ Withdraw(s) \/ \E required \in BOOLEAN : RequireMinister(s, required)
      PROVE  UNCHANGED reservedBy
  BY <1>4 DEF Lapse, Withdraw, RequireMinister, stands
<1>5. ASSUME NEW effect \in BOOLEAN, DecideLayout(effect)
      PROVE  UNCHANGED reservedBy
  BY <1>5 DEF DecideLayout, stands
<1> QED BY <1>1, <1>2, <1>3, <1>4, <1>5 DEF Next, Step

\* Each of the three leaves a live reservation to its holder, or ends it.
LEMMA StepKeepsReservations ==
  ASSUME TablesInv, [Next]_vars
  PROVE  ReservationKept
<1> SUFFICES ASSUME NEW s \in live, NEW u \in Citizens,
                    status[s] = "reserved", reservedBy[s] = u
             PROVE  /\ reservedBy'[s] \in {u, NoOne}
                    /\ reservedBy'[s] = NoOne => Release(u, s) \/ Held(s)'
  BY DEF ReservationKept
<1> USE DEF TablesInv
<1>1. s \in Stands /\ u # NoOne /\ reservedBy \in [Stands -> Citizens \union {NoOne}]
  BY DEF TablesTyped
<1>2. CASE UNCHANGED reservedBy
  BY <1>1, <1>2
<1>3. ASSUME NEW v \in Citizens, NEW t \in Stands, Reserve(v, t)
      PROVE  reservedBy'[s] = u
  BY <1>1, <1>3 DEF Reserve, Reservable
<1>4. ASSUME NEW v \in Citizens, NEW t \in Stands, Release(v, t)
      PROVE  reservedBy'[s] = u \/ (reservedBy'[s] = NoOne /\ Release(u, s))
  <2>1. CASE t = s
    <3>1. v = u
      BY <1>4, <2>1 DEF Release
    <3> QED BY <1>1, <1>4, <2>1, <3>1 DEF Release
  <2>2. CASE t # s
    <3>1. reservedBy' = [reservedBy EXCEPT ![t] = NoOne]
      BY <1>4 DEF Release
    <3>2. reservedBy'[s] = u
      BY <1>1, <2>2, <3>1
    <3> QED BY <3>2
  <2> QED BY <2>1, <2>2
<1>5. ASSUME NEW o \in Officers, AllocateCommit(o)
      PROVE  reservedBy'[s] = u \/ (reservedBy'[s] = NoOne /\ Held(s)')
  <2>1. PICK t \in txn[o].from :
          /\ entry' = [entry EXCEPT ![txn[o].ref] = [stand |-> t, state |-> "active"]]
          /\ reservedBy' = [reservedBy EXCEPT ![t] = NoOne]
    BY <1>5 DEF AllocateCommit
  <2>2. txn[o].ref \in Refs
    BY <1>5 DEF AllocateCommit, RefRead
  <2>3. entry'[txn[o].ref].stand = t /\ entry'[txn[o].ref].state = "active"
    BY <2>1, <2>2 DEF TablesTyped
  <2>4. CASE t = s
    BY <1>1, <2>1, <2>2, <2>3, <2>4 DEF Held
  <2>5. CASE t # s
    <3>1. reservedBy'[s] = u
      BY <1>1, <2>1, <2>5
    <3> QED BY <3>1
  <2> QED BY <2>4, <2>5
<1> QED BY <1>1, <1>2, <1>3, <1>4, <1>5, HolderWrites

\* A live reservation passes to nobody else.
THEOREM ReservationTheorem == Spec => ReservationHolds
<1>1. TablesInv /\ [Next]_vars => [ReservationKept]_vars
  BY StepKeepsReservations
<1> QED BY <1>1, TablesInvariant, PTL DEF Spec, ReservationHolds

-----------------------------------------------------------------------------
(* The rest of the invariant: what is not in the two tables. *)

\* What overlaps a stand for which the trigger of a transaction has looked came since.
TriggerLooked ==
    \A o \in Officers : \A s \in txn[o].passed : \A t \in Clashes(s) : <<s, t>> \in unseen[o]

\* The stands a merge or a split will insert lie apart.
ChildrenApart ==
    \A o \in Officers : txn[o].op = "reparcel" =>
        \A s, t \in txn[o].onto : s # t => Ground[s] \intersect Ground[t] = {}

\* Most transactions are about one stand, and the trigger has looked for what they
\* wrote.
Shape ==
    \A o \in Officers :
        /\ txn[o].op = "none" => txn[o].passed = {}
        /\ txn[o].op = "create" => txn[o].passed = txn[o].onto /\ \E s \in Stands : txn[o].onto = {s}
        /\ txn[o].op = "edit" =>
             /\ txn[o].to # "withdrawn" => txn[o].passed = txn[o].from
             /\ \E s \in Stands : txn[o].from = {s}
        /\ Allocating(o) => \E s \in Stands : txn[o].from = {s}
        /\ txn[o].op = "freed" => txn[o].passed = txn[o].from

\* Only some stands are edited by hand.
EditedByHand ==
    /\ \A s \in Stands : edits[s] # 0 => s \in ByHand
    /\ \A o \in Officers : txn[o].op = "edit" => txn[o].from \subseteq ByHand

\* A revocation is of one stand, which is held until it commits, and of no other's.
RevokesHeld ==
    \A o \in Officers : Revoking(o) =>
        /\ \E s \in Stands : txn[o].from = {s} /\ Held(s)
        /\ \A p \in Officers \ {o} :
             Revoking(p) => txn[p].from \intersect txn[o].from = {}

\* The approval has been in effect in every allocation under way that needs it.
ApprovalSeen ==
    \A o \in Officers : Allocating(o) => \A s \in txn[o].from : s \in estate => o \in effective

\* The register has no gap, and an allocation under way has no number beyond the next.
NoGap == \A r \in 1..LastRef : entry[r].state # "none"
NumbersFollow ==
    \A o \in Officers : txn[o].op \in {"insert", "entered"} => txn[o].ref <= LastRef + 1

IInv ==
    /\ TablesInv
    /\ TypeOK
    /\ TriggerLooked
    /\ ChildrenApart
    /\ Shape
    /\ EditedByHand
    /\ RevokesHeld
    /\ ApprovalSeen
    /\ NoGap
    /\ NumbersFollow

-----------------------------------------------------------------------------
\* The highest number that e has an entry under.
IsHighest(e, n) ==
    /\ n \in 0..MaxRef
    /\ n = 0 \/ e[n].state # "none"
    /\ \A r \in Refs : e[r].state # "none" => r <= n
Highest(e) == CHOOSE n \in 0..MaxRef :
                /\ n = 0 \/ e[n].state # "none"
                /\ \A r \in Refs : e[r].state # "none" => r <= n

LEMMA HighestIs ==
  ASSUME NEW e
  PROVE  /\ IsHighest(e, Highest(e))
         /\ \A n : IsHighest(e, n) => n = Highest(e)
<1> DEFINE Used == {0} \union {r \in Refs : e[r].state # "none"}
<1>1. Used \in SUBSET Nat /\ Used # {} /\ \A r \in Used : r <= MaxRef
  BY DEF Refs
<1>2. PICK m \in Used : \A r \in Used : r <= m
  <2> HIDE DEF Used
  <2> QED BY <1>1, HasMaximum
<1>3. IsHighest(e, m)
  BY <1>1, <1>2 DEF Refs, IsHighest
<1>4. IsHighest(e, Highest(e))
  BY <1>3 DEF IsHighest, Highest
<1>5. ASSUME NEW n, IsHighest(e, n) PROVE n = Highest(e)
  BY <1>4, <1>5 DEF IsHighest, Refs
<1> QED BY <1>4, <1>5

LEMMA LastRefIs == LastRef = Highest(entry) /\ LastRef' = Highest(entry')
  BY DEF LastRef, Highest

LEMMA LastRefHighest == IsHighest(entry, LastRef)
  BY HighestIs, LastRefIs

\* A request changes its own transaction and nobody else's.
LEMMA OnlyOwnTxn ==
  ASSUME TablesTyped, [Next]_vars, NEW o \in Officers, txn'[o] # txn[o]
  PROVE  OfficerStep(o)
<1>1. PICK p \in Officers : OfficerStep(p)
  BY DEF Next, Step, vars, tables, stands, CitizenStep, Reserve, Release, Lapse, Withdraw,
     RequireMinister, DecideLayout
<1>2. \E t : txn' = [txn EXCEPT ![p] = t]
  BY <1>1 DEF OfficerStep, Create, Allocate, Revoke, Edit, Reparcel, InsertChild, CreateCommit,
     EditCommit, ReparcelCommit, TakeRef, InsertEntry, AllocateCommit, FreeStand, RevokeCommit,
     Fail, Begin, End
<1> QED BY <1>1, <1>2 DEF TablesTyped

\* What an officer's step makes of his transaction.
LEMMA Moved ==
  ASSUME TablesTyped, NEW o \in Officers
  PROVE  /\ \A s \in Stands :
              /\ Create(o, s) => txn'[o] = Doing("create", {}, {s}, "available", 0, {s})
              /\ Allocate(o, s) => txn'[o] = Doing("number", {s}, {}, "allocated", 0, {})
              /\ Revoke(o, s) => txn'[o] = Doing("revoke", {s}, {}, "available", 0, {})
              /\ InsertChild(o, s) => txn'[o] = [txn[o] EXCEPT !.passed = @ \union {s}]
              /\ \A to \in Statuses : Edit(o, s, to) =>
                   txn'[o] = Doing("edit", {s}, {}, to, 0, IF to = "withdrawn" THEN {} ELSE {s})
         /\ \A from, onto \in SUBSET Stands : Reparcel(o, from, onto) =>
              txn'[o] = Doing("reparcel", from, onto, "available", 0, {})
         /\ TakeRef(o) =>
              txn'[o] = Doing("insert", txn[o].from, {}, "allocated", LastRef + 1, {})
         /\ InsertEntry(o) => txn'[o] = [txn[o] EXCEPT !.op = "entered"]
         /\ FreeStand(o) => txn'[o] = [txn[o] EXCEPT !.op = "freed", !.passed = txn[o].from]
         /\ End(o) => txn'[o] = Idle
<1> USE DEF TablesTyped, Begin
<1>1. ASSUME NEW t, txn' = [txn EXCEPT ![o] = t] PROVE txn'[o] = t
  BY <1>1
<1> HIDE DEF TablesTyped
<1> QED BY <1>1, Zenon DEF Create, Allocate, Revoke, InsertChild, Edit, Reparcel, TakeRef, InsertEntry,
     FreeStand, End

\* How a transaction came to be what it is.
LEMMA Started ==
  ASSUME TablesTyped, [Next]_vars, NEW o \in Officers, txn'[o] # txn[o]
  PROVE  \/ \E s \in Stands : Create(o, s) /\ txn'[o] = Doing("create", {}, {s}, "available", 0, {s})
         \/ \E s \in Stands : Allocate(o, s) /\ txn'[o] = Doing("number", {s}, {}, "allocated", 0, {})
         \/ \E s \in Stands : Revoke(o, s) /\ txn'[o] = Doing("revoke", {s}, {}, "available", 0, {})
         \/ \E s \in Stands : InsertChild(o, s) /\ txn'[o] = [txn[o] EXCEPT !.passed = @ \union {s}]
         \/ \E s \in Stands, to \in Statuses :
              /\ Edit(o, s, to)
              /\ txn'[o] = Doing("edit", {s}, {}, to, 0, IF to = "withdrawn" THEN {} ELSE {s})
         \/ \E from, onto \in SUBSET Stands :
              /\ Reparcel(o, from, onto)
              /\ txn'[o] = Doing("reparcel", from, onto, "available", 0, {})
         \/ /\ TakeRef(o)
            /\ txn'[o] = Doing("insert", txn[o].from, {}, "allocated", LastRef + 1, {})
         \/ InsertEntry(o) /\ txn'[o] = [txn[o] EXCEPT !.op = "entered"]
         \/ FreeStand(o) /\ txn'[o] = [txn[o] EXCEPT !.op = "freed", !.passed = txn[o].from]
         \/ txn'[o] = Idle
<1>1. OfficerStep(o)
  BY OnlyOwnTxn
<1>2. CreateCommit(o) \/ EditCommit(o) \/ ReparcelCommit(o) \/ AllocateCommit(o)
        \/ RevokeCommit(o) \/ Fail(o) => End(o)
  BY DEF CreateCommit, EditCommit, ReparcelCommit, AllocateCommit, RevokeCommit, Fail
<1>3. (\E from \in SUBSET {s \in Stands : Withdrawable(s)},
          onto \in SUBSET {s \in Stands : ~Exists(s)} : Reparcel(o, from, onto))
      => \E from, onto \in SUBSET Stands : Reparcel(o, from, onto)
  OBVIOUS
<1>4. \/ \E s \in Stands : \/ Create(o, s) \/ InsertChild(o, s) \/ Allocate(o, s) \/ Revoke(o, s)
                           \/ \E to \in Statuses : Edit(o, s, to)
      \/ \E from, onto \in SUBSET Stands : Reparcel(o, from, onto)
      \/ TakeRef(o) \/ InsertEntry(o) \/ FreeStand(o)
      \/ End(o)
  BY <1>1, <1>2, <1>3, Zenon DEF OfficerStep
<1> HIDE DEF LastRef
<1>5. ASSUME NEW s \in Stands, Create(o, s)
      PROVE  txn'[o] = Doing("create", {}, {s}, "available", 0, {s})
  BY <1>5, Moved
<1>6. ASSUME NEW s \in Stands, Allocate(o, s)
      PROVE  txn'[o] = Doing("number", {s}, {}, "allocated", 0, {})
  BY <1>6, Moved
<1>7. ASSUME NEW s \in Stands, Revoke(o, s)
      PROVE  txn'[o] = Doing("revoke", {s}, {}, "available", 0, {})
  BY <1>7, Moved
<1>8. ASSUME NEW s \in Stands, InsertChild(o, s)
      PROVE  txn'[o] = [txn[o] EXCEPT !.passed = @ \union {s}]
  BY <1>8, Moved
<1>9. ASSUME NEW s \in Stands, NEW to \in Statuses, Edit(o, s, to)
      PROVE  txn'[o] = Doing("edit", {s}, {}, to, 0, IF to = "withdrawn" THEN {} ELSE {s})
  BY <1>9, Moved
<1>10. ASSUME NEW from \in SUBSET Stands, NEW onto \in SUBSET Stands, Reparcel(o, from, onto)
       PROVE  txn'[o] = Doing("reparcel", from, onto, "available", 0, {})
  BY <1>10, Moved
<1>11. /\ TakeRef(o) =>
            txn'[o] = Doing("insert", txn[o].from, {}, "allocated", LastRef + 1, {})
       /\ InsertEntry(o) => txn'[o] = [txn[o] EXCEPT !.op = "entered"]
       /\ FreeStand(o) => txn'[o] = [txn[o] EXCEPT !.op = "freed", !.passed = txn[o].from]
       /\ End(o) => txn'[o] = Idle
  BY Moved
<1> QED BY <1>4, <1>5, <1>6, <1>7, <1>8, <1>9, <1>10, <1>11, Zenon

\* The same, by what it has become.
Fresh(o) ==
    /\ txn'[o].op = "none" => txn'[o].passed = {}
    /\ txn'[o].op = "create" => \E s \in Stands :
         Create(o, s) /\ txn'[o].onto = {s} /\ txn'[o].passed = {s}
    /\ txn'[o].op = "edit" => \E s \in Stands, to \in Statuses :
         /\ Edit(o, s, to)
         /\ txn'[o].from = {s} /\ txn'[o].to = to
         /\ txn'[o].passed = IF to = "withdrawn" THEN {} ELSE {s}
    /\ txn'[o].op = "reparcel" =>
         \/ \E from, onto \in SUBSET Stands :
              Reparcel(o, from, onto) /\ txn'[o].onto = onto /\ txn'[o].passed = {}
         \/ \E s \in Stands :
              /\ InsertChild(o, s) /\ txn[o].op = "reparcel"
              /\ txn'[o].onto = txn[o].onto /\ txn'[o].passed = txn[o].passed \union {s}
    /\ txn'[o].op = "number" => \E s \in Stands :
         Allocate(o, s) /\ txn'[o].from = {s} /\ txn'[o].passed = {}
    /\ txn'[o].op = "insert" =>
         /\ TakeRef(o) /\ txn[o].op = "number"
         /\ txn'[o].from = txn[o].from /\ txn'[o].ref = LastRef + 1 /\ txn'[o].passed = {}
    /\ txn'[o].op = "entered" =>
         /\ InsertEntry(o) /\ txn[o].op = "insert"
         /\ txn'[o].from = txn[o].from /\ txn'[o].ref = txn[o].ref
         /\ txn'[o].passed = txn[o].passed
    /\ txn'[o].op = "revoke" => \E s \in Stands :
         Revoke(o, s) /\ txn'[o].from = {s} /\ txn'[o].passed = {}
    /\ txn'[o].op = "freed" =>
         /\ FreeStand(o) /\ txn[o].op = "revoke"
         /\ txn'[o].from = txn[o].from /\ txn'[o].passed = txn[o].from

LEMMA FreshIs ==
  ASSUME TablesTyped, [Next]_vars, NEW o \in Officers, txn'[o] # txn[o]
  PROVE  Fresh(o)
<1> USE DEF Fresh
<1>1. txn[o] \in Txns
  BY DEF TablesTyped
<1> HIDE DEF LastRef
<1>2. ASSUME NEW s \in Stands, Create(o, s),
             txn'[o] = Doing("create", {}, {s}, "available", 0, {s})
      PROVE  Fresh(o)
  BY <1>2 DEF Doing
<1>3. ASSUME NEW s \in Stands, Allocate(o, s),
             txn'[o] = Doing("number", {s}, {}, "allocated", 0, {})
      PROVE  Fresh(o)
  BY <1>3 DEF Doing
<1>4. ASSUME NEW s \in Stands, Revoke(o, s),
             txn'[o] = Doing("revoke", {s}, {}, "available", 0, {})
      PROVE  Fresh(o)
  BY <1>4 DEF Doing
<1>5. ASSUME NEW s \in Stands, InsertChild(o, s),
             txn'[o] = [txn[o] EXCEPT !.passed = @ \union {s}]
      PROVE  Fresh(o)
  <2>1. txn[o].op = "reparcel"
    BY <1>5 DEF InsertChild
  <2>2. /\ txn'[o].op = "reparcel" /\ txn'[o].onto = txn[o].onto
        /\ txn'[o].passed = txn[o].passed \union {s}
    BY <1>1, <1>5, <2>1 DEF Txns
  <2> QED BY <1>5, <2>1, <2>2
<1>6. ASSUME NEW s \in Stands, NEW to \in Statuses, Edit(o, s, to),
             txn'[o] = Doing("edit", {s}, {}, to, 0, IF to = "withdrawn" THEN {} ELSE {s})
      PROVE  Fresh(o)
  <2>1. /\ txn'[o].op = "edit" /\ txn'[o].from = {s} /\ txn'[o].to = to
        /\ txn'[o].passed = IF to = "withdrawn" THEN {} ELSE {s}
    BY <1>6 DEF Doing
  <2> QED BY <1>6, <2>1
<1>7. ASSUME NEW from \in SUBSET Stands, NEW onto \in SUBSET Stands, Reparcel(o, from, onto),
             txn'[o] = Doing("reparcel", from, onto, "available", 0, {})
      PROVE  Fresh(o)
  BY <1>7 DEF Doing
<1>8. ASSUME TakeRef(o), txn'[o] = Doing("insert", txn[o].from, {}, "allocated", LastRef + 1, {})
      PROVE  Fresh(o)
  BY <1>8 DEF Doing, TakeRef
<1>9. ASSUME InsertEntry(o), txn'[o] = [txn[o] EXCEPT !.op = "entered"]
      PROVE  Fresh(o)
  BY <1>1, <1>9 DEF Txns, InsertEntry
<1>10. ASSUME FreeStand(o), txn'[o] = [txn[o] EXCEPT !.op = "freed", !.passed = txn[o].from]
       PROVE  Fresh(o)
  BY <1>1, <1>10 DEF Txns, FreeStand
<1>11. ASSUME txn'[o] = Idle PROVE Fresh(o)
  BY <1>11 DEF Idle, Doing
<1> HIDE DEF Fresh
<1> QED BY Started, <1>2, <1>3, <1>4, <1>5, <1>6, <1>7, <1>8, <1>9, <1>10, <1>11, Zenon

\* Nothing is under way at the start, and the register is empty.
LEMMA InitMore == Init => IInv
<1> SUFFICES ASSUME Init PROVE IInv
  OBVIOUS
<1>1. TablesInv /\ TypeOK
  BY InitInv DEF Init, TypeOK, TablesInv
<1>2. /\ TriggerLooked /\ ChildrenApart /\ Shape /\ EditedByHand
      /\ RevokesHeld /\ ApprovalSeen /\ NumbersFollow
  BY DEF Init, TriggerLooked, ChildrenApart, Shape, EditedByHand, RevokesHeld, ApprovalSeen,
     Allocating, Revoking, NumbersFollow, Idle, Doing
<1>3. LastRef = 0
  BY LastRefHighest DEF Init, IsHighest, Refs
<1>4. NoGap
  BY <1>3 DEF NoGap
<1> QED BY <1>1, <1>2, <1>4 DEF IInv

\* The trigger saw nothing in the way when it looked, and what has come since is noted.
LEMMA TriggerStep == ASSUME IInv, [Next]_vars PROVE TriggerLooked' /\ TypeOK'
<1> USE DEF IInv
<1>1. TablesTyped /\ TablesTyped'
  BY StepInv DEF TablesInv
<1>2. CASE UNCHANGED vars
  BY <1>1, <1>2 DEF vars, tables, history, TypeOK, TriggerLooked, Clashes, Active
<1>3. CASE Remember
  <2>1. ASSUME NEW o \in Officers, NEW s \in txn'[o].passed
        PROVE  \/ s \in txn[o].passed
               \/ Clashes(s) = {} /\ UNCHANGED status
    <3>1. CASE txn'[o] = txn[o]
      BY <2>1, <3>1
    <3>2. CASE txn'[o] # txn[o]
      <4>1. Fresh(o) /\ txn'[o].op \in Ops
        BY <1>1, <3>2, FreshIs DEF TablesTyped, Txns
      <4> QED BY <2>1, <4>1 DEF Fresh, Ops, Create, Edit, InsertChild, FreeStand, stands
    <3> QED BY <3>1, <3>2
  <2>2. ASSUME NEW o \in Officers, txn'[o].passed # {} PROVE txn'[o].op # "none"
    <3>1. CASE txn'[o] = txn[o]
      BY <2>2, <3>1 DEF Shape
    <3>2. CASE txn'[o] # txn[o]
      BY <1>1, <2>2, <3>2, FreshIs DEF Fresh
    <3> QED BY <3>1, <3>2
  <2>3. ASSUME NEW o \in Officers, NEW s \in txn'[o].passed, NEW t \in Clashes(s)'
        PROVE  <<s, t>> \in unseen'[o]
    <3>1. t \in Active' /\ t # s /\ Ground[s] \intersect Ground[t] # {}
      BY <2>3 DEF Clashes
    <3>2. s \in txn[o].passed \/ t \notin Clashes(s)
      BY <2>1, <2>3
    <3>3. t \in Active <=> t \in Clashes(s)
      BY <3>1 DEF Clashes
    <3>4. t \in Active => s \in txn[o].passed
      BY <3>2, <3>3
    <3>5. s \in txn[o].passed
      <4>1. Clashes(s) = {} /\ UNCHANGED status => t \in Clashes(s)
        BY <3>1, <3>3 DEF Active
      <4> QED BY <2>1, <2>3, <4>1
    <3>6. unseen'[o] = unseen[o] \union {p \in txn[o].passed \X (Active' \ Active) :
                                           /\ p[1] # p[2]
                                           /\ Ground[p[1]] \intersect Ground[p[2]] # {}}
      BY <1>3, <2>2, <2>3 DEF Remember
    <3>7. CASE t \in Active
      BY <3>3, <3>5, <3>6, <3>7 DEF TriggerLooked
    <3>8. CASE t \notin Active
      BY <3>1, <3>5, <3>6, <3>8
    <3> QED BY <3>7, <3>8
  <2>4. unseen' \in [Officers -> SUBSET (Stands \X Stands)]
    <3>1. \A o \in Officers : txn[o].passed \subseteq Stands /\ unseen[o] \subseteq Stands \X Stands
      BY <1>1 DEF TypeOK, TablesTyped, Txns
    <3> QED BY <1>3, <3>1 DEF Remember, Active
  <2>5. effective' \subseteq Officers
    BY <1>3 DEF Remember
  <2> QED BY <1>1, <2>3, <2>4, <2>5 DEF TriggerLooked, TypeOK
<1> QED BY <1>2, <1>3 DEF Next

\* A merge or split begins with children that lie apart.
LEMMA ChildrenStep == ASSUME IInv, [Next]_vars PROVE ChildrenApart'
<1> SUFFICES ASSUME NEW o \in Officers, txn'[o].op = "reparcel",
                    NEW s \in txn'[o].onto, NEW t \in txn'[o].onto, s # t
             PROVE  Ground[s] \intersect Ground[t] = {}
  BY DEF ChildrenApart
<1>1. CASE txn'[o] = txn[o]
  BY <1>1 DEF ChildrenApart, IInv
<1>2. CASE txn'[o] # txn[o]
  <2>1. Fresh(o)
    BY <1>2, FreshIs DEF IInv, TablesInv
  <2>2. CASE txn[o].op = "reparcel" /\ txn'[o].onto = txn[o].onto
    BY <2>2 DEF ChildrenApart, IInv
  <2>3. ASSUME NEW from \in SUBSET Stands, NEW onto \in SUBSET Stands,
               Reparcel(o, from, onto), txn'[o].onto = onto
        PROVE  Ground[s] \intersect Ground[t] = {}
    BY <2>3 DEF Reparcel, Reparcels
  <2> QED BY <2>1, <2>2, <2>3 DEF Fresh
<1> QED BY <1>1, <1>2

\* A transaction is about the stand it began with.
LEMMA ShapeStep == ASSUME IInv, [Next]_vars PROVE Shape'
<1> SUFFICES ASSUME NEW o \in Officers
             PROVE
    /\ txn'[o].op = "none" => txn'[o].passed = {}
    /\ txn'[o].op = "create" =>
         txn'[o].passed = txn'[o].onto /\ \E s \in Stands : txn'[o].onto = {s}
    /\ txn'[o].op = "edit" =>
         /\ txn'[o].to # "withdrawn" => txn'[o].passed = txn'[o].from
         /\ \E s \in Stands : txn'[o].from = {s}
    /\ txn'[o].op \in {"number", "insert", "entered"} => \E s \in Stands : txn'[o].from = {s}
    /\ txn'[o].op = "freed" => txn'[o].passed = txn'[o].from
  BY DEF Shape, Allocating
<1>1. CASE txn'[o] = txn[o]
  BY <1>1 DEF Shape, Allocating, IInv
<1>2. CASE txn'[o] # txn[o]
  <2>1. Fresh(o)
    BY <1>2, FreshIs DEF IInv, TablesInv
  <2>2. txn[o].op \in {"number", "insert"} => \E s \in Stands : txn[o].from = {s}
    BY DEF IInv, Shape, Allocating
  <2> QED BY <2>1, <2>2 DEF Fresh
<1> QED BY <1>1, <1>2

\* Only an edit counts as one.
LEMMA HandWrites == ASSUME [Next]_vars PROVE edits' = edits \/ \E o \in Officers : EditCommit(o)
<1>1. ASSUME NEW o \in Officers, OfficerStep(o), ~EditCommit(o) PROVE edits' = edits
  <2>1. AllocateCommit(o) \/ RevokeCommit(o) \/ FreeStand(o) => edits' = edits
    BY DEF AllocateCommit, RevokeCommit, FreeStand
  <2> QED BY <1>1, <2>1 DEF OfficerStep, Create, Allocate, Revoke, Edit, Reparcel, InsertChild,
        CreateCommit, ReparcelCommit, TakeRef, InsertEntry, Fail
<1> QED BY <1>1 DEF Next, Step, vars, tables, CitizenStep, Reserve, Release, Lapse, Withdraw,
      RequireMinister, DecideLayout

\* An edit begins with a stand that may be edited.
LEMMA ByHandStep == ASSUME IInv, [Next]_vars PROVE EditedByHand'
<1> USE DEF IInv
<1>1. TablesTyped
  BY DEF TablesInv
<1>2. ASSUME NEW o \in Officers, txn'[o].op = "edit" PROVE txn'[o].from \subseteq ByHand
  <2>1. CASE txn'[o] = txn[o]
    BY <1>2, <2>1 DEF EditedByHand
  <2>2. CASE txn'[o] # txn[o]
    <3>1. PICK s \in Stands, to \in Statuses : Edit(o, s, to) /\ txn'[o].from = {s}
      BY <1>1, <1>2, <2>2, FreshIs DEF Fresh
    <3> QED BY <3>1 DEF Edit
  <2> QED BY <2>1, <2>2
<1>3. edits' = edits \/ \E o \in Officers : EditCommit(o)
  BY HandWrites
<1>4. \A s \in Stands : edits'[s] # 0 => s \in ByHand
  BY <1>3 DEF EditedByHand, EditCommit
<1> QED BY <1>2, <1>4 DEF EditedByHand

\* A revocation under way goes on, or it is new and of a stand no other revokes.
LEMMA RevocationBegun ==
  ASSUME IInv, [Next]_vars, NEW o \in Officers, Revoking(o)'
  PROVE  \/ Revoking(o) /\ txn'[o].from = txn[o].from
         \/ \E s \in Stands :
              /\ txn'[o].from = {s} /\ Held(s) /\ UNCHANGED entry
              /\ \A p \in Officers : ~(Revoking(p) /\ s \in txn[p].from)
              /\ \A p \in Officers \ {o} : txn'[p] = txn[p]
<1>1. TablesTyped
  BY DEF IInv, TablesInv
<1>2. CASE txn'[o] = txn[o]
  BY <1>2 DEF Revoking
<1>3. CASE txn'[o] # txn[o]
  <2>1. Fresh(o)
    BY <1>1, <1>3, FreshIs
  <2>2. CASE txn'[o].op = "freed"
    BY <2>1, <2>2 DEF Fresh, Revoking
  <2>3. CASE txn'[o].op = "revoke"
    <3>1. PICK s \in Stands : Revoke(o, s) /\ txn'[o].from = {s}
      BY <2>1, <2>3 DEF Fresh
    <3>2. \A p \in Officers \ {o} : txn'[p] = txn[p]
      BY <1>1, <3>1 DEF Revoke, Begin, TablesTyped
    <3> QED BY <3>1, <3>2 DEF Revoke
  <2> QED BY <2>2, <2>3 DEF Revoking
<1> QED BY <1>2, <1>3

\* Only its own revocation ends a grant.
LEMMA RevokesStep == ASSUME IInv, [Next]_vars PROVE RevokesHeld'
<1> USE DEF IInv
<1>1. TablesTyped /\ TablesInv
  BY DEF TablesInv
<1>2. ASSUME NEW o \in Officers, Revoking(o), Revoking(o)',
             NEW s \in Stands, txn[o].from = {s}, Held(s)
      PROVE  Held(s)'
  <2>1. PICK r \in Refs : entry[r].stand = s /\ entry[r].state = "active"
    BY <1>2 DEF Held
  <2>2. CASE UNCHANGED entry
    BY <2>1, <2>2 DEF Held
  <2>3. ASSUME NEW p \in Officers, AllocateCommit(p) PROVE Held(s)'
    <3>1. entry'[r] = entry[r]
      BY <1>1, <2>1, <2>3 DEF AllocateCommit, TablesTyped
    <3> QED BY <2>1, <3>1 DEF Held
  <2>4. ASSUME NEW p \in Officers, RevokeCommit(p) PROVE Held(s)'
    <3>1. p # o
      BY <1>1, <1>2, <2>4 DEF RevokeCommit, End, Begin, Idle, Doing, Revoking, TablesTyped
    <3>2. s \notin txn[p].from
      BY <1>2, <2>4, <3>1 DEF RevokeCommit, RevokesHeld, Revoking
    <3>3. entry'[r] = entry[r]
      BY <2>1, <2>4, <3>2 DEF RevokeCommit
    <3> QED BY <2>1, <3>3 DEF Held
  <2> QED BY <2>2, <2>3, <2>4, RegisterWrites
<1>3. ASSUME NEW o \in Officers, Revoking(o)'
      PROVE  \E s \in Stands : txn'[o].from = {s} /\ Held(s)'
  <2>1. CASE Revoking(o) /\ txn'[o].from = txn[o].from
    <3>1. PICK s \in Stands : txn[o].from = {s} /\ Held(s)
      BY <2>1 DEF RevokesHeld
    <3> QED BY <1>2, <1>3, <2>1, <3>1
  <2>2. ASSUME NEW s \in Stands, txn'[o].from = {s}, Held(s), UNCHANGED entry
        PROVE  Held(s)'
    BY <2>2 DEF Held
  <2> QED BY <1>3, <2>1, <2>2, RevocationBegun
<1>4. ASSUME NEW o \in Officers, NEW p \in Officers \ {o}, Revoking(o)', Revoking(p)',
             Revoking(p), txn'[p].from = txn[p].from
      PROVE  txn'[p].from \intersect txn'[o].from = {}
  <2>1. CASE Revoking(o) /\ txn'[o].from = txn[o].from
    BY <1>4, <2>1 DEF RevokesHeld
  <2>2. ASSUME NEW s \in Stands, txn'[o].from = {s},
               \A q \in Officers : ~(Revoking(q) /\ s \in txn[q].from)
        PROVE  txn'[p].from \intersect txn'[o].from = {}
    BY <1>4, <2>2
  <2> QED BY <1>4, <2>1, <2>2, RevocationBegun
<1>5. ASSUME NEW o \in Officers, NEW p \in Officers \ {o}, Revoking(o)', Revoking(p)'
      PROVE  txn'[p].from \intersect txn'[o].from = {}
  <2>1. CASE Revoking(p) /\ txn'[p].from = txn[p].from
    BY <1>4, <1>5, <2>1
  <2>2. ASSUME NEW s \in Stands, txn'[p].from = {s},
               \A q \in Officers : ~(Revoking(q) /\ s \in txn[q].from),
               \A q \in Officers \ {p} : txn'[q] = txn[q]
        PROVE  txn'[p].from \intersect txn'[o].from = {}
    BY <1>5, <2>2 DEF Revoking
  <2> QED BY <1>5, <2>1, <2>2, RevocationBegun
<1> QED BY <1>3, <1>5 DEF RevokesHeld

\* A stand comes to need the approval only while nobody holds its row.
LEMMA EstateLocked ==
  ASSUME TablesTyped, [Next]_vars, NEW s \in Stands, lock[s] # NoOne, s \in estate'
  PROVE  s \in estate
<1>1. ASSUME NEW t \in Stands, NEW r \in BOOLEAN, RequireMinister(t, r) PROVE s \in estate
  BY <1>1 DEF RequireMinister, Unlocked
<1>2. (\E t \in Stands, r \in BOOLEAN : RequireMinister(t, r)) \/ UNCHANGED estate
  <2>1. CASE UNCHANGED vars
    BY <2>1 DEF vars, tables, stands
  <2>2. CASE CitizenStep
    BY <2>2 DEF CitizenStep, Reserve, Release, stands
  <2>3. ASSUME NEW o \in Officers, OfficerStep(o)
        PROVE  UNCHANGED estate
    <3>1. ASSUME NEW t \in Stands,
                 Create(o, t) \/ InsertChild(o, t) \/ Allocate(o, t) \/ Revoke(o, t)
          PROVE  UNCHANGED estate
      BY <3>1 DEF Create, InsertChild, Allocate, Revoke, stands
    <3>2. ASSUME NEW t \in Stands, NEW to \in Statuses, Edit(o, t, to)
          PROVE  UNCHANGED estate
      BY <3>2 DEF Edit, stands
    <3>3. ASSUME NEW from, NEW onto, Reparcel(o, from, onto)
          PROVE  UNCHANGED estate
      BY <3>3 DEF Reparcel, stands
    <3>4. CASE CreateCommit(o) \/ EditCommit(o) \/ ReparcelCommit(o) \/ AllocateCommit(o) \/ RevokeCommit(o)
      BY <3>4 DEF CreateCommit, EditCommit, ReparcelCommit, AllocateCommit, RevokeCommit
    <3>5. CASE TakeRef(o) \/ InsertEntry(o) \/ FreeStand(o) \/ Fail(o)
      BY <3>5 DEF TakeRef, InsertEntry, FreeStand, Fail, stands
    <3> QED BY <2>3, <3>1, <3>2, <3>3, <3>4, <3>5 DEF OfficerStep
  <2>4. ASSUME NEW t \in Stands, Lapse(t) \/ Withdraw(t)
        PROVE  UNCHANGED estate
    BY <2>4 DEF Lapse, Withdraw, stands
  <2>5. ASSUME NEW effect \in BOOLEAN, DecideLayout(effect)
        PROVE  UNCHANGED estate
    BY <2>5 DEF DecideLayout, stands
  <2> QED BY <2>1, <2>2, <2>3, <2>4, <2>5 DEF Next, Step
<1> QED BY <1>1, <1>2

\* What needed the approval when it was locked found it, and nothing needs it later.
LEMMA ApprovalStep == ASSUME IInv, [Next]_vars PROVE ApprovalSeen'
<1> USE DEF IInv
<1>1. TablesTyped /\ LocksHeld
  BY DEF TablesInv
<1>2. CASE UNCHANGED vars
  BY <1>2 DEF vars, tables, history, ApprovalSeen, Allocating
<1>3. ASSUME Remember, NEW o \in Officers, Allocating(o)', NEW s \in txn'[o].from, s \in estate'
      PROVE  o \in effective'
  <2>1. txn'[o].from = {s}
    BY <1>3, ShapeStep DEF Shape
  <2>2. approved \/ o \in effective
    <3>1. CASE Allocating(o) /\ txn'[o].from = txn[o].from
      <4>1. s \in Stands /\ lock[s] = o
        BY <1>1, <1>3, <3>1 DEF LocksHeld, Allocating, Holding, TablesTyped, Txns
      <4>2. s \in estate
        BY <1>1, <1>3, <4>1, EstateLocked
      <4> QED BY <1>3, <3>1, <4>2 DEF ApprovalSeen
    <3>2. CASE txn'[o] # txn[o] /\ txn'[o].op = "number"
      <4>1. PICK q \in Stands : Allocate(o, q) /\ txn'[o].from = {q}
        BY <1>1, <3>2, FreshIs DEF Fresh
      <4>2. q = s /\ UNCHANGED estate
        BY <1>3, <4>1 DEF Allocate
      <4> QED BY <1>3, <4>1, <4>2 DEF Allocate
    <3>3. CASE txn'[o] # txn[o] /\ txn'[o].op # "number"
      BY <1>1, <1>3, <3>1, <3>3, FreshIs DEF Fresh, Allocating
    <3>4. CASE txn'[o] = txn[o]
      BY <1>3, <3>1, <3>4 DEF Allocating
    <3> QED BY <3>2, <3>3, <3>4
  <2> QED BY <1>3, <2>1, <2>2 DEF Remember
<1> QED BY <1>2, <1>3 DEF Next, ApprovalSeen

\* An allocation gets the next number, since no lower one is free; a revocation leaves
\* the numbers.
LEMMA AllocateNumbers ==
  ASSUME IInv, NEW o \in Officers, AllocateCommit(o)
  PROVE  /\ txn[o].ref = LastRef + 1
         /\ LastRef' = LastRef + 1
<1> USE DEF IInv, TablesInv
<1>1. /\ txn[o].ref \in Refs /\ entry[txn[o].ref].state = "none"
      /\ txn[o].ref <= LastRef + 1
      /\ \E s \in txn[o].from :
           entry' = [entry EXCEPT ![txn[o].ref] = [stand |-> s, state |-> "active"]]
  BY DEF AllocateCommit, RefRead, NumbersFollow
<1>2. IsHighest(entry, LastRef)
  BY LastRefHighest
<1> HIDE DEF LastRef
<1>3. txn[o].ref = LastRef + 1
  <2>1. txn[o].ref \notin 1..LastRef
    BY <1>1 DEF NoGap
  <2> QED BY <1>1, <1>2, <2>1 DEF IsHighest, Refs
<1>4. IsHighest(entry', LastRef + 1)
  <2>1. \A r \in Refs : entry'[r].state # "none" => r = LastRef + 1 \/ entry[r].state # "none"
    BY <1>1, <1>3 DEF TablesTyped
  <2>2. entry'[LastRef + 1].state = "active"
    BY <1>1, <1>3 DEF TablesTyped
  <2> QED BY <1>1, <1>2, <1>3, <2>1, <2>2 DEF IsHighest, Refs
<1> QED BY <1>3, <1>4, HighestIs, LastRefIs

LEMMA RevokeNumbers ==
  ASSUME TablesTyped, NEW o \in Officers, RevokeCommit(o)
  PROVE  LastRef' = LastRef
<1>1. \A r \in Refs : entry'[r].state # "none" <=> entry[r].state # "none"
  <2> TAKE r \in Refs
  <2>1. entry[r] \in Entries
    BY DEF TablesTyped
  <2>2. entry'[r] = IF entry[r].stand \in txn[o].from /\ entry[r].state = "active"
                      THEN [entry[r] EXCEPT !.state = "revoked"] ELSE entry[r]
    BY DEF RevokeCommit, Revoked
  <2> QED BY <2>1, <2>2 DEF Entries
<1>2. IsHighest(entry, LastRef)
  BY LastRefHighest
<1> HIDE DEF LastRef
<1>3. IsHighest(entry', LastRef)
  BY <1>1, <1>2 DEF IsHighest, Refs
<1> QED BY <1>3, HighestIs, LastRefIs

LEMMA NumbersStep == ASSUME IInv, [Next]_vars PROVE NoGap' /\ NumbersFollow'
<1> USE DEF IInv, TablesInv
<1>1. IsHighest(entry, LastRef) /\ LastRef \in Nat
  BY LastRefHighest DEF IsHighest
<1>2. UNCHANGED entry => LastRef' = LastRef
  BY DEF LastRef
<1>3. LastRef' \in {LastRef, LastRef + 1}
  BY <1>2, AllocateNumbers, RevokeNumbers, RegisterWrites
<1> HIDE DEF LastRef
<1>4. NoGap'
  <2> SUFFICES ASSUME NEW r \in 1..LastRef' PROVE entry'[r].state # "none"
    BY DEF NoGap
  <2>1. CASE UNCHANGED entry
    BY <1>2, <2>1 DEF NoGap
  <2>2. ASSUME NEW o \in Officers, AllocateCommit(o) PROVE entry'[r].state # "none"
    <3>1. LastRef' = LastRef + 1 /\ txn[o].ref = LastRef + 1 /\ txn[o].ref \in Refs
      BY <2>2, AllocateNumbers DEF AllocateCommit, RefRead
    <3>2. \E s \in txn[o].from :
            entry' = [entry EXCEPT ![txn[o].ref] = [stand |-> s, state |-> "active"]]
      BY <2>2 DEF AllocateCommit
    <3>3. CASE r = LastRef + 1
      BY <3>1, <3>2, <3>3 DEF TablesTyped
    <3>4. CASE r # LastRef + 1
      <4>1. r \in 1..LastRef /\ r \in Refs
        BY <1>1, <3>1, <3>4 DEF Refs
      <4> QED BY <3>1, <3>2, <3>4, <4>1 DEF TablesTyped, NoGap
    <3> QED BY <3>3, <3>4
  <2>3. ASSUME NEW o \in Officers, RevokeCommit(o) PROVE entry'[r].state # "none"
    <3>1. r \in 1..LastRef /\ r \in Refs
      BY <1>1, <2>3, RevokeNumbers DEF IsHighest, Refs
    <3>2. entry[r].state # "none" /\ entry[r] \in Entries
      BY <3>1 DEF NoGap, TablesTyped
    <3>3. entry'[r] \in {[entry[r] EXCEPT !.state = "revoked"], entry[r]}
      BY <2>3, <3>1 DEF RevokeCommit, Revoked
    <3> QED BY <3>2, <3>3 DEF Entries
  <2> QED BY <2>1, <2>2, <2>3, RegisterWrites
<1>5. NumbersFollow'
  <2> SUFFICES ASSUME NEW o \in Officers, txn'[o].op \in {"insert", "entered"}
               PROVE  txn'[o].ref <= LastRef' + 1
    BY DEF NumbersFollow
  <2>1. CASE txn'[o] = txn[o]
    <3>1. txn[o].ref <= LastRef + 1 /\ txn[o].ref \in Nat
      BY <2>1 DEF NumbersFollow, TablesTyped, Txns
    <3> QED BY <1>1, <1>3, <2>1, <3>1
  <2>2. CASE txn'[o] # txn[o]
    <3>1. \/ txn'[o].ref = LastRef + 1
          \/ txn[o].op = "insert" /\ txn'[o].ref = txn[o].ref
      BY <2>2, FreshIs DEF Fresh
    <3>2. txn[o].op = "insert" => txn[o].ref <= LastRef + 1 /\ txn[o].ref \in Nat
      BY DEF NumbersFollow, TablesTyped, Txns
    <3> QED BY <1>1, <1>3, <3>1, <3>2
  <2> QED BY <2>1, <2>2
<1> QED BY <1>4, <1>5

\* Every step keeps the rest.
LEMMA MoreInv == IInv /\ [Next]_vars => IInv'
  BY StepInv, TriggerStep, ChildrenStep, ShapeStep, ByHandStep, RevokesStep, ApprovalStep,
     NumbersStep DEF IInv

\* The whole invariant.
THEOREM Invariant == Spec => []IInv
  BY InitMore, MoreInv, PTL DEF Spec

\* Every row, entry and transaction keeps its type.
THEOREM Typed == Spec => []TypeOK
  BY Invariant, PTL DEF IInv

-----------------------------------------------------------------------------
\* An allocation holds the row since it looked, and nothing else gives a stand an entry.
LEMMA StepAllocatesOffered ==
  ASSUME IInv, [Next]_vars, NEW s \in Stands, ~Held(s), Held(s)'
  PROVE  /\ status[s] \in Offered
         /\ s \in estate => \E o \in effective : s \in txn[o].from /\ lock[s] = o
<1> USE DEF IInv, TablesInv
<1>1. PICK o \in Officers : AllocateCommit(o) \/ RevokeCommit(o)
  BY RegisterWrites DEF Held
<1>2. ~RevokeCommit(o)
  <2> SUFFICES ASSUME RevokeCommit(o), NEW r \in Refs,
                      entry'[r].stand = s, entry'[r].state = "active"
               PROVE  FALSE
    BY DEF Held
  <2>1. entry'[r] \in {[entry[r] EXCEPT !.state = "revoked"], entry[r]}
    BY DEF RevokeCommit, Revoked
  <2>2. entry[r] \in Entries
    BY DEF TablesTyped
  <2> QED BY <2>1, <2>2 DEF Held, Entries
<1>3. s \in txn[o].from
  <2>1. PICK q \in txn[o].from :
          entry' = [entry EXCEPT ![txn[o].ref] = [stand |-> q, state |-> "active"]]
    BY <1>1, <1>2 DEF AllocateCommit
  <2> QED BY <2>1 DEF Held, TablesTyped
<1>4. txn[o].op = "entered"
  BY <1>1, <1>2 DEF AllocateCommit
<1>5. status[s] \in Offered /\ lock[s] = o
  BY <1>3, <1>4 DEF AllocationStands, Allocating, LocksHeld, Holding
<1>6. s \in estate => o \in effective
  BY <1>3, <1>4 DEF ApprovalSeen, Allocating
<1> QED BY <1>3, <1>5, <1>6

\* A stand is on offer at the moment it is allocated, and if it has to be approved then,
\* the approval has been in effect since its row was locked.
THEOREM OfferTheorem == Spec => AllocatedWhileOffered
<1>1. IInv /\ [Next]_vars =>
        [\A s \in Stands : ~Held(s) /\ Held(s)' =>
           /\ status[s] \in Offered
           /\ s \in estate => \E o \in effective : s \in txn[o].from /\ lock[s] = o]_vars
  BY StepAllocatesOffered
<1> QED BY <1>1, Invariant, PTL DEF Spec, AllocatedWhileOffered

-----------------------------------------------------------------------------
\* What makes a stand active: a commit, of a new stand, an edit, a merge or split, or a
\* revocation.
LEMMA Activated ==
  ASSUME IInv, [Next]_vars, NEW s \in Stands, s \in Active', s \notin Active
  PROVE  \E o \in Officers :
           \/ CreateCommit(o) /\ s \in txn[o].onto
           \/ EditCommit(o) /\ s \in txn[o].from /\ txn[o].to # "withdrawn"
           \/ ReparcelCommit(o) /\ s \in txn[o].onto
           \/ RevokeCommit(o) /\ s \in txn[o].from
<1> USE DEF IInv, TablesInv, Active
<1>1. status \in [Stands -> Statuses \union {"absent"}]
  BY DEF TablesTyped
<1>2. status'[s] # status[s] /\ status'[s] \notin {"absent", "withdrawn"}
      /\ status[s] \in {"absent", "withdrawn"}
  BY <1>1 DEF Statuses
<1>3. ~CitizenStep /\ ~(\E t \in Stands : Withdraw(t))
  BY <1>1, <1>2 DEF CitizenStep, Reserve, Release, Withdraw, Reservable, Statuses, Offered
<1>4. PICK o \in Officers : CreateCommit(o) \/ EditCommit(o) \/ ReparcelCommit(o)
                              \/ AllocateCommit(o) \/ RevokeCommit(o)
  BY <1>2, <1>3 DEF Next, Step, vars, tables, stands, OfficerStep, Lapse, RequireMinister,
     DecideLayout, Create, Allocate, Revoke, Edit, Reparcel, InsertChild, TakeRef, InsertEntry,
     FreeStand, Fail
<1>5. ~AllocateCommit(o)
  <2> SUFFICES ASSUME AllocateCommit(o) PROVE FALSE
    OBVIOUS
  <2>1. PICK t \in txn[o].from : status' = [status EXCEPT ![t] = "allocated"]
    BY DEF AllocateCommit
  <2>2. status[t] \in Offered
    BY DEF AllocateCommit, AllocationStands, Allocating
  <2> QED BY <1>1, <1>2, <2>1, <2>2 DEF Offered
<1> QED BY <1>1, <1>2, <1>4, <1>5 DEF CreateCommit, EditCommit, ReparcelCommit, RevokeCommit

\* If it then overlaps another, that one came after the trigger had looked for it.
LEMMA OverlapRaced ==
  ASSUME IInv, [Next]_vars, NEW s \in Stands, NEW t \in Stands, <<s, t>> \in Overlaps', s \notin Active
  PROVE  Raced(s, t)
<1> USE DEF IInv, TablesInv
<1>1. s # t /\ s \in Active' /\ t \in Active' /\ Ground[t] \intersect Ground[s] # {}
  BY DEF Overlaps
<1>2. t \in Active => t \in Clashes(s)
  BY <1>1 DEF Clashes
<1>3. PICK o \in Officers :
        \/ CreateCommit(o) /\ s \in txn[o].onto
        \/ EditCommit(o) /\ s \in txn[o].from /\ txn[o].to # "withdrawn"
        \/ ReparcelCommit(o) /\ s \in txn[o].onto
        \/ RevokeCommit(o) /\ s \in txn[o].from
  BY <1>1, Activated
<1>4. txn'[o].op = "none"
  BY <1>3 DEF CreateCommit, EditCommit, ReparcelCommit, RevokeCommit, End, Begin, Idle, Doing,
     TablesTyped
<1>5. s \in txn[o].passed /\ t \in Active
  <2>1. CASE CreateCommit(o) /\ s \in txn[o].onto
    BY <1>1, <2>1 DEF CreateCommit, Shape, Active
  <2>2. CASE EditCommit(o) /\ s \in txn[o].from /\ txn[o].to # "withdrawn"
    BY <1>1, <2>2 DEF EditCommit, Shape, Active
  <2>3. CASE ReparcelCommit(o) /\ s \in txn[o].onto
    <3>1. t \notin txn[o].onto
      BY <1>1, <2>3 DEF ReparcelCommit, ChildrenApart
    <3> QED BY <1>1, <2>3, <3>1 DEF ReparcelCommit, Active
  <2>4. CASE RevokeCommit(o) /\ s \in txn[o].from
    <3>1. txn[o].from = {s} /\ txn[o].passed = {s}
      BY <2>4 DEF RevokeCommit, RevokesHeld, Revoking, Shape
    <3> QED BY <1>1, <2>4, <3>1 DEF RevokeCommit, Active
  <2> QED BY <1>3, <2>1, <2>2, <2>3, <2>4
<1>6. <<s, t>> \in unseen[o]
  BY <1>2, <1>5 DEF TriggerLooked
<1> QED BY <1>4, <1>6 DEF Raced

\* Active stands come to overlap by a commit whose trigger looked too early, and in no
\* other way.
THEOREM OverlapTheorem == Spec => OverlapOnlyByRace
<1>1. IInv /\ [Next]_vars =>
        [\A p \in Overlaps' \ Overlaps : Raced(p[1], p[2]) \/ Raced(p[2], p[1])]_vars
  <2> SUFFICES ASSUME IInv, [Next]_vars, NEW p \in Overlaps', p \notin Overlaps
               PROVE  Raced(p[1], p[2]) \/ Raced(p[2], p[1])
    OBVIOUS
  <2>1. p[1] \in Stands /\ p[2] \in Stands /\ p = <<p[1], p[2]>>
    BY DEF Overlaps, Active
  <2>2. p[1] \notin Active \/ p[2] \notin Active
    BY <2>1 DEF Overlaps
  <2>3. <<p[2], p[1]>> \in Overlaps'
    BY <2>1 DEF Overlaps
  <2> QED BY <2>1, <2>2, <2>3, OverlapRaced
<1> QED BY <1>1, Invariant, PTL DEF Spec, OverlapOnlyByRace

-----------------------------------------------------------------------------
(* The register of StandAllocation keeps the promise of LandRegister. *)

Grants == [r \in 1..LastRef |-> entry[r]]
Offer == {s \in Stands : status[s] \in Offered}

\* A stand is granted in the one when it is held in the other.
LEMMA GrantedIsHeld == ASSUME TablesTyped, NEW s \in Stands PROVE Register!Granted(s) <=> Held(s)
<1>1. IsHighest(entry, LastRef)
  BY LastRefHighest
<1> HIDE DEF LastRef
<1>2. Len(Grants) = LastRef /\ \A r \in 1..LastRef : Grants[r] = entry[r] /\ r \in Refs
  BY <1>1 DEF Grants, IsHighest, Refs
<1>3. \A r \in Refs : entry[r].state = "active" => r \in 1..LastRef
  BY <1>1 DEF IsHighest, Refs
<1>4. \A r \in Refs : entry[r] = [stand |-> s, state |-> "active"]
                        <=> entry[r].stand = s /\ entry[r].state = "active"
  BY DEF TablesTyped, Entries
<1>5. Register!Granted(s) <=> \E r \in 1..LastRef : entry[r] = [stand |-> s, state |-> "active"]
  BY <1>2 DEF Register!Granted, Grants
<1> QED BY <1>2, <1>3, <1>4, <1>5 DEF Held

\* An allocation appends one grant ...
LEMMA AllocateRefines ==
  ASSUME IInv, NEW o \in Officers, AllocateCommit(o)
  PROVE  \E s \in Stands : Register!Grant(s)
<1> USE DEF IInv, TablesInv
<1>1. PICK s \in txn[o].from :
        /\ entry' = [entry EXCEPT ![txn[o].ref] = [stand |-> s, state |-> "active"]]
        /\ status' = [status EXCEPT ![s] = "allocated"]
  BY DEF AllocateCommit
<1>2. /\ s \in Stands /\ status[s] \in Offered /\ ~Held(s)
      /\ txn[o].ref \in Refs
  BY DEF AllocateCommit, AllocationStands, Allocating, Duplicate, RefRead, TablesTyped, Txns
<1>3. IsHighest(entry, LastRef) /\ txn[o].ref = LastRef + 1 /\ LastRef' = LastRef + 1
  BY AllocateNumbers, LastRefHighest
<1> HIDE DEF LastRef
<1>4. Offer' = Offer \ {s}
  BY <1>1, <1>2 DEF Offer, Offered, TablesTyped
<1>5. Grants' = Append(Grants, [stand |-> s, state |-> "active"])
  <2>1. LastRef \in Nat /\ LastRef + 1 \in Refs /\ \A r \in 1..LastRef : r \in Refs
    BY <1>2, <1>3 DEF IsHighest, Refs
  <2>2. Grants' = [r \in 1..(LastRef + 1) |-> entry'[r]]
    BY <1>3 DEF Grants
  <2>3. \A r \in 1..(LastRef + 1) :
          entry'[r] = IF r = LastRef + 1 THEN [stand |-> s, state |-> "active"] ELSE entry[r]
    BY <1>1, <1>3, <2>1 DEF TablesTyped
  <2>4. Grants \in Seq(Entries) /\ Len(Grants) = LastRef
    BY <2>1 DEF Grants, TablesTyped
  <2> DEFINE longer == Append(Grants, [stand |-> s, state |-> "active"])
  <2>5. /\ DOMAIN longer = 1..(LastRef + 1)
        /\ \A r \in 1..(LastRef + 1) :
             longer[r] = IF r = LastRef + 1 THEN [stand |-> s, state |-> "active"] ELSE Grants[r]
    BY <2>1, <2>4
  <2>6. longer = [r \in 1..(LastRef + 1) |-> longer[r]]
    BY <2>5, <2>4, <2>1
  <2>7. \A r \in 1..(LastRef + 1) : longer[r] = entry'[r]
    BY <2>1, <2>3, <2>5 DEF Grants
  <2> QED BY <2>2, <2>6, <2>7
<1>6. ~Register!Granted(s)
  BY <1>2, GrantedIsHeld
<1>7. Register!Grant(s)
  BY <1>2, <1>4, <1>5, <1>6 DEF Register!Grant, Grants, Offer
<1> QED BY <1>2, <1>7

\* ... a revocation marks those of its stand, which is one ...
LEMMA RevokeRefines ==
  ASSUME IInv, NEW o \in Officers, RevokeCommit(o)
  PROVE  \E s \in Stands : Register!Revoke(s)
<1> USE DEF IInv, TablesInv
<1>1. PICK s \in Stands : txn[o].from = {s} /\ Held(s)
  BY DEF RevokeCommit, RevokesHeld, Revoking
<1>2. IsHighest(entry, LastRef) /\ LastRef' = LastRef
  BY LastRefHighest, RevokeNumbers
<1> HIDE DEF LastRef
<1>3. Offer' = Offer \union {s}
  BY <1>1 DEF RevokeCommit, Offer, Offered, TablesTyped
<1>4. Len(Grants) = LastRef /\ \A r \in 1..LastRef : Grants[r] = entry[r] /\ r \in Refs
  BY <1>2 DEF Grants, IsHighest, Refs
<1>5. \A r \in 1..LastRef :
        entry'[r] = IF Grants[r].stand = s THEN [Grants[r] EXCEPT !.state = "revoked"]
                    ELSE Grants[r]
  <2> SUFFICES ASSUME NEW r \in 1..LastRef
               PROVE  entry'[r] = IF entry[r].stand = s THEN [entry[r] EXCEPT !.state = "revoked"]
                                  ELSE entry[r]
    BY <1>4
  <2>1. r \in Refs /\ entry[r] \in Entries /\ entry[r].state # "none"
    BY <1>4 DEF NoGap, TablesTyped
  <2>2. entry'[r] = IF entry[r].stand = s /\ entry[r].state = "active"
                      THEN [entry[r] EXCEPT !.state = "revoked"] ELSE entry[r]
    BY <1>1, <2>1 DEF RevokeCommit, Revoked
  <2>3. entry[r].state = "revoked" => [entry[r] EXCEPT !.state = "revoked"] = entry[r]
    BY <2>1 DEF Entries
  <2> QED BY <2>1, <2>2, <2>3 DEF Entries
<1>6. Grants' = [i \in 1..Len(Grants) |->
                   IF Grants[i].stand = s THEN [Grants[i] EXCEPT !.state = "revoked"]
                   ELSE Grants[i]]
  BY <1>2, <1>4, <1>5 DEF Grants
<1>7. Register!Granted(s)
  BY <1>1, GrantedIsHeld
<1>8. Register!Revoke(s)
  BY <1>3, <1>6, <1>7 DEF Register!Revoke, Grants, Offer
<1> QED BY <1>8

\* ... and every other step leaves the register, and puts back on offer what is granted
\* only by hand.
LEMMA MarketRefines ==
  ASSUME IInv, [Next]_vars, UNCHANGED entry
  PROVE  Register!Market
<1> USE DEF IInv, TablesInv
<1>1. Grants' = Grants
  BY DEF Grants, LastRef
<1> HIDE DEF LastRef
<1>2. ASSUME NEW s \in Offer' \ Offer, Held(s) PROVE s \in ByHand
  <2>1. s \in Stands /\ status[s] \notin Offered /\ status'[s] \in Offered
    BY DEF Offer
  <2>2. Held(s)'
    BY <1>2 DEF Held
  <2>3. edits'[s] # 0
    <3>1. RegisterAgrees'
      BY StepInv
    <3> QED BY <2>1, <2>2, <3>1 DEF RegisterAgrees, Offered
  <2> QED BY <2>1, <2>3, ByHandStep DEF EditedByHand
<1>3. \A s \in Offer' \ Offer : Register!Granted(s) => s \in ByHand
  BY <1>2, GrantedIsHeld DEF Offer
<1> QED BY <1>1, <1>3 DEF Register!Market, Grants, Offer

\* Allocations and revocations, however many officers are at it, keep the promise of
\* LandRegister.
THEOREM Refinement == Spec => ImplementsLandRegister
<1>1. Init => Register!AbsInit
  <2> SUFFICES ASSUME Init PROVE Register!AbsInit
    OBVIOUS
  <2>1. LastRef = 0
    BY LastRefHighest DEF Init, IsHighest, Refs
  <2> QED BY <2>1 DEF Register!AbsInit
<1>2. IInv /\ [Next]_vars => [Register!AbsNext]_(Register!land)
  BY AllocateRefines, RevokeRefines, MarketRefines, RegisterWrites DEF Register!AbsNext
<1> QED BY <1>1, <1>2, Invariant, PTL DEF Spec, ImplementsLandRegister, Register!AbsSpec
=============================================================================
