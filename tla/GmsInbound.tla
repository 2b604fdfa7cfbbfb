----------------------------- MODULE GmsInbound -----------------------------
(***************************************************************************)
(* The ERP's events and the reconciliation with the ERP                    *)
(* (src/src/services/gms/inbound.js and reconciliation.js, their routes    *)
(* in routes/gms-integration.js, the tables of migration 132).             *)
(*                                                                         *)
(* The ERP redelivers an event until it is answered, so any event may be   *)
(* delivered at any time.  A delivery is one transaction: the row of       *)
(* inbound_event, whose event_id and idempotency_key are unique, and what  *)
(* the event says.  A reconciliation run is one transaction of several     *)
(* statements, each with a snapshot of its own (READ COMMITTED): one per   *)
(* check, which upserts an open item for each problem found, then one that *)
(* resolves the open items this run has not seen.  Runs overlap: every     *)
(* server has its nightly run, and an operator starts one at any time.     *)
(*                                                                         *)
(* What a transaction has written stays in its record until the COMMIT;    *)
(* the rows it has written are locked until then.  The parcels (built,     *)
(* retired, stand number) do not change here.  assigned_to, notes and the  *)
(* rows already resolved are left out; allocation_status goes with a link. *)
(***************************************************************************)
EXTENDS Naturals, FiniteSets

CONSTANTS
    Events,        \* id -> the event (Ids is its domain)
    Parcels,       \* land.parcel
    Retired,       \* the parcels whose status is 'retired'
    Built,         \* the parcels with a row in land.building
    StandNo,       \* parcel -> township and stand number
    Accounts,      \* erp_account_no
    LinkedAlready, \* account_link at the start
    Requests,      \* deliveries that may be under way at one time
    Runs,          \* reconciliation runs that may be under way at one time
    MaxRuns,       \* bound: reconciliation runs begun
    NoEvent

Ids == DOMAIN Events
Bands == {"current", "in_arrears", "closed"}
Readings == [band : Bands, at : Nat]

\* An event after envelopeError(): a BillingStatusUpdated has a reading for each
\* account that passes the handler's tests, an AccountLinked a parcel and account.
Linking(key, p, a) == [type |-> "AccountLinked", key |-> key, parcel |-> p, account |-> a,
                       reads |-> [x \in {} |-> [band |-> "current", at |-> 0]]]

ASSUME ParcelAssumption ==
    /\ Retired \subseteq Parcels
    /\ Built \subseteq Parcels
    /\ DOMAIN StandNo = Parcels
    /\ LinkedAlready \subseteq Parcels \X Accounts
ASSUME EventAssumption ==
    /\ NoEvent \notin Ids
    /\ \A e \in Ids :
         /\ Events[e].type = "AccountLinked" => Events[e].account \in Accounts
         /\ DOMAIN Events[e].reads \subseteq Accounts
         /\ \A a \in DOMAIN Events[e].reads : Events[e].reads[a] \in Readings
ASSUME BoundAssumption == MaxRuns \in Nat

VARIABLES
    log,           \* event -> its row's outcome in inbound_event, or "none"
    links,         \* account_link, parcel and account
    band,          \* billing_status: account -> reading (at 0: no row)
    req,           \* delivery -> where it is
    item,          \* problem -> last_seen_at of its open item, 0 if none is open
    run,           \* reconciliation run -> where it is
    clock,         \* bound: runs begun, and the time of the last one
    moved          \* history: problems that appeared or went since no run was active

erp == <<log, links, band, req>>
recon == <<item, run, clock>>
vars == <<log, links, band, req, item, run, clock, moved>>

Outcomes == {"applied", "ignored", "rejected"}
NoReading == [band |-> "closed", at |-> 0]

-----------------------------------------------------------------------------
(* What an event says *)

Known(e) == Events[e].type = "AccountLinked" /\ Events[e].parcel \in Parcels \ Retired
MakesLink(e) == IF Known(e) THEN {<<Events[e].parcel, Events[e].account>>} ELSE {}
ReadsOf(e) == IF Events[e].type = "BillingStatusUpdated" THEN DOMAIN Events[e].reads ELSE {}

Outcome(e) == CASE Events[e].type = "AccountLinked" ->
                       IF Known(e) THEN "applied" ELSE "rejected"
                [] Events[e].type = "BillingStatusUpdated" ->
                       IF ReadsOf(e) # {} THEN "applied" ELSE "rejected"
                [] OTHER -> "ignored"

\* The rows its handler locks: the parcel of a link, the accounts of a reading.
RowsOf(e) == IF Events[e].type = "AccountLinked"
               THEN {<<"parcel", p>> : p \in {Events[e].parcel} \intersect Parcels}
               ELSE {<<"account", a>> : a \in ReadsOf(e)}
Rows == {<<"parcel", p>> : p \in Parcels} \union {<<"account", a>> : a \in Accounts}

-----------------------------------------------------------------------------
(* What a reconciliation looks for *)

Live == Parcels \ Retired

\* Given the links L and the readings B, each problem with the number of its check:
\* a building on a parcel that has no account, an open account of no parcel, an
\* account of a retired parcel, a stand number of two parcels.
StructureNoAccount(L) == {<<1, p>> : p \in {q \in Live \intersect Built : \A l \in L : l[1] # q}}
AccountNoParcel(L, B) == {<<2, a>> : a \in {c \in Accounts : /\ B[c].at > 0
                                                           /\ B[c].band # "closed"
                                                           /\ \A l \in L : l[2] # c}}
AccountOnRetiredParcel(L) == {<<3, l>> : l \in {k \in L : k[1] \in Retired}}
DuplicateStandNo == {<<4, StandNo[p]>> : p \in {q \in Live :
                       \E r \in Live \ {q} : StandNo[r] = StandNo[q]}}

Check(n, L, B) == CASE n = 1 -> StructureNoAccount(L)
                    [] n = 2 -> AccountNoParcel(L, B)
                    [] n = 3 -> AccountOnRetiredParcel(L)
                    [] n = 4 -> DuplicateStandNo

Problems(L, B) == UNION {Check(n, L, B) : n \in 1..4}
Keys == {<<1, p>> : p \in Parcels} \union {<<2, a>> : a \in Accounts}
          \union {<<3, l>> : l \in Parcels \X Accounts}
          \union {<<4, StandNo[p]>> : p \in Parcels}

-----------------------------------------------------------------------------
\* "handle": the row of inbound_event inserted, the rows of todo still to lock;
\* writes: the accounts whose reading is to be replaced.
Handling(e, todo, held, writes) ==
    [step |-> "handle", event |-> e, todo |-> todo, held |-> held, writes |-> writes]
Waiting == [step |-> "idle", event |-> NoEvent, todo |-> {}, held |-> {}, writes |-> {}]

\* next: the check to come; todo: found by the last one and still to upsert, or
\* chosen by the resolving UPDATE and still to lock; seen, cleared: written.
RunAt(step, started, next, todo, seen, cleared) ==
    [step |-> step, started |-> started, next |-> next,
     todo |-> todo, seen |-> seen, cleared |-> cleared]
NoRun == RunAt("idle", 0, 1, {}, {}, {})

TypeOK ==
    /\ log \in [Ids -> Outcomes \union {"none"}]
    /\ links \subseteq Parcels \X Accounts
    /\ band \in [Accounts -> Readings]
    /\ req \in [Requests -> [step : {"idle", "handle"}, event : Ids \union {NoEvent},
                             todo : SUBSET Rows, held : SUBSET Rows, writes : SUBSET Accounts]]
    /\ item \in [Keys -> Nat]
    /\ run \in [Runs -> [step : {"idle", "check", "clear"}, started : Nat, next : 1..5,
                         todo : SUBSET Keys, seen : SUBSET Keys, cleared : SUBSET Keys]]
    /\ clock \in Nat
    /\ moved \subseteq Keys

Init ==
    /\ log = [e \in Ids |-> "none"]
    /\ links = LinkedAlready
    /\ band = [a \in Accounts |-> NoReading]
    /\ req = [r \in Requests |-> Waiting]
    /\ item = [k \in Keys |-> 0]
    /\ run = [r \in Runs |-> NoRun]
    /\ clock = 0
    /\ moved = {}

Goto(r, to) == req' = [req EXCEPT ![r] = to]
RunTo(r, to) == run' = [run EXCEPT ![r] = to]

-----------------------------------------------------------------------------
(* Deliveries *)

SameKey(d, e) == Events[d].key = Events[e].key
Logged(e) == \E d \in Ids : log[d] # "none" /\ SameKey(d, e)

\* A unique index makes an INSERT wait for the transaction that holds its key.
KeyFree(r, e) == \A q \in Requests \ {r} : req[q].step = "handle" => ~SameKey(req[q].event, e)

\* INSERT INTO inbound_event ON CONFLICT DO NOTHING.  When a row with its id or key
\* is there, ROLLBACK and a 200 all the same: nothing changes.
Receive(r, e) ==
    /\ req[r].step = "idle"
    /\ KeyFree(r, e)
    /\ ~Logged(e)
    /\ Goto(r, Handling(e, RowsOf(e), {}, {}))
    /\ UNCHANGED <<log, links, band, recon, moved>>

\* Rows stay locked to the end of the transaction.  Mutant: no locks.
NotHeld(r, x) == TRUE
FreeOf(r, x) == \A q \in Requests \ {r} : x \notin req[q].held

\* WHERE billing_status.as_at <= EXCLUDED.as_at.
Overtakes(e, a) == band[a].at <= Events[e].reads[a].at

\* The SELECT FOR UPDATE of a parcel, or the upsert of one account, in the order
\* of the payload.
HandleRow(r, x) ==
    LET e == req[r].event IN
    /\ req[r].step = "handle"
    /\ x \in req[r].todo
    /\ FreeOf(r, x)
    /\ Goto(r, Handling(e, req[r].todo \ {x}, req[r].held \union {x},
                        req[r].writes \union {a \in ReadsOf(e) : x = <<"account", a>>
                                                                 /\ Overtakes(e, a)}))
    /\ UNCHANGED <<log, links, band, recon, moved>>

\* Mutant: an outcome the CHECK of the table does not know.
Word(e) == IF Outcome(e) = "rejected" THEN "refused" ELSE Outcome(e)
OutcomeOf(e) == Outcome(e)

CommitEvent(r) ==
    LET e == req[r].event IN
    /\ req[r].step = "handle"
    /\ req[r].todo = {}
    /\ log' = [log EXCEPT ![e] = OutcomeOf(e)]
    /\ links' = links \union MakesLink(e)
    /\ band' = [a \in Accounts |-> IF a \in req[r].writes THEN Events[e].reads[a] ELSE band[a]]
    /\ Goto(r, Waiting)
    /\ moved' = moved \union (Problems(links, band) \ Problems(links', band'))
                      \union (Problems(links', band') \ Problems(links, band))
    /\ UNCHANGED recon

\* An error, a deadlock, the server dying: ROLLBACK.
FailDelivery(r) ==
    /\ req[r].step # "idle"
    /\ Goto(r, Waiting)
    /\ UNCHANGED <<log, links, band, recon, moved>>

-----------------------------------------------------------------------------
(* Reconciliation *)

Active(r) == run[r].step # "idle"
HeldBy(r) == run[r].seen \union run[r].cleared
FreeItem(r, k) == \A q \in Runs \ {r} : k \notin HeldBy(q)

\* BEGIN; SELECT now() AS started.
BeginRun(r) ==
    /\ run[r].step = "idle"
    /\ clock < MaxRuns
    /\ clock' = clock + 1
    /\ RunTo(r, RunAt("check", clock', 1, {}, {}, {}))
    /\ moved' = IF \E q \in Runs : Active(q) THEN moved ELSE {}
    /\ UNCHANGED <<erp, item>>

\* A check's SELECT ...
RunCheck(r) ==
    LET n == run[r].next IN
    /\ run[r].step = "check"
    /\ run[r].todo = {}
    /\ n <= 4
    /\ RunTo(r, [run[r] EXCEPT !.next = n + 1, !.todo = Check(n, links, band)])
    /\ UNCHANGED <<erp, item, clock, moved>>

\* ... and its upserts: each waits for the transaction that holds the open item, or
\* is inserting it (uq_recon_open).
Upsert(r, k) ==
    /\ run[r].step = "check"
    /\ k \in run[r].todo
    /\ FreeItem(r, k)
    /\ RunTo(r, [run[r] EXCEPT !.todo = @ \ {k}, !.seen = @ \union {k}])
    /\ UNCHANGED <<erp, item, clock, moved>>

\* status = 'open' AND last_seen_at < started, in the eyes of the run.
LastSeen(r, k) == IF k \in run[r].seen THEN run[r].started ELSE item[k]
\* Mutant: at or before started.
NotAfter(r, k) == LastSeen(r, k) \in 1..run[r].started
Stale(r, k) == LastSeen(r, k) \in 1..(run[r].started - 1)

\* The UPDATE finds the rows to resolve ...
FindStale(r) ==
    /\ run[r].step = "check"
    /\ run[r].todo = {}
    /\ run[r].next = 5
    /\ RunTo(r, [run[r] EXCEPT !.step = "clear", !.todo = {k \in Keys : Stale(r, k)}])
    /\ UNCHANGED <<erp, item, clock, moved>>

\* ... locks each, and tests it again as it then is.
ClearItem(r, k) ==
    /\ run[r].step = "clear"
    /\ k \in run[r].todo
    /\ FreeItem(r, k)
    /\ RunTo(r, [run[r] EXCEPT !.todo = @ \ {k},
                   !.cleared = IF Stale(r, k) THEN @ \union {k} ELSE @])
    /\ UNCHANGED <<erp, item, clock, moved>>

CommitRun(r) ==
    /\ run[r].step = "clear"
    /\ run[r].todo = {}
    /\ item' = [k \in Keys |-> IF k \in run[r].cleared THEN 0
                          ELSE IF k \in run[r].seen THEN run[r].started
                          ELSE item[k]]
    /\ RunTo(r, NoRun)
    /\ UNCHANGED <<erp, clock, moved>>

FailRun(r) ==
    /\ Active(r)
    /\ RunTo(r, NoRun)
    /\ UNCHANGED <<erp, item, clock, moved>>

\* POST /integration/reconciliation/:id/resolve.
Resolve(k) ==
    /\ item[k] > 0
    /\ \A q \in Runs : k \notin HeldBy(q)
    /\ item' = [item EXCEPT ![k] = 0]
    /\ UNCHANGED <<erp, run, clock, moved>>

-----------------------------------------------------------------------------
Deliver(r) ==
    \/ \E e \in Ids : Receive(r, e)
    \/ \E x \in req[r].todo : HandleRow(r, x)
    \/ CommitEvent(r)
    \/ FailDelivery(r)

Reconcile(r) ==
    \/ BeginRun(r)
    \/ RunCheck(r)
    \/ \E k \in run[r].todo : Upsert(r, k) \/ ClearItem(r, k)
    \/ FindStale(r)
    \/ CommitRun(r)
    \/ FailRun(r)

Next ==
    \/ \E r \in Requests : Deliver(r)
    \/ \E r \in Runs : Reconcile(r)
    \/ \E k \in Keys : Resolve(k)

Spec == Init /\ [][Next]_vars

-----------------------------------------------------------------------------
(* Properties *)

\* inbound.js:3 "Exactly-once by construction": however deliveries of one event, of
\* events under one key and of readings of one account meet, fail or are repeated,
\* the GMS keeps the promise of ErpBook.
Book == INSTANCE ErpBook WITH
          Key <- [e \in Ids |-> Events[e].key],
          Makes <- [e \in Ids |-> MakesLink(e)],
          Reads <- [e \in Ids |-> [a \in ReadsOf(e) |-> Events[e].reads[a]]],
          taken <- {e \in Ids : log[e] # "none"}
ImplementsBook == Book!AbsSpec

\* reconciliation.js:4 "A run upserts open items ... and closes open items that are
\* no longer found": when a run commits, the open items are the problems there are,
\* as far as they have neither appeared nor gone while it or a run it overlaps was
\* under way.
SettledIsExact ==
    [][\A r \in Runs : CommitRun(r) =>
         \A k \in Keys \ moved : item'[k] > 0 <=> k \in Problems(links, band)]_vars
=============================================================================
