------------------------------ MODULE GmsOutbox ------------------------------
(***************************************************************************)
(* The transactional outbox between the land register and the ERP          *)
(* (src/src/services/gms/outbox.js, erpAdapter.js, and the worker, retry   *)
(* and cancel handlers of src/src/routes/gms-integration.js).              *)
(*                                                                         *)
(* Importers change the register and enqueue the event that announces the  *)
(* change in one database transaction.  One ticking worker per server      *)
(* process, and an operator's "retry now", deliver an event by locking its *)
(* row (FOR UPDATE SKIP LOCKED) and holding the lock across the HTTP call. *)
(* The network loses and delays calls, the ERP may process a call whose    *)
(* caller has given up, and a server may die at any point.                 *)
(*                                                                         *)
(* Not modelled: the order of a batch (ORDER BY occurred_at LIMIT 50): a   *)
(* worker takes the rows of its snapshot in any order, which allows every  *)
(* order the code does.                                                    *)
(***************************************************************************)
EXTENDS Naturals

CONSTANTS
    Keys,          \* idempotency keys, one per register change
    Importers,     \* concurrent import requests
    Tickers,       \* server processes running the 30-second worker
    Operators,     \* concurrent "retry now" requests
    Replies,       \* what adapter.deliver() may resolve to
    MaxAttempts,   \* MAX_ATTEMPTS, 5 in the code
    MaxRetries,    \* bound: operator retries in a behaviour
    MaxAborts,     \* bound: server deaths and database errors in a behaviour
    Nobody         \* no worker, no event

ASSUME AttemptsAssumption == MaxAttempts \in Nat \ {0}
ASSUME RepliesAssumption  == Replies \subseteq {"acknowledged", "sent"}
ASSUME NobodyAssumption   == Nobody \notin Keys \union Tickers \union Operators

Workers == Tickers \union Operators

VARIABLES
    changes,       \* register changes that have committed
    txn,           \* importer -> its open transaction
    status,        \* outbox_event.status, "absent" when there is no row
    attempts,      \* outbox_event.attempts
    due,           \* outbox_event.next_attempt_at <= now()
    holder,        \* who holds the row lock of an event
    worker,        \* worker -> where it is
    wire,          \* calls under way to the ERP: <<worker, key>>
    received,      \* keys the ERP has processed
    retries,       \* operator retries so far
    aborts         \* server deaths and database errors so far

register == <<changes, txn>>
rows     == <<status, attempts, due>>
vars     == <<changes, txn, status, attempts, due, holder, worker, wire,
              received, retries, aborts>>

Statuses == {"absent", "pending", "sent", "acknowledged", "failed", "cancelled"}

NoTxn == [open |-> FALSE, wrote |-> {}, queued |-> {}]

\* A worker between two awaits.  "calling": inside adapter.deliver();
\* "answered": the ERP's 200 is back and the row is not yet updated.
Steps == {"idle", "running", "calling", "answered"}
At(step, B, k) == [pc |-> step, batch |-> B, event |-> k]
Idle == At("idle", {}, Nobody)

\* The loop of deliverDue: the next row of the snapshot, or the end of the tick.
Rest(B) == IF B = {} THEN Idle ELSE At("running", B, Nobody)

TypeOK ==
    /\ changes \subseteq Keys
    /\ txn \in [Importers -> [open : BOOLEAN, wrote : SUBSET Keys, queued : SUBSET Keys]]
    /\ status \in [Keys -> Statuses]
    /\ attempts \in [Keys -> Nat]
    /\ due \in [Keys -> BOOLEAN]
    /\ holder \in [Keys -> Workers \union {Nobody}]
    /\ worker \in [Workers -> [pc : Steps, batch : SUBSET Keys, event : Keys \union {Nobody}]]
    /\ wire \subseteq Workers \X Keys
    /\ received \subseteq Keys
    /\ retries \in Nat
    /\ aborts \in Nat

Init ==
    /\ changes = {}
    /\ txn = [p \in Importers |-> NoTxn]
    /\ status = [k \in Keys |-> "absent"]
    /\ attempts = [k \in Keys |-> 0]
    /\ due = [k \in Keys |-> FALSE]
    /\ holder = [k \in Keys |-> Nobody]
    /\ worker = [w \in Workers |-> Idle]
    /\ wire = {}
    /\ received = {}
    /\ retries = 0
    /\ aborts = 0

-----------------------------------------------------------------------------
(* An import: BEGIN, write the parcels, enqueue one event for each, COMMIT. *)

\* The INSERTs and UPDATEs of the parcels wait for another open transaction
\* that has written the same ones.
BeginImport(p, C) ==
    /\ ~txn[p].open
    /\ C # {}
    /\ \A q \in Importers \ {p} : C \intersect txn[q].wrote = {}
    /\ txn' = [txn EXCEPT ![p] = [open |-> TRUE, wrote |-> C, queued |-> {}]]
    /\ UNCHANGED <<changes, rows, holder, worker, wire, received, retries, aborts>>

\* Mutant: enqueue() on the pool, outside the import's transaction.
EnqueueOnPool(p, k) ==
    /\ txn[p].open
    /\ k \in txn[p].wrote \ txn[p].queued
    /\ txn' = [txn EXCEPT ![p].queued = @ \union {k}]
    /\ status' = [status EXCEPT ![k] = IF @ = "absent" THEN "pending" ELSE @]
    /\ UNCHANGED <<changes, attempts, due, holder, worker, wire, received, retries, aborts>>

\* enqueue(client, ...): in the caller's transaction, seen by nobody until it
\* commits.
Enqueue(p, k) ==
    /\ txn[p].open
    /\ k \in txn[p].wrote \ txn[p].queued
    /\ txn' = [txn EXCEPT ![p].queued = @ \union {k}]
    /\ UNCHANGED <<changes, rows, holder, worker, wire, received, retries, aborts>>

\* COMMIT makes the parcels and the new rows visible together.  ON CONFLICT
\* (idempotency_key) DO NOTHING: a row that is already there stays as it is.
CommitImport(p) ==
    /\ txn[p].open
    /\ txn[p].queued = txn[p].wrote
    /\ LET new == {k \in txn[p].queued : status[k] = "absent"} IN
        /\ status' = [k \in Keys |-> IF k \in new THEN "pending" ELSE status[k]]
        /\ due' = [k \in Keys |-> k \in new \/ due[k]]
    /\ changes' = changes \union txn[p].wrote
    /\ txn' = [txn EXCEPT ![p] = NoTxn]
    /\ UNCHANGED <<attempts, holder, worker, wire, received, retries, aborts>>

\* A failed statement, or the server dying, before COMMIT.
RollbackImport(p) ==
    /\ txn[p].open
    /\ txn' = [txn EXCEPT ![p] = NoTxn]
    /\ UNCHANGED <<changes, rows, holder, worker, wire, received, retries, aborts>>

-----------------------------------------------------------------------------
(* Delivery. *)

\* tick() -> deliverDue(): the snapshot of the rows that are due.  A process
\* that is still busy with an earlier tick returns at once.
Tick(w) ==
    LET snapshot == {k \in Keys : status[k] = "pending" /\ due[k]} IN
    /\ w \in Tickers
    /\ worker[w].pc = "idle"
    /\ snapshot # {}
    /\ worker' = [worker EXCEPT ![w] = At("running", snapshot, Nobody)]
    /\ UNCHANGED <<register, rows, holder, wire, received, retries, aborts>>

\* SELECT ... status = 'pending' FOR UPDATE SKIP LOCKED finds the row.
\* Mutant: a plain SELECT, which sees a locked row too.
FreeOrLocked(k) == status[k] = "pending"
Claimable(k) == status[k] = "pending" /\ holder[k] = Nobody

\* The row lock is held until COMMIT or ROLLBACK.
\* Mutant: the claim committed before the call is made.
NoLock(w, k) == holder' = holder
Lock(w, k) == holder' = [holder EXCEPT ![k] = w]

\* deliverOne() has claimed the row and adapter.deliver() has posted it.
Claim(w, k) ==
    /\ worker[w].pc = "running"
    /\ k \in worker[w].batch
    /\ Claimable(k)
    /\ Lock(w, k)
    /\ worker' = [worker EXCEPT ![w] = At("calling", worker[w].batch \ {k}, k)]
    /\ wire' = wire \union {<<w, k>>}
    /\ UNCHANGED <<register, rows, received, retries, aborts>>

\* The row has left 'pending' since the snapshot, or somebody holds it.
Skip(w, k) ==
    /\ worker[w].pc = "running"
    /\ k \in worker[w].batch
    /\ ~Claimable(k)
    /\ worker' = [worker EXCEPT ![w] = Rest(worker[w].batch \ {k})]
    /\ UNCHANGED <<register, rows, holder, wire, received, retries, aborts>>

\* The ERP processes a call, whether or not its caller still waits for it, and
\* remembers it by its idempotency key.  (A call the same worker has abandoned
\* is not told apart from its new one for the same event.)
ErpProcesses(w, k) ==
    /\ <<w, k>> \in wire
    /\ wire' = wire \ {<<w, k>>}
    /\ received' = received \union {k}
    /\ worker' = IF worker[w].pc = "calling" /\ worker[w].event = k
                   THEN [worker EXCEPT ![w].pc = "answered"] ELSE worker
    /\ UNCHANGED <<register, rows, holder, retries, aborts>>

LosePost(w, k) ==
    /\ <<w, k>> \in wire
    /\ wire' = wire \ {<<w, k>>}
    /\ UNCHANGED <<register, rows, holder, worker, received, retries, aborts>>

Sending(w, k) == worker[w].pc \in {"calling", "answered"} /\ worker[w].event = k

Release(w, k, B) ==
    /\ holder' = [holder EXCEPT ![k] = Nobody]
    /\ worker' = [worker EXCEPT ![w] = Rest(B)]

\* attempts >= MAX_ATTEMPTS.  Mutant: one attempt too many.
ExhaustedLate(n) == n > MaxAttempts
Exhausted(n) == n >= MaxAttempts

\* Mutant: a failed attempt that is not counted.
ThrowsUncounted(w, k) ==
    /\ Sending(w, k)
    /\ due' = [due EXCEPT ![k] = FALSE]
    /\ Release(w, k, worker[w].batch)
    /\ UNCHANGED <<register, status, attempts, wire, received, retries, aborts>>

\* deliver() threw: a refusal, no route, or the 10 s timeout, which says
\* nothing of whether the ERP processed the call.
DeliveryThrows(w, k) ==
    /\ Sending(w, k)
    /\ attempts' = [attempts EXCEPT ![k] = @ + 1]
    /\ status' = [status EXCEPT ![k] =
                    IF Exhausted(attempts[k] + 1) THEN "failed" ELSE "pending"]
    /\ due' = [due EXCEPT ![k] = FALSE]
    /\ Release(w, k, worker[w].batch)
    /\ UNCHANGED <<register, wire, received, retries, aborts>>

\* adapter.deliver() resolves only after the ERP's 2xx.
Answered(w) == worker[w].pc = "answered"

\* The status the adapter resolves to: acknowledged, or sent when the transport
\* is asynchronous.  Mutant: a word the table's CHECK does not know.
ReplyVerbatim(reply) == "delivered"
ReplyStatus(reply) == reply

\* deliver() resolved: the reply is recorded and the transaction commits.
RecordReply(w, k, reply) ==
    /\ Sending(w, k)
    /\ Answered(w)
    /\ attempts' = [attempts EXCEPT ![k] = @ + 1]
    /\ status' = [status EXCEPT ![k] = ReplyStatus(reply)]
    /\ Release(w, k, worker[w].batch)
    /\ UNCHANGED <<register, due, wire, received, retries, aborts>>

\* The server dies, or the database refuses a statement: ROLLBACK frees the row
\* the worker held, as it was, and the rest of its batch is left for a later
\* tick.  A call that was posted may still reach the ERP.
Abort(w) ==
    /\ worker[w].pc # "idle"
    /\ aborts < MaxAborts
    /\ aborts' = aborts + 1
    /\ holder' = [k \in Keys |-> IF holder[k] = w THEN Nobody ELSE holder[k]]
    /\ worker' = [worker EXCEPT ![w] = Idle]
    /\ UNCHANGED <<register, rows, wire, received, retries>>

\* now() passes next_attempt_at.
BackoffElapses(k) ==
    /\ status[k] = "pending"
    /\ ~due[k]
    /\ due' = [due EXCEPT ![k] = TRUE]
    /\ UNCHANGED <<register, status, attempts, holder, worker, wire, received,
                   retries, aborts>>

-----------------------------------------------------------------------------
(* The console. Both UPDATEs wait for a row lock and look at the row again    *)
(* when they get it. *)

\* WHERE status IN ('failed','pending') AND no worker holds the row.
\* Mutants: the status left out of the WHERE, of one or the other.
Unlocked(k) == status[k] # "absent" /\ holder[k] = Nobody
Retryable(k) == status[k] \in {"failed", "pending"} /\ holder[k] = Nobody
Cancellable(k) == status[k] \in {"failed", "pending"} /\ holder[k] = Nobody

\* POST /integration/events/:id/retry, up to its call of deliverOne().
Retry(o, k) ==
    /\ o \in Operators
    /\ worker[o].pc = "idle"
    /\ Retryable(k)
    /\ retries < MaxRetries
    /\ retries' = retries + 1
    /\ status' = [status EXCEPT ![k] = "pending"]
    /\ due' = [due EXCEPT ![k] = TRUE]
    /\ worker' = [worker EXCEPT ![o] = At("running", {k}, Nobody)]
    /\ UNCHANGED <<register, attempts, holder, wire, received, aborts>>

\* POST /integration/events/:id/cancel
Cancel(k) ==
    /\ Cancellable(k)
    /\ status' = [status EXCEPT ![k] = "cancelled"]
    /\ UNCHANGED <<register, attempts, due, holder, worker, wire, received,
                   retries, aborts>>

-----------------------------------------------------------------------------
Import(p) ==
    \/ \E C \in SUBSET Keys : BeginImport(p, C)
    \/ \E k \in Keys : Enqueue(p, k)
    \/ CommitImport(p)
    \/ RollbackImport(p)

Deliver(w) ==
    \/ Tick(w)
    \/ Abort(w)
    \/ \E k \in Keys :
        \/ Claim(w, k)
        \/ Skip(w, k)
        \/ DeliveryThrows(w, k)
        \/ \E reply \in Replies : RecordReply(w, k, reply)
        \/ Retry(w, k)

Network(w) == \E k \in Keys : ErpProcesses(w, k) \/ LosePost(w, k)

Next ==
    \/ \E p \in Importers : Import(p)
    \/ \E w \in Workers : Deliver(w) \/ Network(w)
    \/ \E k \in Keys : BackoffElapses(k) \/ Cancel(k)

Spec == Init /\ [][Next]_vars

\* The timer fires every 30 s, a handler that has started runs on, a call ends
\* within its timeout, and clocks advance.  Nothing is assumed of operators,
\* importers or the ERP.
Fairness ==
    /\ \A w \in Workers :
        /\ WF_vars(Tick(w))
        /\ WF_vars(\E k \in Keys : Claim(w, k) \/ Skip(w, k))
        /\ WF_vars(\E k \in Keys : \/ DeliveryThrows(w, k)
                                   \/ \E reply \in Replies : RecordReply(w, k, reply))
    /\ \A k \in Keys : WF_vars(BackoffElapses(k))

FairSpec == Spec /\ Fairness

-----------------------------------------------------------------------------
(* Properties *)

Settled == {"acknowledged", "sent", "cancelled"}

\* "An event exists if and only if the change that caused it committed": the
\* outbox never announces a change that was rolled back, nor misses one that
\* was not.
TransactionalOutbox == \A k \in Keys : status[k] # "absent" <=> k \in changes

\* The console never reports as handed over what the ERP does not hold, whatever
\* was lost, timed out or crashed on the way.
HandedOverIsReceived ==
    \A k \in Keys : status[k] \in {"acknowledged", "sent"} => k \in received

\* "Two workers (or a worker and a manual retry) never send the same event
\* concurrently."
OneSenderPerEvent ==
    \A k \in Keys : \A v, w \in Workers : Sending(v, k) /\ Sending(w, k) => v = w

\* The outcome written at the end of a delivery is written on a row nobody has
\* settled or given up in the meantime: the UPDATE itself has no such guard.
SenderHoldsPendingRow ==
    \A w \in Workers, k \in Keys : Sending(w, k) => status[k] = "pending"

\* An event is given up only after MAX_ATTEMPTS attempts, and is past that
\* number and still waiting only because an operator asked.
AttemptBudget ==
    \A k \in Keys :
        /\ status[k] = "failed" => attempts[k] >= MaxAttempts
        /\ status[k] = "pending" /\ attempts[k] >= MaxAttempts => retries > 0

\* A handed-over or cancelled event is never sent again, retried, cancelled or
\* changed by a delivery that was under way.
SettledIsFinal ==
    [][\A k \in Keys : status[k] \in Settled =>
         /\ status'[k] = status[k]
         /\ attempts'[k] = attempts[k]
         /\ \A w \in Workers : Sending(w, k)' => Sending(w, k)]_vars

\* However servers die, calls time out and operators interfere (finitely often),
\* no event waits for ever: it is handed over, given up or cancelled.
EveryEventConcludes ==
    \A k \in Keys : status[k] = "pending" ~> status[k] # "pending"

\* The promise of ErpDelivery, with the status column read as its ledger.
LedgerOf(s) ==
    CASE s = "absent"    -> "none"
      [] s = "pending"   -> "open"
      [] s = "failed"    -> "stuck"
      [] s = "cancelled" -> "cancelled"
      [] OTHER           -> "delivered"

ledgerMap == [k \in Keys |-> LedgerOf(status[k])]

Promise == INSTANCE ErpDelivery
             WITH published <- changes, ledger <- ledgerMap, known <- received

\* Every behaviour of the outbox is one the abstract promise allows.
ImplementsPromise == Promise!AbsSpec
=============================================================================
