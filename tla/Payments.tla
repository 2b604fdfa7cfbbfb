------------------------------ MODULE Payments ------------------------------
(***************************************************************************)
(* Fees paid through a gateway or over the counter, and what they release: *)
(* src/src/routes/payments.js with src/src/services/paymentDriver.js.      *)
(*                                                                         *)
(* A handler reads the payment, may wait for the gateway, and writes the   *)
(* row later; only applyPaid() is a transaction, and only its UPDATE looks *)
(* at the status again.  The gateway calls back any number of times, when  *)
(* it likes, or never; a server may die between two statements.            *)
(*                                                                         *)
(* Not modelled: amounts and exchange rates, metadata, mail, who may see a *)
(* payment, and the status 'refunded', which no handler writes.            *)
(***************************************************************************)
EXTENDS Integers

CONSTANTS
    Payments,      \* rows of the table payments
    Counter,       \* those of the driver "manual", confirmed by a cashier
    Handlers,      \* requests that may be under way at one time
    Fees,          \* what is paid for: a booking or a permit each
    FeeOf,         \* payment -> what it is for
    MaxDeaths,     \* bound: servers that die in the middle of a request
    NoPayment

ASSUME CounterAssumption == Counter \subseteq Payments
ASSUME FeeAssumption == FeeOf \in [Payments -> Fees]
ASSUME NoPaymentAssumption == NoPayment \notin Payments

VARIABLES
    status,        \* payments.status, "absent" when there is no row
    receipt,       \* payments.issued_receipt_no, 0 for NULL
    ref,           \* payments whose provider_ref has been stored
    asked,         \* payments the gateway asks the payer for
    taken,         \* payments for which the gateway or the cashier has the money
    handler,       \* handler -> the request it is executing
    released,      \* fees whose booking has left pending_payment, or permit
    deaths         \* servers that have died

row == <<status, receipt, ref>>
gateway == <<asked, taken>>
vars == <<row, gateway, handler, released, deaths>>

Statuses == {"absent", "pending", "awaiting_provider", "paid", "failed", "cancelled"}

\* The next statement of a request.  "handoff": the gateway has answered;
\* "number": BEGIN of applyPaid; "settle": its UPDATE; "poll": the gateway has
\* been asked.
Steps == {"idle", "init", "handoff", "number", "settle", "poll", "cancel"}
Doing(step, p, had, n) == [step |-> step, pay |-> p, had |-> had, number |-> n]
Idle == Doing("idle", NoPayment, 0, 0)

TypeOK ==
    /\ status \in [Payments -> Statuses]
    /\ receipt \in [Payments -> Nat]
    /\ ref \subseteq Payments
    /\ asked \subseteq Payments
    /\ taken \subseteq Payments
    /\ handler \in [Handlers -> [step : Steps, pay : Payments \union {NoPayment},
                                 had : Nat, number : Nat]]
    /\ released \subseteq Fees
    /\ deaths \in Nat

Init ==
    /\ status = [p \in Payments |-> "absent"]
    /\ receipt = [p \in Payments |-> 0]
    /\ ref = {}
    /\ asked = {} /\ taken = {}
    /\ handler = [h \in Handlers |-> Idle]
    /\ released = {}
    /\ deaths = 0

Free(h) == handler[h].step = "idle"
Run(h, step, p, had, n) == handler' = [handler EXCEPT ![h] = Doing(step, p, had, n)]
Done(h) == handler' = [handler EXCEPT ![h] = Idle]

-----------------------------------------------------------------------------
(* POST /payments *)

Initiate(h, p) ==
    /\ Free(h)
    /\ status[p] = "absent"
    /\ status' = [status EXCEPT ![p] = "pending"]
    /\ Run(h, "init", p, 0, 0)
    /\ UNCHANGED <<receipt, ref, gateway, released, deaths>>

\* driver.initPayment() resolves: the gateway asks the payer for the money, on the
\* payer's telephone if need be.
GatewayAccepts(h) ==
    /\ handler[h].step = "init"
    /\ handler' = [handler EXCEPT ![h].step = "handoff"]
    /\ asked' = asked \union {handler[h].pay}
    /\ UNCHANGED <<row, taken, released, deaths>>

\* It throws: failed, by id alone; after a timeout the gateway may ask all the same.
\* Mutant: the error's code for the status.
MayAsk(p) == asked' \in {asked, asked \union {p}}

RefusedAs(h) ==
    /\ handler[h].step = "init"
    /\ status' = [status EXCEPT ![handler[h].pay] = "driver_init_failed"]
    /\ MayAsk(handler[h].pay)
    /\ Done(h)
    /\ UNCHANGED <<receipt, ref, taken, released, deaths>>

GatewayRefuses(h) ==
    /\ handler[h].step = "init"
    /\ status' = [status EXCEPT ![handler[h].pay] = "failed"]
    /\ MayAsk(handler[h].pay)
    /\ Done(h)
    /\ UNCHANGED <<receipt, ref, taken, released, deaths>>

\* awaiting_provider with the provider's reference, by id alone.  Mutant: the
\* reference not stored.
ForgetRef(p) == ref' = ref
StoreRef(p) == ref' = ref \union {p}

Handoff(h) ==
    /\ handler[h].step = "handoff"
    /\ status' = [status EXCEPT ![handler[h].pay] = "awaiting_provider"]
    /\ StoreRef(handler[h].pay)
    /\ Done(h)
    /\ UNCHANGED <<receipt, gateway, released, deaths>>

-----------------------------------------------------------------------------
(* The money. *)

\* The payer pays the gateway that asks for it.
PayerPays(p) ==
    /\ p \in asked \ (Counter \union taken)
    /\ taken' = taken \union {p}
    /\ UNCHANGED <<row, asked, handler, released, deaths>>

\* POST /payments/webhook/:driver for a paid payment, first or repeated.  It finds
\* the row by the stored reference and does not look at its status.
PaidCallback(p) == p \in ref /\ p \in taken \ Counter

Webhook(h, p) ==
    /\ Free(h)
    /\ PaidCallback(p)
    /\ Run(h, "number", p, receipt[p], 0)
    /\ UNCHANGED <<row, gateway, released, deaths>>

\* POST /payments/:id/confirm: the cashier has the money.
Confirm(h, p) ==
    /\ Free(h)
    /\ p \in Counter
    /\ status[p] \notin {"absent", "paid"}
    /\ taken' = taken \union {p}
    /\ Run(h, "number", p, receipt[p], 0)
    /\ UNCHANGED <<row, asked, released, deaths>>

\* POST /payments/:id/poll asks the gateway ...
Poll(h, p) ==
    /\ Free(h)
    /\ status[p] # "absent"
    /\ Run(h, "poll", p, 0, 0)
    /\ UNCHANGED <<row, gateway, released, deaths>>

\* ... and then names a variable, sys, that its scope does not have: the handler
\* throws a ReferenceError and answers 500, whatever the gateway said.
PollThrows(h) ==
    /\ handler[h].step = "poll"
    /\ Done(h)
    /\ UNCHANGED <<row, gateway, released, deaths>>

-----------------------------------------------------------------------------
(* applyPaid() *)

MaxReceipt == CHOOSE n \in {receipt[p] : p \in Payments} \union {0} :
                \A p \in Payments : receipt[p] <= n

\* nextReceiptNumber(): MAX + 1 over what has committed.
NextNumber == MaxReceipt + 1

\* The row read before BEGIN may have had a number already.
TakeNumber(h) ==
    /\ handler[h].step = "number"
    /\ LET n == IF handler[h].had # 0 THEN handler[h].had ELSE NextNumber IN
        Run(h, "settle", handler[h].pay, handler[h].had, n)
    /\ UNCHANGED <<row, gateway, released, deaths>>

\* COALESCE(issued_receipt_no, $2)
NumberKept(p, n) == IF receipt[p] # 0 THEN receipt[p] ELSE n

\* uq_payments_receipt_no.  Mutant: no such index.
NoIndex(p, n) == FALSE
Collides(p, n) == \E q \in Payments \ {p} : receipt[q] = n

\* WHERE status <> 'paid'.  Mutant: only a payment that still waits is settled.
StillWaiting(p) == status[p] \in {"pending", "awaiting_provider"}
Unpaid(p) == status[p] # "paid"

\* The booking leaves pending_payment for waitlisted, the permit for registered.
Releases(p) == released' = released \union {FeeOf[p]}

\* The transaction from its UPDATE to COMMIT: paid, numbered, and the booking or
\* permit released.
Settle(h) ==
    LET p == handler[h].pay
        n == NumberKept(p, handler[h].number) IN
    /\ handler[h].step = "settle"
    /\ Unpaid(p)
    /\ ~Collides(p, n)
    /\ status' = [status EXCEPT ![p] = "paid"]
    /\ receipt' = [receipt EXCEPT ![p] = n]
    /\ Releases(p)
    /\ Done(h)
    /\ UNCHANGED <<ref, gateway, deaths>>

\* "Already paid", or a number that another payment got first: ROLLBACK.
SettleRollsBack(h) ==
    LET p == handler[h].pay IN
    /\ handler[h].step = "settle"
    /\ ~Unpaid(p) \/ Collides(p, NumberKept(p, handler[h].number))
    /\ Done(h)
    /\ UNCHANGED <<row, gateway, released, deaths>>

-----------------------------------------------------------------------------
(* POST /payments/:id/cancel: the status is read, and later written by id. *)

CancelRead(h, p) ==
    /\ Free(h)
    /\ status[p] \in {"pending", "awaiting_provider"}
    /\ Run(h, "cancel", p, 0, 0)
    /\ UNCHANGED <<row, gateway, released, deaths>>

CancelWrite(h) ==
    /\ handler[h].step = "cancel"
    /\ status' = [status EXCEPT ![handler[h].pay] = "cancelled"]
    /\ Done(h)
    /\ UNCHANGED <<receipt, ref, gateway, released, deaths>>

\* The server dies between two statements, or the database refuses one.
Die(h) ==
    /\ ~Free(h)
    /\ deaths < MaxDeaths
    /\ deaths' = deaths + 1
    /\ Done(h)
    /\ UNCHANGED <<row, gateway, released>>

-----------------------------------------------------------------------------
Start(h, p) ==
    \/ Initiate(h, p)
    \/ Webhook(h, p)
    \/ Confirm(h, p)
    \/ Poll(h, p)
    \/ CancelRead(h, p)

Proceed(h) ==
    \/ GatewayAccepts(h)
    \/ GatewayRefuses(h)
    \/ Handoff(h)
    \/ PollThrows(h)
    \/ TakeNumber(h)
    \/ Settle(h)
    \/ SettleRollsBack(h)
    \/ CancelWrite(h)

Next ==
    \/ \E h \in Handlers : \/ \E p \in Payments : Start(h, p)
                          \/ Proceed(h)
                          \/ Die(h)
    \/ \E p \in Payments : PayerPays(p)

Spec == Init /\ [][Next]_vars

\* A request that has started runs on, and a gateway repeats its callback for a
\* payment it holds.
CallbackSpec ==
    /\ Spec
    /\ \A h \in Handlers : WF_vars(Proceed(h))
    /\ \A p \in Payments : SF_vars(\E h \in Handlers : Webhook(h, p))

\* Callbacks may all be lost, and the payer's page polls instead.
PollingSpec ==
    /\ Spec
    /\ \A h \in Handlers : WF_vars(Proceed(h))
    /\ \A p \in Payments : SF_vars(\E h \in Handlers : Poll(h, p))

-----------------------------------------------------------------------------
(* Properties *)

\* No receipt is issued, and nothing is released, without money: whatever is
\* cancelled, repeated or confirmed twice.
ReceiptMeansMoney ==
    \A p \in Payments : /\ receipt[p] # 0 => p \in taken
                        /\ status[p] = "paid" => receipt[p] # 0
ReleasedByMoney == \A f \in released : \E p \in taken : FeeOf[p] = f /\ receipt[p] # 0

\* Money the gateway has taken and whose callback will find no row, since the server
\* died or was told of an error before it stored the reference, is never shown as
\* awaited or paid: the payments to look through are the pending, the failed and the
\* cancelled.
LostMoneyShows ==
    \A p \in taken \ (Counter \union ref) : status[p] \in {"pending", "failed", "cancelled"}

\* Two payments never carry one receipt number, though both may have computed it.
ReceiptsDiffer ==
    \A p, q \in Payments : p # q /\ receipt[p] # 0 => receipt[p] # receipt[q]

\* A receipt once issued is never numbered again, not even when a payment is
\* cancelled after it was paid and then paid again.
ReceiptIsForever ==
    [][\A p \in Payments : receipt[p] # 0 => receipt'[p] = receipt[p]]_vars

\* Requests that compute MAX + 1 at one time, lose a number to each other or die with
\* one give receipts as one counter would, in order and without a gap, each with
\* what it releases: the promise of ReceiptBook.
Book == INSTANCE ReceiptBook WITH number <- receipt, last <- MaxReceipt
ImplementsReceiptBook == Book!AbsSpec

\* While the gateway repeats its callback, money it has taken is receipted in the
\* end: through cancellations, dead servers and numbers lost to another payment.
TakenIsReceipted ==
    \A p \in Payments \ Counter : p \in ref /\ p \in taken ~> receipt[p] # 0
=============================================================================
