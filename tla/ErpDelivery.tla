----------------------------- MODULE ErpDelivery -----------------------------
(***************************************************************************)
(* What the GMS outbox promises to the ERP and to the integration console, *)
(* with no workers, locks, retries or network in it: an event is published *)
(* with the register change it announces; the console calls it delivered   *)
(* only when the ERP holds it; delivered and cancelled are final.          *)
(*                                                                         *)
(* The promise is at-least-once and no more: the ERP may learn of an event *)
(* at any time after it was published, even after it was cancelled.        *)
(***************************************************************************)
CONSTANT Keys          \* idempotency keys: one per register change announced

VARIABLES published,   \* the changes the register has committed
          ledger,      \* what the console says of each event
          known        \* the events the ERP holds

absVars == <<published, ledger, known>>

Ledger == {"none", "open", "stuck", "delivered", "cancelled"}

AbsTypeOK ==
    /\ published \subseteq Keys
    /\ ledger \in [Keys -> Ledger]
    /\ known \subseteq Keys

AbsInit ==
    /\ published = {}
    /\ ledger = [k \in Keys |-> "none"]
    /\ known = {}

Publish(K) ==
    /\ published' = published \union K
    /\ ledger' = [k \in Keys |-> IF k \in K /\ ledger[k] = "none"
                                   THEN "open" ELSE ledger[k]]
    /\ UNCHANGED known

ErpLearns(k) ==
    /\ ledger[k] # "none"
    /\ known' = known \union {k}
    /\ UNCHANGED <<published, ledger>>

Move(k, from, to) ==
    /\ ledger[k] \in from
    /\ ledger' = [ledger EXCEPT ![k] = to]
    /\ UNCHANGED <<published, known>>

Confirm(k) == k \in known /\ Move(k, {"open"}, "delivered")
GiveUp(k)  == Move(k, {"open"}, "stuck")
Reopen(k)  == Move(k, {"stuck"}, "open")
Withdraw(k) == Move(k, {"open", "stuck"}, "cancelled")

AbsNext ==
    \/ \E K \in SUBSET Keys : Publish(K)
    \/ \E k \in Keys : \/ ErpLearns(k) \/ Confirm(k)
                       \/ GiveUp(k) \/ Reopen(k) \/ Withdraw(k)

AbsSpec == AbsInit /\ [][AbsNext]_absVars
=============================================================================
