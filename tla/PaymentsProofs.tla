--------------------------- MODULE PaymentsProofs ---------------------------
(***************************************************************************)
(* What holds of fees and receipts for any number of payments and          *)
(* requests, however many servers die.  The invariant ties a request that  *)
(* has come as far as applyPaid() to the money it was started for.         *)
(***************************************************************************)
EXTENDS Payments, WellFoundedInduction, TLAPS

\* A request under way is about a payment; in applyPaid(), about one whose money
\* is there; past BEGIN, with a number for its receipt.
RequestsAreSound ==
    \A h \in Handlers :
        /\ handler[h].step # "idle" => handler[h].pay \in Payments
        /\ handler[h].step \in {"number", "settle"} => handler[h].pay \in taken
        /\ handler[h].step = "settle" => handler[h].number # 0

\* A payment somebody is at work on, or asks for, has its row; one that is settled, or
\* about to be, is the cashier's or can be found by its reference.
RowsAreKnown ==
    /\ \A h \in Handlers :
         /\ handler[h].step # "idle" => status[handler[h].pay] # "absent"
         /\ handler[h].step \in {"number", "settle"} => handler[h].pay \in ref \union Counter
    /\ \A p \in asked \union taken : status[p] # "absent"
    /\ \A p \in Payments :
         status[p] \in {"awaiting_provider", "paid"} => p \in ref \union Counter

\* Only finitely many numbers have been given out: there is a highest.
Bounded == \E b \in Nat : \A p \in Payments : receipt[p] <= b

\* Every number up to the highest is somebody's, and a request carries none beyond the
\* next.
NoGap == \A n \in 1..MaxReceipt : \E p \in Payments : receipt[p] = n
NumbersInOrder ==
    \A h \in Handlers :
        /\ handler[h].step = "number" => handler[h].had <= MaxReceipt
        /\ handler[h].step = "settle" => handler[h].number <= MaxReceipt + 1

\* What is receipted is released.
ReceiptReleases == \A p \in Payments : receipt[p] # 0 => FeeOf[p] \in released

IInv ==
    /\ TypeOK
    /\ RequestsAreSound
    /\ RowsAreKnown
    /\ Bounded
    /\ NoGap
    /\ NumbersInOrder
    /\ ReceiptMeansMoney
    /\ ReleasedByMoney
    /\ ReceiptReleases
    /\ ReceiptsDiffer

USE FeeAssumption, NoPaymentAssumption, CounterAssumption

-----------------------------------------------------------------------------
\* A bounded set of numbers has a highest one.
LEMMA HasMaximum ==
  ASSUME NEW T \in SUBSET Nat, T # {}, NEW b \in Nat, \A t \in T : t <= b
  PROVE  \E m \in T : \A t \in T : t <= m
<1> DEFINE Below == {d \in Nat : b - d \in T}
<1>1. Below # {}
  <2>1. PICK t \in T : TRUE
    OBVIOUS
  <2>2. b - t \in Nat /\ b - (b - t) = t
    BY <2>1
  <2> QED BY <2>1, <2>2
<1>2. PICK d \in Below : \A k \in Below : <<k, d>> \notin OpToRel(<, Nat)
  BY <1>1, WFMin, NatLessThanWellFounded, Zenon
<1>3. \A k \in Below : ~(k < d)
  BY <1>2, Zenon DEF OpToRel
<1>4. ASSUME NEW t \in T PROVE t <= b - d
  <2>1. b - t \in Nat /\ b - (b - t) = t
    OBVIOUS
  <2>2. b - t \in Below
    BY <2>1
  <2> QED BY <1>3, <2>1, <2>2
<1> QED BY <1>2, <1>4

\* The highest of the numbers f gives, 0 when it gives none.
Top(f) == CHOOSE n \in {f[p] : p \in Payments} \union {0} : \A p \in Payments : f[p] <= n

LEMMA TopIsHighest ==
  ASSUME NEW f \in [Payments -> Nat], NEW b \in Nat, \A p \in Payments : f[p] <= b
  PROVE  /\ Top(f) \in Nat
         /\ \A p \in Payments : f[p] <= Top(f)
         /\ Top(f) = 0 \/ \E p \in Payments : f[p] = Top(f)
<1> DEFINE Given == {f[p] : p \in Payments} \union {0}
<1>1. Given \in SUBSET Nat /\ Given # {} /\ \A n \in Given : n <= b
  OBVIOUS
<1>2. \E m \in Given : \A n \in Given : n <= m
  <2> HIDE DEF Given
  <2> QED BY <1>1, HasMaximum
<1>3. \E m \in Given : \A p \in Payments : f[p] <= m
  BY <1>2
<1>4. Top(f) \in Given /\ \A p \in Payments : f[p] <= Top(f)
  BY <1>3 DEF Top
<1> QED BY <1>1, <1>4

\* It is the only such number.
LEMMA TopIs ==
  ASSUME NEW f \in [Payments -> Nat], NEW m \in Nat, \A p \in Payments : f[p] <= m,
         m = 0 \/ \E p \in Payments : f[p] = m
  PROVE  Top(f) = m
<1>1. /\ Top(f) \in Nat
      /\ \A p \in Payments : f[p] <= Top(f)
      /\ Top(f) = 0 \/ \E p \in Payments : f[p] = Top(f)
  BY TopIsHighest
<1>2. m <= Top(f) /\ Top(f) <= m
  BY <1>1
<1> QED BY <1>1, <1>2

LEMMA HighestReceipt ==
  ASSUME TypeOK, Bounded
  PROVE  /\ MaxReceipt \in Nat
         /\ \A p \in Payments : receipt[p] <= MaxReceipt
         /\ MaxReceipt = 0 \/ \E p \in Payments : receipt[p] = MaxReceipt
<1>1. receipt \in [Payments -> Nat] /\ MaxReceipt = Top(receipt)
  BY DEF TypeOK, MaxReceipt, Top
<1>2. PICK b \in Nat : \A p \in Payments : receipt[p] <= b
  BY DEF Bounded
<1> QED BY <1>1, <1>2, TopIsHighest

\* MAX + 1 is a number, and nobody's yet.
LEMMA NextNumberIsNew ==
  ASSUME TypeOK, Bounded
  PROVE  /\ NextNumber \in Nat \ {0}
         /\ \A p \in Payments : receipt[p] # NextNumber
  BY HighestReceipt DEF NextNumber, TypeOK

\* In the empty table the highest number is 0.
LEMMA InitHighest == Init => MaxReceipt = 0
<1> SUFFICES ASSUME Init PROVE MaxReceipt = 0
  OBVIOUS
<1>1. receipt \in [Payments -> Nat] /\ \A p \in Payments : receipt[p] <= 0
  BY DEF Init
<1>2. MaxReceipt = Top(receipt)
  BY DEF MaxReceipt, Top
<1> QED BY <1>1, <1>2, TopIs

\* The empty table satisfies the invariant.
LEMMA InitInv == Init => IInv
<1> SUFFICES ASSUME Init PROVE IInv
  OBVIOUS
<1>1. TypeOK
  BY DEF Init, TypeOK, Statuses, Steps, Idle, Doing
<1>2. RequestsAreSound /\ RowsAreKnown
  BY DEF Init, RequestsAreSound, RowsAreKnown, Idle, Doing
<1>3. Bounded
  BY 0 \in Nat DEF Init, Bounded
<1>4. ReceiptMeansMoney /\ ReleasedByMoney /\ ReceiptReleases /\ ReceiptsDiffer
  BY DEF Init, ReceiptMeansMoney, ReleasedByMoney, ReceiptReleases, ReceiptsDiffer
<1>5. NoGap /\ NumbersInOrder
  BY InitHighest DEF Init, NoGap, NumbersInOrder, Idle, Doing
<1> QED BY <1>1, <1>2, <1>3, <1>4, <1>5 DEF IInv

\* A number kept is a number, given or already there.
LEMMA NumberKeptTyped ==
  ASSUME TypeOK, NEW p \in Payments, NEW n \in Nat
  PROVE  /\ NumberKept(p, n) \in Nat
         /\ n # 0 => NumberKept(p, n) # 0
         /\ receipt[p] # 0 => NumberKept(p, n) = receipt[p]
  BY DEF NumberKept, TypeOK

-----------------------------------------------------------------------------
\* Only applyPaid() numbers a receipt or releases a fee.  Every other statement
\* keeps the numbers, and marks nothing paid.
Unnumbered ==
    /\ UNCHANGED <<receipt, released>>
    /\ taken \subseteq taken'
    /\ \A p \in Payments : status'[p] = "paid" => status[p] = "paid"
    /\ \A h \in Handlers :
         \/ handler'[h] = handler[h]
         \/ handler'[h].step \notin {"number", "settle"}
         \/ handler'[h].step = "number" /\ \E p \in Payments : handler'[h].had = receipt[p]
         \/ /\ handler[h].step = "number" /\ handler'[h].step = "settle"
            /\ handler'[h].number \in {handler[h].had, NextNumber}

\* What such a statement leaves true.
LEMMA UnnumberedKeeps ==
  ASSUME IInv, TypeOK', RequestsAreSound', RowsAreKnown', Unnumbered
  PROVE  IInv'
<1> USE DEF IInv, Unnumbered
<1>1. Bounded' /\ ReceiptsDiffer'
  BY DEF Bounded, ReceiptsDiffer
<1>2. ReceiptMeansMoney'
  BY DEF ReceiptMeansMoney
<1>3. ReleasedByMoney' /\ ReceiptReleases'
  BY DEF ReleasedByMoney, ReceiptReleases
<1>4. MaxReceipt' = MaxReceipt
  BY DEF MaxReceipt
<1>5. /\ MaxReceipt \in Nat
      /\ \A p \in Payments : receipt[p] \in Nat /\ receipt[p] <= MaxReceipt
      /\ NextNumber = MaxReceipt + 1
  BY HighestReceipt DEF NextNumber, TypeOK
<1> HIDE DEF MaxReceipt, NextNumber
<1>6. NoGap'
  BY <1>4 DEF NoGap
<1>7. NumbersInOrder'
  <2> SUFFICES ASSUME NEW h \in Handlers
               PROVE  /\ handler'[h].step = "number" => handler'[h].had <= MaxReceipt
                      /\ handler'[h].step = "settle" => handler'[h].number <= MaxReceipt + 1
    BY <1>4 DEF NumbersInOrder
  <2>1. /\ handler[h].had \in Nat /\ handler[h].number \in Nat
        /\ handler[h].step = "number" => handler[h].had <= MaxReceipt
        /\ handler[h].step = "settle" => handler[h].number <= MaxReceipt + 1
    BY DEF NumbersInOrder, TypeOK
  <2> QED BY <1>5, <2>1
<1> QED BY <1>1, <1>2, <1>3, <1>6, <1>7

\* A request starts with a payment, and with its money if it is to settle.
LEMMA StartInv ==
  ASSUME IInv, NEW h \in Handlers, NEW p \in Payments, Start(h, p)
  PROVE  IInv'
<1> USE DEF IInv, TypeOK, Statuses, Steps, Run, Doing, row, gateway, Unnumbered, RequestsAreSound, RowsAreKnown
<1>1. CASE Initiate(h, p)
  <2>1. TypeOK' /\ RequestsAreSound' /\ RowsAreKnown' /\ Unnumbered
    BY <1>1 DEF Initiate
  <2> QED BY <2>1, UnnumberedKeeps
<1>2. CASE Webhook(h, p)
  <2>1. TypeOK' /\ RequestsAreSound' /\ RowsAreKnown' /\ Unnumbered
    BY <1>2 DEF Webhook, PaidCallback
  <2> QED BY <2>1, UnnumberedKeeps
<1>3. CASE Confirm(h, p)
  <2>1. TypeOK' /\ RequestsAreSound' /\ RowsAreKnown' /\ Unnumbered
    BY <1>3 DEF Confirm
  <2> QED BY <2>1, UnnumberedKeeps
<1>4. CASE Poll(h, p)
  <2>1. TypeOK' /\ RequestsAreSound' /\ RowsAreKnown' /\ Unnumbered
    BY <1>4 DEF Poll
  <2> QED BY <2>1, UnnumberedKeeps
<1>5. CASE CancelRead(h, p)
  <2>1. TypeOK' /\ RequestsAreSound' /\ RowsAreKnown' /\ Unnumbered
    BY <1>5 DEF CancelRead
  <2> QED BY <2>1, UnnumberedKeeps
<1> QED BY <1>1, <1>2, <1>3, <1>4, <1>5 DEF Start

\* A payment that has its number keeps it; another gets the one after the highest,
\* since no lower one is free.
LEMMA SettleIssues ==
  ASSUME IInv, NEW h \in Handlers, Settle(h)
  PROVE  LET p == handler[h].pay IN
         /\ p \in Payments /\ p \in taken
         /\ MaxReceipt \in Nat
         /\ \/ receipt[p] # 0 /\ UNCHANGED <<receipt, released>> /\ MaxReceipt' = MaxReceipt
            \/ /\ receipt[p] = 0
               /\ receipt' = [receipt EXCEPT ![p] = MaxReceipt + 1]
               /\ released' = released \union {FeeOf[p]}
               /\ MaxReceipt' = MaxReceipt + 1
<1> DEFINE p == handler[h].pay
           n == NumberKept(p, handler[h].number)
<1> USE DEF IInv
<1>1. p \in Payments /\ p \in taken /\ handler[h].number \in Nat \ {0}
  BY DEF Settle, RequestsAreSound, TypeOK
<1>2. /\ MaxReceipt \in Nat
      /\ \A q \in Payments : receipt[q] <= MaxReceipt
      /\ handler[h].number <= MaxReceipt + 1
  BY HighestReceipt DEF Settle, NumbersInOrder
<1>3. /\ receipt' = [receipt EXCEPT ![p] = n]
      /\ released' = released \union {FeeOf[p]}
      /\ \A q \in Payments \ {p} : receipt[q] # n
      /\ receipt \in [Payments -> Nat]
  BY DEF Settle, Releases, Collides, TypeOK
<1>4. MaxReceipt' = Top(receipt')
  BY DEF MaxReceipt, Top
<1>5. CASE receipt[p] # 0
  <2>1. n = receipt[p] /\ FeeOf[p] \in released
    BY <1>1, <1>5, NumberKeptTyped DEF ReceiptReleases
  <2>2. UNCHANGED <<receipt, released>>
    BY <1>1, <1>3, <2>1
  <2>3. MaxReceipt' = MaxReceipt
    BY <2>2 DEF MaxReceipt
  <2> QED BY <1>1, <1>2, <1>5, <2>2, <2>3
<1>6. CASE receipt[p] = 0
  <2>1. n = handler[h].number
    BY <1>6 DEF NumberKept
  <2>2. n = MaxReceipt + 1
    <3>1. n \notin 1..MaxReceipt
      <4> SUFFICES ASSUME n \in 1..MaxReceipt PROVE FALSE
        OBVIOUS
      <4>1. PICK q \in Payments : receipt[q] = n
        BY DEF NoGap
      <4> QED BY <1>1, <1>3, <1>6, <2>1, <4>1
    <3> QED BY <1>1, <1>2, <2>1, <3>1
  <2>3. receipt' = [receipt EXCEPT ![p] = MaxReceipt + 1]
    BY <1>3, <2>2
  <2>4. /\ receipt' \in [Payments -> Nat]
        /\ \A q \in Payments : receipt'[q] <= MaxReceipt + 1
        /\ receipt'[p] = MaxReceipt + 1
    BY <1>1, <1>2, <1>3, <2>3
  <2>5. Top(receipt') = MaxReceipt + 1
    BY <1>1, <1>2, <2>4, TopIs
  <2> QED BY <1>1, <1>2, <1>3, <1>4, <1>6, <2>3, <2>5
<1> QED BY <1>1, <1>3, <1>5, <1>6

\* So no gap comes of it, and no request carries a number beyond the next.
LEMMA SettleNumbers ==
  ASSUME IInv, NEW h \in Handlers, Settle(h)
  PROVE  NoGap' /\ NumbersInOrder'
<1> DEFINE p == handler[h].pay
<1> USE DEF IInv
<1>1. /\ p \in Payments
      /\ MaxReceipt \in Nat /\ receipt \in [Payments -> Nat]
      /\ \/ receipt' = receipt /\ MaxReceipt' = MaxReceipt
         \/ /\ receipt[p] = 0
            /\ receipt' = [receipt EXCEPT ![p] = MaxReceipt + 1]
            /\ MaxReceipt' = MaxReceipt + 1
  BY SettleIssues DEF TypeOK
<1>2. handler' = [handler EXCEPT ![h] = Idle]
  BY DEF Settle, Done
<1> HIDE DEF p
<1>3. NoGap'
  <2> SUFFICES ASSUME NEW n \in 1..MaxReceipt' PROVE \E q \in Payments : receipt'[q] = n
    BY DEF NoGap
  <2>1. CASE n \in 1..MaxReceipt
    <3>1. PICK q \in Payments : receipt[q] = n
      BY <2>1 DEF NoGap
    <3>2. receipt'[q] = n
      BY <1>1, <2>1, <3>1
    <3> QED BY <3>2
  <2>2. CASE n \notin 1..MaxReceipt
    <3>1. n = MaxReceipt + 1 /\ receipt'[p] = n
      BY <1>1, <2>2
    <3> QED BY <1>1, <3>1
  <2> QED BY <2>1, <2>2
<1>4. NumbersInOrder'
  <2> SUFFICES ASSUME NEW g \in Handlers
               PROVE  /\ handler'[g].step = "number" => handler'[g].had <= MaxReceipt'
                      /\ handler'[g].step = "settle" => handler'[g].number <= MaxReceipt' + 1
    BY DEF NumbersInOrder
  <2>1. /\ handler[g].had \in Nat /\ handler[g].number \in Nat
        /\ handler[g].step = "number" => handler[g].had <= MaxReceipt
        /\ handler[g].step = "settle" => handler[g].number <= MaxReceipt + 1
    BY DEF NumbersInOrder, TypeOK
  <2>2. handler'[g] = handler[g] \/ handler'[g].step = "idle"
    BY <1>2 DEF TypeOK, Idle, Doing
  <2> QED BY <1>1, <2>1, <2>2
<1> QED BY <1>3, <1>4

\* The transaction: the money is there, and the number is this payment's own or
\* nobody's.
LEMMA SettleInv ==
  ASSUME IInv, NEW h \in Handlers, Settle(h)
  PROVE  IInv'
<1> DEFINE p == handler[h].pay
           n == NumberKept(p, handler[h].number)
<1> USE DEF IInv
<1>1. p \in Payments /\ p \in taken /\ handler[h].number \in Nat \ {0}
  BY DEF Settle, RequestsAreSound, TypeOK
<1>2. n \in Nat \ {0} /\ (receipt[p] # 0 => n = receipt[p])
  BY <1>1, NumberKeptTyped
<1>3. /\ \A q \in Payments \ {p} : receipt[q] # n
      /\ UNCHANGED <<ref, gateway>>
      /\ status' = [status EXCEPT ![p] = "paid"]
      /\ receipt' = [receipt EXCEPT ![p] = n]
      /\ released' = released \union {FeeOf[p]}
      /\ handler' = [handler EXCEPT ![h] = Idle]
      /\ taken' = taken
  BY DEF Settle, Collides, Releases, Done, gateway
<1> HIDE DEF n
<1>4. TypeOK'
  <2>1. UNCHANGED <<ref, asked, deaths>>
    BY DEF Settle, gateway
  <2>2. status' \in [Payments -> Statuses] /\ receipt' \in [Payments -> Nat]
    BY <1>1, <1>2, <1>3 DEF TypeOK, Statuses
  <2>3. handler' \in [Handlers -> [step : Steps, pay : Payments \union {NoPayment},
                                   had : Nat, number : Nat]]
    BY <1>3 DEF TypeOK, Idle, Doing, Steps
  <2>4. released' \subseteq Fees
    BY <1>1, <1>3 DEF TypeOK
  <2> QED BY <1>3, <2>1, <2>2, <2>3, <2>4 DEF TypeOK
<1>5. RequestsAreSound'
  BY <1>3 DEF RequestsAreSound, Idle, Doing, TypeOK
<1>6. Bounded'
  <2>1. PICK b \in Nat : \A q \in Payments : receipt[q] <= b
    BY DEF Bounded
  <2>2. b + n \in Nat /\ \A q \in Payments : receipt'[q] <= b + n
    BY <1>1, <1>2, <1>3, <2>1 DEF TypeOK
  <2> QED BY <2>2 DEF Bounded
<1>7. ReceiptMeansMoney'
  BY <1>1, <1>2, <1>3 DEF ReceiptMeansMoney, TypeOK
<1>8. ReleasedByMoney'
  <2> SUFFICES ASSUME NEW f \in released'
               PROVE  \E q \in taken' : FeeOf[q] = f /\ receipt'[q] # 0
    BY DEF ReleasedByMoney
  <2>1. CASE f = FeeOf[p]
    BY <1>1, <1>2, <1>3, <2>1 DEF TypeOK
  <2>2. CASE f \in released
    BY <1>1, <1>2, <1>3, <2>2 DEF ReleasedByMoney, TypeOK
  <2> QED BY <1>3, <2>1, <2>2
<1>9. ReceiptsDiffer' /\ ReceiptReleases'
  BY <1>1, <1>2, <1>3 DEF ReceiptsDiffer, ReceiptReleases, TypeOK
<1>10. RowsAreKnown'
  BY <1>1, <1>3 DEF RowsAreKnown, RequestsAreSound, TypeOK, Idle, Doing, gateway, Settle
<1>11. NoGap' /\ NumbersInOrder'
  BY SettleNumbers
<1> QED BY <1>4, <1>5, <1>6, <1>7, <1>8, <1>9, <1>10, <1>11

\* A request runs on: only its own payment, and only Settle numbers it.
LEMMA ProceedInv ==
  ASSUME IInv, NEW h \in Handlers, Proceed(h)
  PROVE  IInv'
<1> USE DEF IInv
<1>1. CASE Settle(h)
  BY <1>1, SettleInv
<1>2. CASE TakeNumber(h)
  <2>1. NextNumber \in Nat \ {0}
    BY NextNumberIsNew
  <2> HIDE DEF NextNumber
  <2>2. TypeOK' /\ RequestsAreSound' /\ RowsAreKnown' /\ Unnumbered
    BY <1>2, <2>1 DEF TakeNumber, Run, Doing, TypeOK, Steps, row, gateway,
         Unnumbered, RequestsAreSound, RowsAreKnown
  <2> QED BY <2>2, UnnumberedKeeps
<1>3. CASE GatewayAccepts(h)
  <2>1. TypeOK' /\ RequestsAreSound' /\ RowsAreKnown' /\ Unnumbered
    BY <1>3 DEF GatewayAccepts, TypeOK, Steps, row, gateway, Unnumbered, RequestsAreSound, RowsAreKnown
  <2> QED BY <2>1, UnnumberedKeeps
<1>4. CASE GatewayRefuses(h) \/ Handoff(h) \/ PollThrows(h) \/ CancelWrite(h)
           \/ SettleRollsBack(h)
  <2>1. TypeOK' /\ RequestsAreSound' /\ RowsAreKnown' /\ Unnumbered
    BY <1>4 DEF GatewayRefuses, MayAsk, Handoff, StoreRef, PollThrows, CancelWrite, SettleRollsBack,
         TypeOK, Steps, Statuses, Done, Idle, Doing, row, gateway, Unnumbered, RequestsAreSound, RowsAreKnown
  <2> QED BY <2>1, UnnumberedKeeps
<1> QED BY <1>1, <1>2, <1>3, <1>4 DEF Proceed

\* The payer, and a server's death, change nothing that was promised.
LEMMA StepInv == IInv /\ [Next]_vars => IInv'
<1> SUFFICES ASSUME IInv, [Next]_vars PROVE IInv'
  OBVIOUS
<1> USE DEF IInv
<1>1. ASSUME NEW h \in Handlers, NEW p \in Payments, Start(h, p) PROVE IInv'
  BY <1>1, StartInv
<1>2. ASSUME NEW h \in Handlers, Proceed(h) PROVE IInv'
  BY <1>2, ProceedInv
<1>3. ASSUME NEW h \in Handlers, Die(h) PROVE IInv'
  <2>1. TypeOK' /\ RequestsAreSound' /\ RowsAreKnown' /\ Unnumbered
    BY <1>3 DEF Die, TypeOK, Steps, Done, Idle, Doing, row, gateway, Unnumbered, RequestsAreSound, RowsAreKnown
  <2> QED BY <2>1, UnnumberedKeeps
<1>4. ASSUME NEW p \in Payments, PayerPays(p) PROVE IInv'
  <2>1. TypeOK' /\ RequestsAreSound' /\ RowsAreKnown' /\ Unnumbered
    BY <1>4 DEF PayerPays, TypeOK, row, gateway, Unnumbered, RequestsAreSound, RowsAreKnown
  <2> QED BY <2>1, UnnumberedKeeps
<1>5. CASE UNCHANGED vars
  <2>1. TypeOK' /\ RequestsAreSound' /\ RowsAreKnown' /\ Unnumbered
    BY <1>5 DEF vars, row, gateway, TypeOK, Unnumbered, RequestsAreSound, RowsAreKnown
  <2> QED BY <2>1, UnnumberedKeeps
<1> QED BY <1>1, <1>2, <1>3, <1>4, <1>5 DEF Next

-----------------------------------------------------------------------------
\* The invariant, for any number of payments, requests and deaths.
THEOREM Invariant == Spec => []IInv
  BY InitInv, StepInv, PTL DEF Spec

\* Every column and every request keeps its type.
THEOREM Typed == Spec => []TypeOK
<1>1. IInv => TypeOK
  BY DEF IInv
<1> QED BY <1>1, Invariant, PTL

\* No receipt without money, whoever cancels, repeats or confirms twice.
THEOREM ReceiptTheorem == Spec => []ReceiptMeansMoney
<1>1. IInv => ReceiptMeansMoney
  BY DEF IInv
<1> QED BY <1>1, Invariant, PTL

\* Money whose callback will find no row is under a payment that is pending, failed or
\* cancelled, whenever the server dies or the gateway's answer is lost.
THEOREM LostMoneyTheorem == Spec => []LostMoneyShows
<1>1. IInv => LostMoneyShows
  BY DEF IInv, TypeOK, RowsAreKnown, LostMoneyShows, Statuses
<1> QED BY <1>1, Invariant, PTL

\* Nothing is released but against a receipted payment for that very fee.
THEOREM ReleaseTheorem == Spec => []ReleasedByMoney
<1>1. IInv => ReleasedByMoney
  BY DEF IInv
<1> QED BY <1>1, Invariant, PTL

\* No two payments carry one receipt number, however many compute it at one time.
THEOREM ReceiptNumbersDiffer == Spec => []ReceiptsDiffer
<1>1. IInv => ReceiptsDiffer
  BY DEF IInv
<1> QED BY <1>1, Invariant, PTL

\* A step numbers nothing again.
LEMMA StepKeepsReceipts ==
  ASSUME IInv, [Next]_vars
  PROVE  \A p \in Payments : receipt[p] # 0 => receipt'[p] = receipt[p]
<1>1. ASSUME NEW h \in Handlers, Settle(h), NEW p \in Payments, receipt[p] # 0
      PROVE  receipt'[p] = receipt[p]
  <2>1. handler[h].pay \in Payments /\ handler[h].number \in Nat
    BY <1>1 DEF Settle, IInv, RequestsAreSound, TypeOK
  <2>2. receipt' = [receipt EXCEPT ![handler[h].pay] =
                      NumberKept(handler[h].pay, handler[h].number)]
    BY <1>1 DEF Settle
  <2>3. receipt[handler[h].pay] # 0 =>
          NumberKept(handler[h].pay, handler[h].number) = receipt[handler[h].pay]
    BY <2>1, NumberKeptTyped DEF IInv
  <2> QED BY <1>1, <2>1, <2>2, <2>3 DEF IInv, TypeOK
<1>2. ASSUME NEW h \in Handlers, Proceed(h), ~Settle(h) PROVE UNCHANGED receipt
  BY <1>2 DEF Proceed, GatewayAccepts, GatewayRefuses, Handoff, PollThrows, TakeNumber,
       SettleRollsBack, CancelWrite, row
<1>3. ASSUME NEW h \in Handlers, NEW p \in Payments, Start(h, p) PROVE UNCHANGED receipt
  BY <1>3 DEF Start, Initiate, Webhook, Confirm, Poll, CancelRead, row
<1>4. ASSUME NEW h \in Handlers, Die(h) PROVE UNCHANGED receipt
  BY <1>4 DEF Die, row
<1>5. ASSUME NEW p \in Payments, PayerPays(p) PROVE UNCHANGED receipt
  BY <1>5 DEF PayerPays, row
<1>6. CASE UNCHANGED vars
  BY <1>6 DEF vars, row
<1> QED BY <1>1, <1>2, <1>3, <1>4, <1>5, <1>6 DEF Next

\* A receipt once issued keeps its number, even when its payment is cancelled after
\* it was paid and then settled again.
THEOREM ReceiptsAreForever == Spec => ReceiptIsForever
<1>1. IInv /\ [Next]_vars =>
        [\A p \in Payments : receipt[p] # 0 => receipt'[p] = receipt[p]]_vars
  BY StepKeepsReceipts
<1> QED BY <1>1, Invariant, PTL DEF Spec, ReceiptIsForever

-----------------------------------------------------------------------------
\* A step is one of the receipt book, or changes nothing of it.
LEMMA StepRefines == IInv /\ [Next]_vars => [Book!AbsNext]_(Book!book)
<1> SUFFICES ASSUME IInv, [Next]_vars PROVE Book!AbsNext \/ UNCHANGED Book!book
  OBVIOUS
<1> DEFINE Kept == UNCHANGED <<receipt, released>>
<1>0. Kept => MaxReceipt' = MaxReceipt
  BY DEF MaxReceipt
<1> HIDE DEF MaxReceipt
<1>1. ASSUME NEW h \in Handlers, Settle(h) PROVE Book!AbsNext \/ UNCHANGED Book!book
  <2>1. UNCHANGED taken
    BY <1>1 DEF Settle, gateway
  <2> QED BY <1>1, <2>1, SettleIssues DEF Book!AbsNext, Book!Issue, Book!book
<1>2. ASSUME NEW h \in Handlers, NEW p \in Payments, Confirm(h, p) PROVE Book!AbsNext
  BY <1>0, <1>2 DEF Confirm, row, Book!AbsNext, Book!Take
<1>3. ASSUME NEW p \in Payments, PayerPays(p) PROVE Book!AbsNext
  BY <1>0, <1>3 DEF PayerPays, row, Book!AbsNext, Book!Take
<1>4. ASSUME NEW h \in Handlers, Proceed(h), ~Settle(h) PROVE Kept /\ UNCHANGED taken
  BY <1>4 DEF Proceed, GatewayAccepts, GatewayRefuses, Handoff, PollThrows, TakeNumber,
       SettleRollsBack, CancelWrite, row, gateway
<1>5. ASSUME NEW h \in Handlers, NEW p \in Payments, Start(h, p), ~Confirm(h, p)
      PROVE  Kept /\ UNCHANGED taken
  BY <1>5 DEF Start, Initiate, Webhook, Poll, CancelRead, row, gateway
<1>6. ASSUME NEW h \in Handlers, Die(h) PROVE Kept /\ UNCHANGED taken
  BY <1>6 DEF Die, row, gateway
<1>7. CASE UNCHANGED vars
  BY <1>0, <1>7 DEF vars, row, gateway, Book!book
<1> QED BY <1>0, <1>1, <1>2, <1>3, <1>4, <1>5, <1>6, <1>7 DEF Next, Book!book

\* Fees keep the promise of the receipt book: one counter's numbers in order and with no
\* gap, though every request computes its own, and each fee released with its receipt.
THEOREM Refinement == Spec => ImplementsReceiptBook
<1>1. Init => Book!AbsInit
  BY InitHighest DEF Init, Book!AbsInit
<1>2. IInv /\ [Next]_vars => [Book!AbsNext]_(Book!book)
  BY StepRefines
<1> QED BY <1>1, <1>2, Invariant, PTL DEF Spec, ImplementsReceiptBook, Book!AbsSpec
=============================================================================
