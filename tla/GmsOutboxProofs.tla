--------------------------- MODULE GmsOutboxProofs ---------------------------
(***************************************************************************)
(* What holds of the outbox for any number of events, importers, servers   *)
(* and operators, and any bounds.  The invariant is the lock discipline of *)
(* deliverOne(): a worker is inside a delivery exactly while it holds the  *)
(* row's lock, and a held row is pending.  With the isolation of the       *)
(* imports it gives every safety property of the module.                   *)
(***************************************************************************)
EXTENDS GmsOutbox, TLAPS

\* A worker holds a row's lock exactly while it is delivering that row.
LockIffSending == \A w \in Workers, k \in Keys : holder[k] = w <=> Sending(w, k)

\* A call is posted only for an event that has been published.
OnlyPublishedIsSent ==
    /\ \A w \in Workers, k \in Keys : <<w, k>> \in wire => status[k] # "absent"
    /\ \A k \in received : status[k] # "absent"

\* A worker that has its answer is delivering an event the ERP holds.
AnswerMeansReceived ==
    \A w \in Workers : worker[w].pc = "answered" => worker[w].event \in received

\* An open transaction queues events of the changes it has written only.
QueuedIsWritten == \A p \in Importers : txn[p].queued \subseteq txn[p].wrote

IInv ==
    /\ TypeOK
    /\ TransactionalOutbox
    /\ LockIffSending
    /\ SenderHoldsPendingRow
    /\ OnlyPublishedIsSent
    /\ AnswerMeansReceived
    /\ HandedOverIsReceived
    /\ QueuedIsWritten

USE AttemptsAssumption, RepliesAssumption, NobodyAssumption

-----------------------------------------------------------------------------
\* A worker is always in one of the states of the code, and every column of an
\* event has one of the values the table's CHECKs allow.
LEMMA InitTyped == Init => TypeOK
  BY DEF Init, TypeOK, Idle, At, Steps, Statuses, NoTxn

LEMMA StepTyped == TypeOK /\ [Next]_vars => TypeOK'
<1> SUFFICES ASSUME TypeOK, [Next]_vars PROVE TypeOK'
  OBVIOUS
<1> USE DEF TypeOK
<1>1. ASSUME NEW p \in Importers, Import(p) PROVE TypeOK'
  <2>1. ASSUME NEW C \in SUBSET Keys, BeginImport(p, C) PROVE TypeOK'
    BY <2>1 DEF BeginImport, rows
  <2>2. ASSUME NEW k \in Keys, Enqueue(p, k) PROVE TypeOK'
    BY <2>2 DEF Enqueue, rows
  <2>3. ASSUME CommitImport(p) PROVE TypeOK'
    BY <2>3 DEF CommitImport, NoTxn, Statuses
  <2>4. ASSUME RollbackImport(p) PROVE TypeOK'
    BY <2>4 DEF RollbackImport, NoTxn, rows
  <2> QED BY <1>1, <2>1, <2>2, <2>3, <2>4 DEF Import
<1>2. ASSUME NEW w \in Workers, Deliver(w) PROVE TypeOK'
  <2> USE DEF At, Idle, Rest, Steps, Release, register
  <2>1. ASSUME Tick(w) PROVE TypeOK'
    BY <2>1 DEF Tick, rows
  <2>2. ASSUME Abort(w) PROVE TypeOK'
    BY <2>2 DEF Abort, rows
  <2>3. ASSUME NEW k \in Keys, Claim(w, k) PROVE TypeOK'
    BY <2>3 DEF Claim, Lock, rows
  <2>4. ASSUME NEW k \in Keys, Skip(w, k) PROVE TypeOK'
    BY <2>4 DEF Skip, rows
  <2>5. ASSUME NEW k \in Keys, DeliveryThrows(w, k) PROVE TypeOK'
    BY <2>5 DEF DeliveryThrows, Statuses
  <2>6. ASSUME NEW k \in Keys, NEW r \in Replies, RecordReply(w, k, r) PROVE TypeOK'
    BY <2>6 DEF RecordReply, ReplyStatus, Statuses
  <2>7. ASSUME NEW k \in Keys, Retry(w, k) PROVE TypeOK'
    BY <2>7 DEF Retry, Statuses
  <2> QED BY <1>2, <2>1, <2>2, <2>3, <2>4, <2>5, <2>6, <2>7 DEF Deliver
<1>3. ASSUME NEW w \in Workers, Network(w) PROVE TypeOK'
  <2>1. ASSUME NEW k \in Keys, ErpProcesses(w, k) PROVE TypeOK'
    <3>1. worker' \in [Workers -> [pc : Steps, batch : SUBSET Keys,
                                  event : Keys \union {Nobody}]]
      BY <2>1 DEF ErpProcesses, Steps
    <3> QED BY <2>1, <3>1 DEF ErpProcesses, register, rows
  <2>2. ASSUME NEW k \in Keys, LosePost(w, k) PROVE TypeOK'
    BY <2>2 DEF LosePost, register, rows
  <2> QED BY <1>3, <2>1, <2>2 DEF Network
<1>4. ASSUME NEW k \in Keys, BackoffElapses(k) \/ Cancel(k) PROVE TypeOK'
  BY <1>4 DEF BackoffElapses, Cancel, register, rows, Statuses
<1>5. CASE UNCHANGED vars
  BY <1>5 DEF vars
<1> QED BY <1>1, <1>2, <1>3, <1>4, <1>5 DEF Next

\* Every column and every worker keeps its type, for any size of the system.
THEOREM Typed == Spec => []TypeOK
  BY InitTyped, StepTyped, PTL DEF Spec

-----------------------------------------------------------------------------
\* Nothing is claimed, sent or committed when the system starts.
LEMMA InitInv == Init => IInv
<1> SUFFICES ASSUME Init PROVE IInv
  OBVIOUS
<1>1. TypeOK
  BY InitTyped
<1>2. TransactionalOutbox /\ HandedOverIsReceived /\ OnlyPublishedIsSent
  BY DEF Init, TransactionalOutbox, HandedOverIsReceived, OnlyPublishedIsSent
<1>3. LockIffSending /\ SenderHoldsPendingRow /\ AnswerMeansReceived
  BY DEF Init, LockIffSending, SenderHoldsPendingRow, AnswerMeansReceived, Sending,
         Idle, At, Workers
<1>4. QueuedIsWritten
  BY DEF Init, QueuedIsWritten, NoTxn
<1> QED BY <1>1, <1>2, <1>3, <1>4 DEF IInv

\* An import touches no lock and no worker, and adds rows only for the changes
\* that commit with them.
LEMMA ImportInv ==
  ASSUME IInv, TypeOK', NEW p \in Importers, Import(p) PROVE IInv'
<1> USE DEF IInv, TypeOK
<1>1. ASSUME NEW C \in SUBSET Keys, BeginImport(p, C) PROVE IInv'
  BY <1>1 DEF BeginImport, rows, TransactionalOutbox, LockIffSending, Sending,
     SenderHoldsPendingRow, OnlyPublishedIsSent, AnswerMeansReceived,
     HandedOverIsReceived, QueuedIsWritten
<1>2. ASSUME NEW k \in Keys, Enqueue(p, k) PROVE IInv'
  <2>1. QueuedIsWritten'
    BY <1>2 DEF Enqueue, QueuedIsWritten
  <2> QED BY <1>2, <2>1 DEF Enqueue, rows, TransactionalOutbox, LockIffSending, Sending,
       SenderHoldsPendingRow, OnlyPublishedIsSent, AnswerMeansReceived,
       HandedOverIsReceived
<1>3. ASSUME CommitImport(p) PROVE IInv'
  <2>1. TransactionalOutbox'
    BY <1>3 DEF CommitImport, TransactionalOutbox
  <2>2. QueuedIsWritten'
    BY <1>3 DEF CommitImport, QueuedIsWritten, NoTxn
  <2>3. LockIffSending' /\ SenderHoldsPendingRow' /\ AnswerMeansReceived'
    BY <1>3 DEF CommitImport, LockIffSending, SenderHoldsPendingRow,
       AnswerMeansReceived, Sending
  <2>4. OnlyPublishedIsSent' /\ HandedOverIsReceived'
    BY <1>3 DEF CommitImport, OnlyPublishedIsSent, HandedOverIsReceived
  <2> QED BY <2>1, <2>2, <2>3, <2>4
<1>4. ASSUME RollbackImport(p) PROVE IInv'
  <2>1. QueuedIsWritten'
    BY <1>4 DEF RollbackImport, QueuedIsWritten, NoTxn
  <2> QED BY <1>4, <2>1 DEF RollbackImport, rows, TransactionalOutbox, LockIffSending,
       Sending, SenderHoldsPendingRow, OnlyPublishedIsSent, AnswerMeansReceived,
       HandedOverIsReceived
<1> QED BY <1>1, <1>2, <1>3, <1>4 DEF Import

\* A delivery that ends frees the lock it held, and nobody else's.
LEMMA Released ==
  ASSUME IInv, NEW w \in Workers, NEW k \in Keys, Sending(w, k),
         Release(w, k, worker[w].batch), UNCHANGED received,
         \A l \in Keys \ {k} : status'[l] = status[l]
  PROVE  LockIffSending' /\ SenderHoldsPendingRow' /\ AnswerMeansReceived'
<1> USE DEF IInv, TypeOK
<1>1. worker' = [worker EXCEPT ![w] = Rest(worker[w].batch)]
      /\ holder' = [holder EXCEPT ![k] = Nobody]
  BY DEF Release
<1>2. worker'[w].pc \notin {"calling", "answered"}
  BY <1>1 DEF Rest, Idle, At
<1>3. \A v \in Workers \ {w} : worker'[v] = worker[v]
  BY <1>1
<1>4. holder[k] = w /\ \A l \in Keys \ {k} : holder'[l] = holder[l] /\ holder[l] # w
  BY <1>1 DEF LockIffSending, Sending
<1>5. holder'[k] = Nobody
  BY <1>1
<1>6. ASSUME NEW v \in Workers, NEW l \in Keys
      PROVE  /\ holder'[l] = v <=> Sending(v, l)'
             /\ Sending(v, l)' => status'[l] = "pending"
  <2>1. CASE v = w
    BY <1>2, <1>4, <1>5, <2>1 DEF Sending, Workers
  <2>2. CASE v # w /\ l = k
    BY <1>3, <1>4, <1>5, <2>2 DEF Sending, LockIffSending, Workers
  <2>3. CASE v # w /\ l # k
    BY <1>3, <1>4, <2>3 DEF Sending, LockIffSending, SenderHoldsPendingRow
  <2> QED BY <2>1, <2>2, <2>3
<1>7. AnswerMeansReceived'
  BY <1>2, <1>3 DEF AnswerMeansReceived
<1> QED BY <1>6, <1>7 DEF LockIffSending, SenderHoldsPendingRow

\* A delivery changes the row it has locked only, frees the lock when it ends,
\* and is the only one to hold it.
LEMMA DeliverInv ==
  ASSUME IInv, TypeOK', NEW w \in Workers, Deliver(w) PROVE IInv'
<1> USE DEF IInv, TypeOK, Workers
<1> DEFINE LockPart == LockIffSending /\ SenderHoldsPendingRow
           RowPart  == TransactionalOutbox /\ HandedOverIsReceived /\ OnlyPublishedIsSent
<1>q. ASSUME UNCHANGED txn PROVE QueuedIsWritten'
  BY <1>q DEF QueuedIsWritten
<1>1. ASSUME Tick(w) PROVE IInv'
  <2>1. LockPart' /\ AnswerMeansReceived'
    BY <1>1 DEF Tick, rows, LockIffSending, SenderHoldsPendingRow,
       AnswerMeansReceived, Sending, At
  <2>2. RowPart'
    BY <1>1 DEF Tick, rows, register, TransactionalOutbox, HandedOverIsReceived,
       OnlyPublishedIsSent
  <2> QED BY <1>1, <1>q, <2>1, <2>2 DEF Tick, register
<1>2. ASSUME Abort(w) PROVE IInv'
  <2>1. LockPart' /\ AnswerMeansReceived'
    BY <1>2 DEF Abort, rows, LockIffSending, SenderHoldsPendingRow,
       AnswerMeansReceived, Sending, At, Idle
  <2>2. RowPart'
    BY <1>2 DEF Abort, rows, register, TransactionalOutbox, HandedOverIsReceived,
       OnlyPublishedIsSent
  <2> QED BY <1>2, <1>q, <2>1, <2>2 DEF Abort, register
<1>3. ASSUME NEW k \in Keys, Claim(w, k) PROVE IInv'
  <2>1. LockPart' /\ AnswerMeansReceived'
    BY <1>3 DEF Claim, Claimable, Lock, rows, LockIffSending, SenderHoldsPendingRow,
       AnswerMeansReceived, Sending, At
  <2>2. RowPart'
    BY <1>3 DEF Claim, Claimable, rows, register, TransactionalOutbox,
       HandedOverIsReceived, OnlyPublishedIsSent
  <2> QED BY <1>3, <1>q, <2>1, <2>2 DEF Claim, register
<1>4. ASSUME NEW k \in Keys, Skip(w, k) PROVE IInv'
  <2>1. LockPart' /\ AnswerMeansReceived'
    BY <1>4 DEF Skip, rows, LockIffSending, SenderHoldsPendingRow,
       AnswerMeansReceived, Sending, At, Idle, Rest
  <2>2. RowPart'
    BY <1>4 DEF Skip, rows, register, TransactionalOutbox, HandedOverIsReceived,
       OnlyPublishedIsSent
  <2> QED BY <1>4, <1>q, <2>1, <2>2 DEF Skip, register
<1>5. ASSUME NEW k \in Keys, DeliveryThrows(w, k) PROVE IInv'
  <2>1. LockPart' /\ AnswerMeansReceived'
    BY <1>5, Released DEF DeliveryThrows
  <2>2. RowPart'
    BY <1>5 DEF DeliveryThrows, register, TransactionalOutbox, HandedOverIsReceived,
       OnlyPublishedIsSent, SenderHoldsPendingRow
  <2> QED BY <1>5, <1>q, <2>1, <2>2 DEF DeliveryThrows, register
<1>6. ASSUME NEW k \in Keys, NEW r \in Replies, RecordReply(w, k, r) PROVE IInv'
  <2>1. LockPart' /\ AnswerMeansReceived'
    BY <1>6, Released DEF RecordReply
  <2>2. k \in received
    BY <1>6 DEF RecordReply, Answered, Sending, AnswerMeansReceived
  <2>3. RowPart'
    BY <1>6, <2>2 DEF RecordReply, ReplyStatus, register, TransactionalOutbox,
       HandedOverIsReceived, OnlyPublishedIsSent, SenderHoldsPendingRow
  <2> QED BY <1>6, <1>q, <2>1, <2>3 DEF RecordReply, register
<1>7. ASSUME NEW k \in Keys, Retry(w, k) PROVE IInv'
  <2>1. LockPart' /\ AnswerMeansReceived'
    BY <1>7 DEF Retry, Retryable, LockIffSending, SenderHoldsPendingRow,
       AnswerMeansReceived, Sending, At
  <2>2. RowPart'
    BY <1>7 DEF Retry, Retryable, register, TransactionalOutbox, HandedOverIsReceived,
       OnlyPublishedIsSent
  <2> QED BY <1>7, <1>q, <2>1, <2>2 DEF Retry, register
<1> HIDE DEF IInv, TypeOK
<1> QED BY <1>1, <1>2, <1>3, <1>4, <1>5, <1>6, <1>7 DEF Deliver

\* The network answers a worker only by handing its event to the ERP.
LEMMA NetworkInv ==
  ASSUME IInv, TypeOK', NEW w \in Workers, Network(w) PROVE IInv'
<1> USE DEF IInv, TypeOK
<1>1. ASSUME NEW k \in Keys, ErpProcesses(w, k) PROVE IInv'
  <2>1. LockIffSending' /\ SenderHoldsPendingRow'
    BY <1>1 DEF ErpProcesses, rows, LockIffSending, SenderHoldsPendingRow, Sending
  <2>2. AnswerMeansReceived'
    BY <1>1 DEF ErpProcesses, AnswerMeansReceived
  <2>3. TransactionalOutbox' /\ HandedOverIsReceived' /\ OnlyPublishedIsSent' /\ QueuedIsWritten'
    BY <1>1 DEF ErpProcesses, rows, register, TransactionalOutbox, HandedOverIsReceived,
       OnlyPublishedIsSent, QueuedIsWritten
  <2> QED BY <2>1, <2>2, <2>3
<1>2. ASSUME NEW k \in Keys, LosePost(w, k) PROVE IInv'
  BY <1>2 DEF LosePost, rows, register, TransactionalOutbox, LockIffSending, Sending,
     SenderHoldsPendingRow, OnlyPublishedIsSent, AnswerMeansReceived,
     HandedOverIsReceived, QueuedIsWritten
<1> QED BY <1>1, <1>2 DEF Network

\* Only a row nobody has locked is cancelled.
LEMMA RowInv ==
  ASSUME IInv, TypeOK', NEW k \in Keys, BackoffElapses(k) \/ Cancel(k) PROVE IInv'
<1> USE DEF IInv, TypeOK
<1>1. CASE BackoffElapses(k)
  BY <1>1 DEF BackoffElapses, register, TransactionalOutbox, LockIffSending, Sending,
     SenderHoldsPendingRow, OnlyPublishedIsSent, AnswerMeansReceived,
     HandedOverIsReceived, QueuedIsWritten
<1>2. CASE Cancel(k)
  <2>1. LockIffSending' /\ SenderHoldsPendingRow' /\ AnswerMeansReceived'
    BY <1>2 DEF Cancel, Cancellable, LockIffSending, SenderHoldsPendingRow, Sending,
       AnswerMeansReceived, Workers
  <2>2. TransactionalOutbox' /\ HandedOverIsReceived' /\ OnlyPublishedIsSent' /\ QueuedIsWritten'
    BY <1>2 DEF Cancel, Cancellable, register, TransactionalOutbox, HandedOverIsReceived,
       OnlyPublishedIsSent, QueuedIsWritten
  <2> QED BY <2>1, <2>2
<1> QED BY <1>1, <1>2

\* The invariant is inductive.
LEMMA StepInv == IInv /\ [Next]_vars => IInv'
<1> SUFFICES ASSUME IInv, [Next]_vars PROVE IInv'
  OBVIOUS
<1>1. TypeOK'
  BY StepTyped DEF IInv
<1>2. CASE UNCHANGED vars
  BY <1>1, <1>2 DEF vars, IInv, TransactionalOutbox, LockIffSending, Sending,
     SenderHoldsPendingRow, OnlyPublishedIsSent, AnswerMeansReceived,
     HandedOverIsReceived, QueuedIsWritten
<1> QED BY <1>1, <1>2, ImportInv, DeliverInv, NetworkInv, RowInv DEF Next

\* The lock discipline and what follows from it hold in every reachable state.
THEOREM Invariant == Spec => []IInv
  BY InitInv, StepInv, PTL DEF Spec

\* An outbox row exists exactly for the register changes that have committed.
THEOREM OutboxIsTransactional == Spec => []TransactionalOutbox
<1>1. IInv => TransactionalOutbox
  BY DEF IInv
<1> QED BY <1>1, Invariant, PTL

\* What the console reports as sent or acknowledged, the ERP holds.
THEOREM HandedOverTheorem == Spec => []HandedOverIsReceived
<1>1. IInv => HandedOverIsReceived
  BY DEF IInv
<1> QED BY <1>1, Invariant, PTL

\* No two workers, nor a worker and a manual retry, are inside deliver() with the
\* same event.
THEOREM OneSender == Spec => []OneSenderPerEvent
<1>1. IInv => OneSenderPerEvent
  BY DEF IInv, LockIffSending, OneSenderPerEvent
<1> QED BY <1>1, Invariant, PTL

\* The row a worker is delivering stays pending until that worker writes it.
THEOREM SenderHoldsRow == Spec => []SenderHoldsPendingRow
<1>1. IInv => SenderHoldsPendingRow
  BY DEF IInv
<1> QED BY <1>1, Invariant, PTL

-----------------------------------------------------------------------------
\* An event that is not there yet has been tried by nobody.
AbsentIsUntried == \A k \in Keys : status[k] = "absent" => attempts[k] = 0

Budget == AttemptBudget /\ AbsentIsUntried

\* Budget speaks of each event by itself, so a step keeps it that leaves the event's
\* row alone, settles it, or moves it within the budget.
LEMMA BudgetKept ==
  ASSUME TypeOK, TypeOK', Budget, retries' >= retries,
         \A k \in Keys :
            \/ status'[k] = status[k] /\ attempts'[k] = attempts[k]
            \/ status'[k] \in Settled
            \/ status'[k] = "failed" /\ attempts'[k] >= MaxAttempts
            \/ status'[k] = "pending" /\ (attempts'[k] < MaxAttempts \/ retries' > 0)
  PROVE  Budget'
<1> SUFFICES ASSUME NEW k \in Keys
             PROVE  /\ status'[k] = "failed" => attempts'[k] >= MaxAttempts
                    /\ status'[k] = "pending" /\ attempts'[k] >= MaxAttempts => retries' > 0
                    /\ status'[k] = "absent" => attempts'[k] = 0
  BY DEF Budget, AttemptBudget, AbsentIsUntried
<1>1. /\ attempts[k] \in Nat /\ attempts'[k] \in Nat
      /\ retries \in Nat /\ retries' \in Nat
  BY DEF TypeOK
<1> QED BY <1>1 DEF Budget, AttemptBudget, AbsentIsUntried, Settled

LEMMA BudgetStep == TypeOK /\ TypeOK' /\ Budget /\ [Next]_vars => Budget'
<1> SUFFICES ASSUME TypeOK, TypeOK', Budget, [Next]_vars PROVE Budget'
  OBVIOUS
<1> USE DEF TypeOK
<1>1. ASSUME NEW p \in Importers, Import(p) PROVE Budget'
  <2>1. CASE CommitImport(p)
    <3>1. ASSUME NEW k \in Keys
          PROVE  /\ attempts'[k] = attempts[k]
                 /\ \/ status'[k] = status[k]
                    \/ status'[k] = "pending" /\ status[k] = "absent"
      BY <2>1 DEF CommitImport
    <3>2. \A k \in Keys : status[k] = "absent" => attempts[k] < MaxAttempts
      BY DEF Budget, AbsentIsUntried
    <3> QED BY <2>1, <3>1, <3>2, BudgetKept DEF CommitImport
  <2>2. CASE ~CommitImport(p)
    <3>1. UNCHANGED <<status, attempts, retries>>
      BY <1>1, <2>2 DEF Import, BeginImport, Enqueue, RollbackImport, rows
    <3> QED BY <3>1, BudgetKept
  <2> QED BY <2>1, <2>2
<1>2. ASSUME NEW w \in Workers, Deliver(w) PROVE Budget'
  <2>1. ASSUME NEW k \in Keys, DeliveryThrows(w, k) PROVE Budget'
    <3>1. /\ \A j \in Keys \ {k} : status'[j] = status[j] /\ attempts'[j] = attempts[j]
          /\ attempts'[k] = attempts[k] + 1 /\ attempts[k] \in Nat
          /\ status'[k] = IF attempts[k] + 1 >= MaxAttempts THEN "failed" ELSE "pending"
          /\ retries' = retries
      BY <2>1 DEF DeliveryThrows, Exhausted
    <3> QED BY <3>1, BudgetKept
  <2>2. ASSUME NEW k \in Keys, NEW reply \in Replies, RecordReply(w, k, reply) PROVE Budget'
    <3>1. /\ \A j \in Keys \ {k} : status'[j] = status[j] /\ attempts'[j] = attempts[j]
          /\ status'[k] \in Settled
          /\ retries' = retries
      BY <2>2 DEF RecordReply, ReplyStatus, Settled
    <3> QED BY <3>1, BudgetKept
  <2>3. ASSUME NEW k \in Keys, Retry(w, k) PROVE Budget'
    <3>1. /\ \A j \in Keys \ {k} : status'[j] = status[j]
          /\ attempts' = attempts
          /\ status'[k] = "pending" /\ retries' = retries + 1
      BY <2>3 DEF Retry
    <3> QED BY <3>1, BudgetKept
  <2>4. CASE Tick(w) \/ Abort(w) \/ \E k \in Keys : Claim(w, k) \/ Skip(w, k)
    <3>1. UNCHANGED <<status, attempts, retries>>
      BY <2>4 DEF Tick, Abort, Claim, Skip, rows
    <3> QED BY <3>1, BudgetKept
  <2> QED BY <1>2, <2>1, <2>2, <2>3, <2>4 DEF Deliver
<1>3. ASSUME NEW w \in Workers, Network(w) PROVE Budget'
  <2>1. UNCHANGED <<status, attempts, retries>>
    BY <1>3 DEF Network, ErpProcesses, LosePost, rows
  <2> QED BY <2>1, BudgetKept
<1>4. ASSUME NEW k \in Keys, BackoffElapses(k) \/ Cancel(k) PROVE Budget'
  <2>1. /\ \A j \in Keys : status'[j] = status[j] \/ status'[j] = "cancelled"
        /\ attempts' = attempts /\ retries' = retries
    BY <1>4 DEF BackoffElapses, Cancel
  <2> QED BY <2>1, BudgetKept DEF Settled
<1>5. CASE UNCHANGED vars
  BY <1>5, BudgetKept DEF vars, rows
<1> QED BY <1>1, <1>2, <1>3, <1>4, <1>5 DEF Next

\* An event is given up only once its attempts are spent, and one that waits with
\* its attempts spent was retried by an operator.
THEOREM BudgetTheorem == Spec => []AttemptBudget
<1>1. Init => Budget
  BY DEF Init, Budget, AttemptBudget, AbsentIsUntried
<1>2. Budget => AttemptBudget
  BY DEF Budget
<1> QED BY <1>1, <1>2, Typed, BudgetStep, PTL DEF Spec

-----------------------------------------------------------------------------
SettledStaysPut ==
    \A k \in Keys : status[k] \in Settled =>
        /\ status'[k] = status[k]
        /\ attempts'[k] = attempts[k]
        /\ \A w \in Workers : Sending(w, k)' => Sending(w, k)

LEMMA SettledStep == IInv /\ [Next]_vars => SettledStaysPut
<1> SUFFICES ASSUME IInv, [Next]_vars PROVE SettledStaysPut
  OBVIOUS
<1> USE DEF IInv, TypeOK, SettledStaysPut, Settled, Workers, Sending
<1>1. ASSUME NEW p \in Importers, Import(p) PROVE SettledStaysPut
  BY <1>1 DEF Import, BeginImport, Enqueue, CommitImport, RollbackImport, rows
<1>2. ASSUME NEW w \in Workers, Deliver(w) PROVE SettledStaysPut
  <2> USE DEF SenderHoldsPendingRow, At, Idle, Rest, Release
  <2>1. CASE Tick(w)
    BY <2>1 DEF Tick, rows
  <2>2. CASE Abort(w)
    BY <2>2 DEF Abort, rows
  <2>3. ASSUME NEW k \in Keys, Claim(w, k) PROVE SettledStaysPut
    BY <2>3 DEF Claim, Claimable, rows
  <2>4. ASSUME NEW k \in Keys, Skip(w, k) PROVE SettledStaysPut
    BY <2>4 DEF Skip, rows
  <2>5. ASSUME NEW k \in Keys, DeliveryThrows(w, k) PROVE SettledStaysPut
    BY <2>5 DEF DeliveryThrows
  <2>6. ASSUME NEW k \in Keys, NEW r \in Replies, RecordReply(w, k, r) PROVE SettledStaysPut
    BY <2>6 DEF RecordReply
  <2>7. ASSUME NEW k \in Keys, Retry(w, k) PROVE SettledStaysPut
    BY <2>7 DEF Retry, Retryable
  <2> HIDE DEF SettledStaysPut
  <2> QED BY <1>2, <2>1, <2>2, <2>3, <2>4, <2>5, <2>6, <2>7 DEF Deliver
<1>3. ASSUME NEW w \in Workers, Network(w) PROVE SettledStaysPut
  BY <1>3 DEF Network, ErpProcesses, LosePost, rows
<1>4. ASSUME NEW k \in Keys, BackoffElapses(k) \/ Cancel(k) PROVE SettledStaysPut
  BY <1>4 DEF BackoffElapses, Cancel, Cancellable
<1>5. CASE UNCHANGED vars
  BY <1>5 DEF vars
<1> HIDE DEF SettledStaysPut
<1> QED BY <1>1, <1>2, <1>3, <1>4, <1>5 DEF Next

\* A handed-over or cancelled event is never written or sent again.
THEOREM SettledTheorem == Spec => SettledIsFinal
<1>1. IInv /\ [Next]_vars => [SettledStaysPut]_vars
  BY SettledStep
<1> QED BY <1>1, Invariant, PTL DEF Spec, SettledIsFinal, SettledStaysPut

-----------------------------------------------------------------------------
\* Every step of the outbox is a step of ErpDelivery, or changes nothing that it
\* sees.
LEMMA RefinementStep == IInv /\ [Next]_vars => [Promise!AbsNext]_(Promise!absVars)
<1> SUFFICES ASSUME IInv, [Next]_vars PROVE [Promise!AbsNext]_(Promise!absVars)
  OBVIOUS
<1> USE DEF IInv, TypeOK
<1>s. ASSUME UNCHANGED <<changes, status, received>> PROVE UNCHANGED Promise!absVars
  BY <1>s DEF Promise!absVars, ledgerMap
<1>m. ASSUME NEW k \in Keys, NEW s \in Statuses, status' = [status EXCEPT ![k] = s]
      PROVE  /\ ledgerMap' = [ledgerMap EXCEPT ![k] = LedgerOf(s)]
             /\ ledgerMap[k] = LedgerOf(status[k])
  BY <1>m DEF ledgerMap
<1>1. ASSUME NEW p \in Importers, Import(p) PROVE [Promise!AbsNext]_(Promise!absVars)
  <2>1. ASSUME NEW C \in SUBSET Keys, BeginImport(p, C) PROVE UNCHANGED Promise!absVars
    BY <2>1, <1>s DEF BeginImport, rows
  <2>2. ASSUME NEW k \in Keys, Enqueue(p, k) PROVE UNCHANGED Promise!absVars
    BY <2>2, <1>s DEF Enqueue, rows
  <2>3. ASSUME CommitImport(p) PROVE Promise!Publish(txn[p].wrote)
    <3>1. ledgerMap' = [k \in Keys |-> IF k \in txn[p].wrote /\ ledgerMap[k] = "none"
                                         THEN "open" ELSE ledgerMap[k]]
      BY <2>3 DEF CommitImport, ledgerMap, LedgerOf, Statuses
    <3> QED BY <2>3, <3>1 DEF CommitImport, Promise!Publish
  <2>4. ASSUME RollbackImport(p) PROVE UNCHANGED Promise!absVars
    BY <2>4, <1>s DEF RollbackImport, rows
  <2>5. txn[p].wrote \in SUBSET Keys
    OBVIOUS
  <2> QED BY <1>1, <2>1, <2>2, <2>3, <2>4, <2>5 DEF Import, Promise!AbsNext
<1>2. ASSUME NEW w \in Workers, Deliver(w) PROVE [Promise!AbsNext]_(Promise!absVars)
  <2> USE DEF register, rows
  <2>1. ASSUME Tick(w) PROVE UNCHANGED Promise!absVars
    BY <2>1, <1>s DEF Tick
  <2>2. ASSUME Abort(w) PROVE UNCHANGED Promise!absVars
    BY <2>2, <1>s DEF Abort
  <2>3. ASSUME NEW k \in Keys, Claim(w, k) PROVE UNCHANGED Promise!absVars
    BY <2>3, <1>s DEF Claim
  <2>4. ASSUME NEW k \in Keys, Skip(w, k) PROVE UNCHANGED Promise!absVars
    BY <2>4, <1>s DEF Skip
  <2>5. ASSUME NEW k \in Keys, DeliveryThrows(w, k)
        PROVE Promise!GiveUp(k) \/ UNCHANGED Promise!absVars
    <3>1. status[k] = "pending"
      BY <2>5 DEF DeliveryThrows, SenderHoldsPendingRow
    <3>2. CASE Exhausted(attempts[k] + 1)
      <4>1. status' = [status EXCEPT ![k] = "failed"]
        BY <2>5, <3>2 DEF DeliveryThrows
      <4> QED BY <1>m, <2>5, <3>1, <4>1 DEF DeliveryThrows, Promise!GiveUp, Promise!Move,
            LedgerOf, Statuses
    <3>3. CASE ~Exhausted(attempts[k] + 1)
      <4>1. status' = status
        BY <2>5, <3>1, <3>3 DEF DeliveryThrows
      <4> QED BY <1>s, <2>5, <4>1 DEF DeliveryThrows
    <3> QED BY <3>2, <3>3
  <2>6. ASSUME NEW k \in Keys, NEW r \in Replies, RecordReply(w, k, r)
        PROVE Promise!Confirm(k)
    <3>1. status[k] = "pending" /\ k \in received /\ r \in {"acknowledged", "sent"}
      BY <2>6 DEF RecordReply, Answered, Sending, AnswerMeansReceived, SenderHoldsPendingRow
    <3>2. status' = [status EXCEPT ![k] = r]
      BY <2>6 DEF RecordReply, ReplyStatus
    <3> QED BY <1>m, <2>6, <3>1, <3>2 DEF RecordReply, Promise!Confirm, Promise!Move,
          LedgerOf, Statuses
  <2>7. ASSUME NEW k \in Keys, Retry(w, k)
        PROVE Promise!Reopen(k) \/ UNCHANGED Promise!absVars
    <3>1. status' = [status EXCEPT ![k] = "pending"]
      BY <2>7 DEF Retry
    <3>2. CASE status[k] = "failed"
      BY <1>m, <2>7, <3>1, <3>2 DEF Retry, Promise!Reopen, Promise!Move, LedgerOf, Statuses
    <3>3. CASE status[k] = "pending"
      <4>1. status' = status
        BY <3>1, <3>3
      <4> QED BY <1>s, <2>7, <4>1 DEF Retry
    <3> QED BY <2>7, <3>2, <3>3 DEF Retry, Retryable
  <2> HIDE DEF IInv, TypeOK
  <2> QED BY <1>2, <2>1, <2>2, <2>3, <2>4, <2>5, <2>6, <2>7 DEF Deliver, Promise!AbsNext
<1>3. ASSUME NEW w \in Workers, Network(w) PROVE [Promise!AbsNext]_(Promise!absVars)
  <2>1. ASSUME NEW k \in Keys, ErpProcesses(w, k) PROVE Promise!ErpLearns(k)
    <3>1. ledgerMap[k] # "none" /\ ledgerMap' = ledgerMap
      BY <2>1 DEF ErpProcesses, rows, OnlyPublishedIsSent, ledgerMap, LedgerOf, Statuses
    <3> QED BY <2>1, <3>1 DEF ErpProcesses, register, Promise!ErpLearns
  <2>2. ASSUME NEW k \in Keys, LosePost(w, k) PROVE UNCHANGED Promise!absVars
    BY <2>2, <1>s DEF LosePost, register, rows
  <2> QED BY <1>3, <2>1, <2>2 DEF Network, Promise!AbsNext
<1>4. ASSUME NEW k \in Keys, BackoffElapses(k) \/ Cancel(k)
      PROVE [Promise!AbsNext]_(Promise!absVars)
  <2>1. ASSUME BackoffElapses(k) PROVE UNCHANGED Promise!absVars
    BY <2>1, <1>s DEF BackoffElapses, register
  <2>2. ASSUME Cancel(k) PROVE Promise!Withdraw(k)
    <3>1. status' = [status EXCEPT ![k] = "cancelled"] /\ status[k] \in {"failed", "pending"}
      BY <2>2 DEF Cancel, Cancellable
    <3> QED BY <1>m, <2>2, <3>1 DEF Cancel, register, Promise!Withdraw, Promise!Move,
          LedgerOf, Statuses
  <2> QED BY <1>4, <2>1, <2>2 DEF Promise!AbsNext
<1>5. CASE UNCHANGED vars
  BY <1>5, <1>s DEF vars
<1> HIDE DEF IInv, TypeOK
<1> QED BY <1>1, <1>2, <1>3, <1>4, <1>5 DEF Next

\* The outbox keeps the promise made to the ERP and to the console.
THEOREM Refinement == Spec => ImplementsPromise
<1>1. Init => Promise!AbsInit
  BY DEF Init, Promise!AbsInit, ledgerMap, LedgerOf
<1> QED BY <1>1, RefinementStep, Invariant, PTL DEF Spec, ImplementsPromise, Promise!AbsSpec
=============================================================================
