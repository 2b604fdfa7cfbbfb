-------------------------- MODULE GmsInboundProofs --------------------------
(***************************************************************************)
(* What holds of the ERP's events and of reconciliation for any events,    *)
(* accounts, parcels, deliveries and runs.  Of a delivery: its key is its  *)
(* own until it commits, and the accounts it has locked stand as it        *)
(* compared them.  Of a run: what is settled is known to it as the checks  *)
(* go by, and an item it will not see is older than it.                    *)
(***************************************************************************)
EXTENDS GmsInbound, TLAPS

\* A delivery's event is not logged, nor under way elsewhere; the rows it has
\* locked are its own, and its writes are what the comparison still says.
Undecided(r) ==
    req[r].step = "handle" =>
        /\ req[r].event \in Ids
        /\ ~Logged(req[r].event)
        /\ req[r].todo \union req[r].held = RowsOf(req[r].event)
        /\ req[r].writes = {a \in ReadsOf(req[r].event) :
                              <<"account", a>> \in req[r].held /\ Overtakes(req[r].event, a)}

DeliveriesAreDue == \A r \in Requests : Undecided(r)

Apart(r, q) ==
    /\ req[r].held \intersect req[q].held = {}
    /\ req[r].step = "handle" /\ req[q].step = "handle" => ~SameKey(req[r].event, req[q].event)

DeliveriesApart == \A r, q \in Requests : r # q => Apart(r, q)

IdleHoldsNothing == \A r \in Requests : req[r].step = "idle" => req[r].held = {}

\* Where a run stands.
Steady(r) ==
    Active(r) =>
        /\ run[r].started \in 1..clock
        /\ run[r].step = "check" => run[r].cleared = {}
        /\ run[r].step = "clear" => run[r].next = 5
        /\ run[r].seen \intersect run[r].cleared = {}

\* What an active run knows of a settled problem k, and of what is settled not to be
\* a problem.
KnowsProblem(r, k) ==
    k[1] < run[r].next => k \in run[r].seen \/ (run[r].step = "check" /\ k \in run[r].todo)

KnowsNone(r, k) ==
    /\ k \notin run[r].seen
    /\ run[r].step = "check" => k \notin run[r].todo
    /\ item[k] < run[r].started
    /\ run[r].step = "clear" /\ item[k] > 0 => k \in run[r].todo \union run[r].cleared

Knows(r) ==
    Active(r) =>
        \A k \in Keys \ moved : IF k \in Problems(links, band) THEN KnowsProblem(r, k)
                                                               ELSE KnowsNone(r, k)

RunsKnow == \A r \in Runs : Steady(r) /\ Knows(r)

ItemsAreSeen == \A k \in Keys : item[k] <= clock

IInv ==
    /\ TypeOK
    /\ DeliveriesAreDue
    /\ DeliveriesApart
    /\ IdleHoldsNothing
    /\ RunsKnow
    /\ ItemsAreSeen

USE ParcelAssumption, EventAssumption, BoundAssumption

\* The types of the two records.
ReqType == [Requests -> [step : {"idle", "handle"}, event : Ids \union {NoEvent},
                         todo : SUBSET Rows, held : SUBSET Rows, writes : SUBSET Accounts]]
RunType == [Runs -> [step : {"idle", "check", "clear"}, started : Nat, next : 1..5,
                     todo : SUBSET Keys, seen : SUBSET Keys, cleared : SUBSET Keys]]

-----------------------------------------------------------------------------
(* What events say and checks find *)

\* A problem is found by the check whose number it carries, and by no other.
LEMMA CheckShape ==
  ASSUME NEW L \in SUBSET (Parcels \X Accounts), NEW B, NEW n \in 1..4
  PROVE  /\ Check(n, L, B) \subseteq Keys
         /\ \A k \in Check(n, L, B) : k[1] = n
<1>1. CASE n = 1
  BY <1>1 DEF Check, StructureNoAccount, Keys, Live
<1>2. CASE n = 2
  BY <1>2 DEF Check, AccountNoParcel, Keys
<1>3. CASE n = 3
  BY <1>3 DEF Check, AccountOnRetiredParcel, Keys
<1>4. CASE n = 4
  BY <1>4 DEF Check, DuplicateStandNo, Keys, Live
<1> QED BY <1>1, <1>2, <1>3, <1>4

\* Whatever a check finds is a key.
LEMMA ProblemsAreKeys ==
  \A B : \A L \in SUBSET (Parcels \X Accounts) : Problems(L, B) \subseteq Keys
<1> SUFFICES ASSUME NEW L \in SUBSET (Parcels \X Accounts), NEW B, NEW k \in Problems(L, B)
             PROVE  k \in Keys
  OBVIOUS
<1>1. PICK n \in 1..4 : k \in Check(n, L, B)
  BY DEF Problems
<1> QED BY <1>1, CheckShape

\* So the problems with number n are what check n finds.
LEMMA ProblemsByCheck ==
  ASSUME NEW L \in SUBSET (Parcels \X Accounts), NEW B, NEW n \in 1..4
  PROVE  \A k : k \in Check(n, L, B) <=> k \in Problems(L, B) /\ k[1] = n
<1>1. \A m \in 1..4 : \A k \in Check(m, L, B) : k[1] = m
  BY CheckShape
<1> QED BY <1>1 DEF Problems

\* Every key carries the number of a check.
LEMMA KeyNumber == \A k \in Keys : k[1] \in 1..4
  BY DEF Keys

LEMMA OutcomeTyped == \A e \in Ids : OutcomeOf(e) \in Outcomes
  BY DEF OutcomeOf, Outcome, Outcomes

\* An event speaks of parcels and accounts there are.
LEMMA EventShape ==
  ASSUME NEW e \in Ids
  PROVE  /\ RowsOf(e) \subseteq Rows
         /\ MakesLink(e) \subseteq Parcels \X Accounts
         /\ ReadsOf(e) \subseteq Accounts
         /\ \A a \in ReadsOf(e) : Events[e].reads[a] \in Readings
<1>1. ReadsOf(e) \subseteq Accounts /\ \A a \in ReadsOf(e) : Events[e].reads[a] \in Readings
  BY DEF ReadsOf
<1>2. RowsOf(e) \subseteq Rows
  BY <1>1 DEF RowsOf, Rows
<1>3. MakesLink(e) \subseteq Parcels \X Accounts
  BY DEF MakesLink, Known
<1> QED BY <1>1, <1>2, <1>3

-----------------------------------------------------------------------------
\* No event is logged, and no delivery or run under way, when the system starts.
LEMMA InitInv == Init => IInv
<1> SUFFICES ASSUME Init PROVE IInv
  OBVIOUS
<1>1. band \in [Accounts -> Readings]
  BY DEF Init, NoReading, Readings, Bands
<1>2. req \in ReqType /\ run \in RunType
  BY DEF Init, Waiting, NoRun, RunAt, ReqType, RunType
<1>3. TypeOK
  BY <1>1, <1>2 DEF Init, TypeOK, ReqType, RunType, Outcomes
<1>4. DeliveriesAreDue /\ DeliveriesApart /\ IdleHoldsNothing
  BY DEF Init, DeliveriesAreDue, Undecided, DeliveriesApart, Apart, IdleHoldsNothing, Waiting
<1>5. RunsKnow /\ ItemsAreSeen
  BY DEF Init, RunsKnow, Steady, Knows, Active, NoRun, RunAt, ItemsAreSeen
<1> QED BY <1>3, <1>4, <1>5 DEF IInv

-----------------------------------------------------------------------------
(* Deliveries *)

\* What a delivery's own step keeps of reconciliation.
LEMMA ReconKept ==
  ASSUME IInv, UNCHANGED <<recon, links, band, moved>>
  PROVE  RunsKnow' /\ ItemsAreSeen'
<1>1. item' = item /\ run' = run /\ clock' = clock /\ moved' = moved
      /\ links' = links /\ band' = band
  BY DEF recon
<1>2. Problems(links, band)' = Problems(links, band)
  BY <1>1
<1>3. \A r \in Runs : Steady(r)' = Steady(r)
  BY <1>1 DEF Steady, Active
<1>4. \A r \in Runs : Knows(r)' = Knows(r)
  BY <1>1, <1>2 DEF Knows, KnowsProblem, KnowsNone, Active
<1> QED BY <1>1, <1>3, <1>4 DEF IInv, RunsKnow, ItemsAreSeen

\* And of the other deliveries, when it neither logs nor changes a reading.
LEMMA OtherDeliveries ==
  ASSUME IInv, NEW r \in Requests, NEW to, req' = [req EXCEPT ![r] = to],
         log' = log, band' = band,
         Undecided(r)',
         \A q \in Requests \ {r} :
             /\ to.held \intersect req[q].held = {}
             /\ to.step = "handle" /\ req[q].step = "handle" => ~SameKey(to.event, req[q].event),
         to.step = "idle" => to.held = {}
  PROVE  DeliveriesAreDue' /\ DeliveriesApart' /\ IdleHoldsNothing'
<1>1. req \in ReqType
  BY DEF IInv, TypeOK, ReqType
<1>2. req'[r] = to /\ \A q \in Requests \ {r} : req'[q] = req[q]
  BY <1>1 DEF ReqType
<1>3. ASSUME NEW q \in Requests \ {r} PROVE Undecided(q)'
  <2>1. Undecided(q) /\ req'[q] = req[q]
    BY <1>2 DEF IInv, DeliveriesAreDue
  <2> QED BY <2>1 DEF Undecided, Logged, Overtakes
<1>4. DeliveriesAreDue'
  BY <1>3 DEF DeliveriesAreDue
<1>5. \A d, e \in Ids : SameKey(d, e) = SameKey(e, d)
  BY DEF SameKey
<1>6. ASSUME NEW p \in Requests, NEW q \in Requests, p # q PROVE Apart(p, q)'
  <2>1. CASE p = r
    BY <1>2, <1>6, <2>1 DEF Apart
  <2>2. CASE q = r
    <3>1. SameKey(to.event, req[p].event) = SameKey(req[p].event, to.event)
      BY DEF SameKey
    <3> QED BY <1>2, <1>6, <2>2, <3>1 DEF Apart
  <2>3. CASE p # r /\ q # r
    <3>1. Apart(p, q) /\ req'[p] = req[p] /\ req'[q] = req[q]
      BY <1>2, <1>6, <2>3 DEF IInv, DeliveriesApart
    <3> QED BY <3>1 DEF Apart
  <2> QED BY <2>1, <2>2, <2>3
<1>7. IdleHoldsNothing'
  BY <1>2 DEF IInv, IdleHoldsNothing
<1> QED BY <1>4, <1>6, <1>7 DEF DeliveriesApart

\* A delivery starts with a key of its own, and no rows.
LEMMA ReceiveInv ==
  ASSUME IInv, NEW r \in Requests, NEW e \in Ids, Receive(r, e) PROVE IInv'
<1> DEFINE to == Handling(e, RowsOf(e), {}, {})
<1>1. /\ to.step = "handle" /\ to.event = e /\ to.todo = RowsOf(e)
      /\ to.held = {} /\ to.writes = {}
  BY DEF Handling
<1>2. RowsOf(e) \in SUBSET Rows
  BY EventShape
<1>3. to \in [step : {"idle", "handle"}, event : Ids \union {NoEvent},
              todo : SUBSET Rows, held : SUBSET Rows, writes : SUBSET Accounts]
  BY <1>2 DEF Handling
<1>4. req' = [req EXCEPT ![r] = to] /\ UNCHANGED <<log, links, band, recon, moved>>
  BY DEF Receive, Goto
<1> HIDE DEF to
<1>5. req \in ReqType /\ req' \in ReqType /\ req'[r] = to
  BY <1>3, <1>4 DEF IInv, TypeOK, ReqType
<1>6. TypeOK'
  BY <1>4, <1>5 DEF IInv, TypeOK, ReqType, recon
<1>7. Undecided(r)'
  <2>1. ~Logged(e)'
    BY <1>4 DEF Receive, Logged
  <2> QED BY <1>1, <1>5, <2>1 DEF Undecided
<1>8. \A q \in Requests \ {r} : req[q].step = "handle" => ~SameKey(to.event, req[q].event)
  BY <1>1 DEF Receive, KeyFree, SameKey
<1>9. DeliveriesAreDue' /\ DeliveriesApart' /\ IdleHoldsNothing'
  BY <1>1, <1>4, <1>7, <1>8, OtherDeliveries
<1> QED BY <1>4, <1>6, <1>9, ReconKept DEF IInv

\* A row it locks is its own, and compared as it stands.
LEMMA HandleInv ==
  ASSUME IInv, NEW r \in Requests, NEW x \in req[r].todo, HandleRow(r, x),
         NEW e, e = req[r].event
  PROVE  IInv'
<1> DEFINE W == {a \in ReadsOf(e) : x = <<"account", a>> /\ Overtakes(e, a)}
           to == Handling(e, req[r].todo \ {x}, req[r].held \union {x}, req[r].writes \union W)
<1>1. /\ to.step = "handle" /\ to.event = e /\ to.todo = req[r].todo \ {x}
      /\ to.held = req[r].held \union {x} /\ to.writes = req[r].writes \union W
  BY DEF Handling
<1>2. req[r].step = "handle" /\ FreeOf(r, x)
      /\ req' = [req EXCEPT ![r] = to] /\ UNCHANGED <<log, links, band, recon, moved>>
  BY DEF HandleRow, Goto
<1>3. Undecided(r) /\ e \in Ids
  BY <1>2 DEF IInv, DeliveriesAreDue, Undecided
<1>4. req[r] \in [step : {"idle", "handle"}, event : Ids \union {NoEvent},
                  todo : SUBSET Rows, held : SUBSET Rows, writes : SUBSET Accounts]
  BY DEF IInv, TypeOK
<1>5. to \in [step : {"idle", "handle"}, event : Ids \union {NoEvent},
              todo : SUBSET Rows, held : SUBSET Rows, writes : SUBSET Accounts]
  <2>1. W \subseteq Accounts
    BY <1>3, EventShape
  <2>2. req[r].writes \union W \in SUBSET Accounts /\ req[r].held \union {x} \in SUBSET Rows
        /\ req[r].todo \ {x} \in SUBSET Rows
    BY <1>4, <2>1
  <2> QED BY <1>3, <2>2 DEF Handling
<1> HIDE DEF to, W
<1>6. req \in ReqType /\ req' \in ReqType /\ req'[r] = to
  BY <1>2, <1>5 DEF IInv, TypeOK, ReqType
<1>7. TypeOK'
  BY <1>2, <1>6 DEF IInv, TypeOK, ReqType, recon
<1>8. Undecided(r)'
  <2>1. /\ \A d \in Ids : Logged(d)' = Logged(d)
        /\ \A d \in Ids, a \in Accounts : Overtakes(d, a)' = Overtakes(d, a)
    BY <1>2 DEF Logged, Overtakes
  <2>2. to.todo \union to.held = RowsOf(e)
    BY <1>1, <1>2, <1>3 DEF Undecided
  <2>3. to.writes = {a \in ReadsOf(e) : <<"account", a>> \in to.held /\ Overtakes(e, a)}
    BY <1>1, <1>2, <1>3 DEF Undecided, W
  <2>4. ~Logged(e) /\ ReadsOf(e) \subseteq Accounts
    BY <1>2, <1>3, EventShape DEF Undecided
  <2>5. ~Logged(e)' /\ \A a \in ReadsOf(e) : Overtakes(e, a)' = Overtakes(e, a)
    BY <1>3, <2>1, <2>4
  <2>6. to.writes = {a \in ReadsOf(e) : <<"account", a>> \in to.held /\ Overtakes(e, a)'}
    BY <2>3, <2>5
  <2> QED BY <1>1, <1>3, <1>6, <2>2, <2>5, <2>6 DEF Undecided
<1>9. ASSUME NEW q \in Requests \ {r}
      PROVE  /\ to.held \intersect req[q].held = {}
             /\ to.step = "handle" /\ req[q].step = "handle" => ~SameKey(to.event, req[q].event)
  <2>1. Apart(r, q) /\ x \notin req[q].held
    BY <1>2 DEF IInv, DeliveriesApart, FreeOf
  <2> QED BY <1>1, <1>2, <2>1 DEF Apart
<1>10. DeliveriesAreDue' /\ DeliveriesApart' /\ IdleHoldsNothing'
  BY <1>1, <1>2, <1>8, <1>9, OtherDeliveries
<1> QED BY <1>2, <1>7, <1>10, ReconKept DEF IInv

\* A delivery that fails gives everything back.
LEMMA FailDeliveryInv ==
  ASSUME IInv, NEW r \in Requests, FailDelivery(r) PROVE IInv'
<1>1. /\ Waiting.step = "idle" /\ Waiting.held = {}
      /\ req' = [req EXCEPT ![r] = Waiting] /\ UNCHANGED <<log, links, band, recon, moved>>
  BY DEF FailDelivery, Goto, Waiting
<1>2. Waiting \in [step : {"idle", "handle"}, event : Ids \union {NoEvent},
                   todo : SUBSET Rows, held : SUBSET Rows, writes : SUBSET Accounts]
  BY DEF Waiting
<1>3. req \in ReqType /\ req' \in ReqType /\ req'[r] = Waiting
  BY <1>1, <1>2 DEF IInv, TypeOK, ReqType
<1>4. TypeOK'
  BY <1>1, <1>3 DEF IInv, TypeOK, ReqType, recon
<1>5. Undecided(r)'
  BY <1>1, <1>3 DEF Undecided
<1>6. DeliveriesAreDue' /\ DeliveriesApart' /\ IdleHoldsNothing'
  BY <1>1, <1>5, OtherDeliveries
<1> QED BY <1>1, <1>4, <1>6, ReconKept DEF IInv

\* What a commit writes: the readings its delivery found newer, which no other
\* delivery has compared.
LEMMA CommitEffect ==
  ASSUME IInv, NEW r \in Requests, CommitEvent(r), NEW e, e = req[r].event
  PROVE  /\ e \in Ids /\ ~Logged(e) /\ Undecided(r) /\ req[r].step = "handle"
         /\ log' = [log EXCEPT ![e] = OutcomeOf(e)]
         /\ links' = links \union MakesLink(e)
         /\ band' = [a \in Accounts |-> IF a \in ReadsOf(e) /\ Overtakes(e, a)
                                           THEN Events[e].reads[a] ELSE band[a]]
         /\ req' = [req EXCEPT ![r] = Waiting]
         /\ UNCHANGED recon
<1>1. /\ req[r].step = "handle" /\ req[r].todo = {}
      /\ log' = [log EXCEPT ![e] = OutcomeOf(e)]
      /\ links' = links \union MakesLink(e)
      /\ band' = [a \in Accounts |-> IF a \in req[r].writes THEN Events[e].reads[a] ELSE band[a]]
      /\ req' = [req EXCEPT ![r] = Waiting] /\ UNCHANGED recon
  BY DEF CommitEvent, Goto
<1>2. Undecided(r)
  BY DEF IInv, DeliveriesAreDue
<1>3. e \in Ids /\ ~Logged(e) /\ req[r].held = RowsOf(e)
  BY <1>1, <1>2 DEF Undecided
<1>4. \A a \in ReadsOf(e) : <<"account", a>> \in RowsOf(e)
  BY DEF RowsOf, ReadsOf
<1>5. req[r].writes = {a \in ReadsOf(e) : Overtakes(e, a)}
  BY <1>1, <1>2, <1>3, <1>4 DEF Undecided
<1> QED BY <1>1, <1>2, <1>3, <1>5

\* What is settled for a run is settled still, and the other deliveries' comparisons
\* stand.
LEMMA CommitEventInv ==
  ASSUME IInv, NEW r \in Requests, CommitEvent(r), NEW e, e = req[r].event
  PROVE  IInv'
<1>1. /\ e \in Ids /\ ~Logged(e) /\ Undecided(r) /\ req[r].step = "handle"
      /\ log' = [log EXCEPT ![e] = OutcomeOf(e)]
      /\ links' = links \union MakesLink(e)
      /\ band' = [a \in Accounts |-> IF a \in ReadsOf(e) /\ Overtakes(e, a)
                                        THEN Events[e].reads[a] ELSE band[a]]
      /\ req' = [req EXCEPT ![r] = Waiting]
      /\ item' = item /\ run' = run /\ clock' = clock
  BY CommitEffect DEF recon
<1>2. /\ MakesLink(e) \subseteq Parcels \X Accounts
      /\ ReadsOf(e) \subseteq Accounts /\ \A a \in ReadsOf(e) : Events[e].reads[a] \in Readings
      /\ OutcomeOf(e) \in Outcomes
  BY <1>1, EventShape, OutcomeTyped
<1>3. Waiting.step = "idle" /\ Waiting.held = {}
      /\ Waiting \in [step : {"idle", "handle"}, event : Ids \union {NoEvent},
                       todo : SUBSET Rows, held : SUBSET Rows, writes : SUBSET Accounts]
  BY DEF Waiting
<1>4. req \in ReqType /\ req' \in ReqType /\ req'[r] = Waiting
      /\ \A q \in Requests \ {r} : req'[q] = req[q]
  BY <1>1, <1>3 DEF IInv, TypeOK, ReqType
<1>5. links \in SUBSET (Parcels \X Accounts) /\ links' \in SUBSET (Parcels \X Accounts)
  BY <1>1, <1>2 DEF IInv, TypeOK
<1>6. moved' \subseteq Keys
      /\ moved' = moved \union (Problems(links, band) \ Problems(links', band'))
                       \union (Problems(links', band') \ Problems(links, band))
  <2>1. Problems(links, band) \subseteq Keys
    BY <1>5, ProblemsAreKeys
  <2>2. Problems(links', band') \subseteq Keys
    BY <1>5, ProblemsAreKeys
  <2> QED BY <2>1, <2>2 DEF CommitEvent, IInv, TypeOK
<1>7. log' \in [Ids -> Outcomes \union {"none"}] /\ band' \in [Accounts -> Readings]
  BY <1>1, <1>2 DEF IInv, TypeOK
<1>8. TypeOK'
  BY <1>1, <1>4, <1>5, <1>6, <1>7 DEF IInv, TypeOK, ReqType
<1>9. DeliveriesAreDue'
  <2> SUFFICES ASSUME NEW q \in Requests, req'[q].step = "handle" PROVE Undecided(q)'
    BY DEF DeliveriesAreDue, Undecided
  <2>1. q # r /\ req'[q] = req[q] /\ Undecided(q) /\ Apart(q, r) /\ req[q].step = "handle"
    BY <1>3, <1>4 DEF IInv, DeliveriesAreDue, DeliveriesApart
  <2> DEFINE d == req[q].event
  <2>2. d \in Ids /\ ~Logged(d) /\ ~SameKey(d, e)
    BY <1>1, <2>1 DEF Undecided, Apart
  <2>3. \A c \in Ids : SameKey(c, d) => c # e /\ log'[c] = log[c]
    BY <1>1, <2>2 DEF SameKey, IInv, TypeOK
  <2>4. ~(\E c \in Ids : log'[c] # "none" /\ SameKey(c, d))
    BY <2>2, <2>3 DEF Logged
  <2>5. req[r].held = RowsOf(e)
    BY <1>1 DEF Undecided, CommitEvent
  <2>6. ASSUME NEW a \in Accounts, <<"account", a>> \in req[q].held PROVE band'[a] = band[a]
    <3>1. <<"account", a>> \notin RowsOf(e)
      BY <2>1, <2>5, <2>6 DEF Apart
    <3>2. a \notin ReadsOf(e)
      BY <3>1 DEF RowsOf, ReadsOf
    <3> QED BY <1>1, <3>2
  <2>7. ReadsOf(d) \subseteq Accounts
    BY <2>2, EventShape
  <2>8. req[q].writes = {a \in ReadsOf(d) : <<"account", a>> \in req[q].held
                                           /\ band'[a].at <= Events[d].reads[a].at}
    BY <2>1, <2>6, <2>7 DEF Undecided, Overtakes
  <2>9. req[q].todo \union req[q].held = RowsOf(d)
    BY <2>1 DEF Undecided
  <2> QED BY <2>1, <2>2, <2>4, <2>8, <2>9 DEF Undecided, Logged, Overtakes
<1>10. DeliveriesApart' /\ IdleHoldsNothing'
  <2>1. IdleHoldsNothing'
    BY <1>3, <1>4 DEF IInv, IdleHoldsNothing
  <2>2. ASSUME NEW p \in Requests, NEW q \in Requests, p # q PROVE Apart(p, q)'
    <3>1. CASE p # r /\ q # r
      BY <1>4, <2>2, <3>1 DEF IInv, DeliveriesApart, Apart
    <3>2. CASE p = r \/ q = r
      BY <1>3, <1>4, <2>2, <3>2 DEF Apart
    <3> QED BY <3>1, <3>2
  <2> QED BY <2>1, <2>2 DEF DeliveriesApart
<1>11. RunsKnow' /\ ItemsAreSeen'
  <2>1. moved \subseteq moved'
        /\ \A k \in Keys \ moved' : k \in Problems(links, band) <=> k \in Problems(links', band')
    BY <1>6
  <2>2. \A q \in Runs : Steady(q)' = Steady(q)
    BY <1>1 DEF Steady, Active
  <2>3. ASSUME NEW q \in Runs PROVE Knows(q)'
    <3> SUFFICES ASSUME Active(q)', NEW k \in Keys \ moved'
                 PROVE  IF k \in Problems(links', band') THEN KnowsProblem(q, k)' ELSE KnowsNone(q, k)'
      BY DEF Knows
    <3>1. Active(q) /\ k \in Keys \ moved /\ Knows(q)
      BY <1>1, <2>1 DEF Active, IInv, RunsKnow
    <3>2. KnowsProblem(q, k)' = KnowsProblem(q, k) /\ KnowsNone(q, k)' = KnowsNone(q, k)
      BY <1>1 DEF KnowsProblem, KnowsNone
    <3> QED BY <2>1, <3>1, <3>2 DEF Knows
  <2> QED BY <1>1, <2>2, <2>3 DEF IInv, RunsKnow, ItemsAreSeen
<1> QED BY <1>8, <1>9, <1>10, <1>11 DEF IInv

-----------------------------------------------------------------------------
(* Reconciliation *)

\* A run's step keeps the deliveries, and what the other runs know while it writes
\* no item.
LEMMA RunStep ==
  ASSUME IInv, NEW r \in Runs,
         NEW to \in [step : {"idle", "check", "clear"}, started : Nat, next : 1..5,
                     todo : SUBSET Keys, seen : SUBSET Keys, cleared : SUBSET Keys],
         run' = [run EXCEPT ![r] = to], UNCHANGED <<erp, item, clock, moved>>,
         Steady(r)', Knows(r)'
  PROVE  IInv'
<1>1. run \in RunType /\ run' \in RunType
  BY DEF IInv, TypeOK, RunType
<1>2. /\ log' = log /\ links' = links /\ band' = band /\ req' = req
      /\ item' = item /\ clock' = clock /\ moved' = moved
  BY DEF erp
<1>3. TypeOK'
  BY <1>1, <1>2 DEF IInv, TypeOK, RunType
<1>4. DeliveriesAreDue' /\ DeliveriesApart' /\ IdleHoldsNothing' /\ ItemsAreSeen'
  BY <1>2 DEF IInv, DeliveriesAreDue, Undecided, Logged, Overtakes, DeliveriesApart, Apart,
     IdleHoldsNothing, ItemsAreSeen
<1>5. ASSUME NEW q \in Runs \ {r} PROVE Steady(q)' /\ Knows(q)'
  <2>1. run'[q] = run[q] /\ Steady(q) /\ Knows(q)
    BY <1>1 DEF IInv, RunsKnow, RunType
  <2> QED BY <1>2, <2>1 DEF Steady, Knows, KnowsProblem, KnowsNone, Active
<1> QED BY <1>3, <1>4, <1>5 DEF IInv, RunsKnow

\* The values of what a step does not write.
LEMMA RunTyped ==
  ASSUME IInv, NEW r \in Runs
  PROVE  /\ run[r] \in [step : {"idle", "check", "clear"}, started : Nat, next : 1..5,
                         todo : SUBSET Keys, seen : SUBSET Keys, cleared : SUBSET Keys]
         /\ \A to : [run EXCEPT ![r] = to][r] = to
         /\ links \in SUBSET (Parcels \X Accounts)
         /\ clock \in Nat /\ item \in [Keys -> Nat] /\ Steady(r) /\ Knows(r)
  BY DEF IInv, TypeOK, RunsKnow

\* The type of a run's record.
RunRecord == [step : {"idle", "check", "clear"}, started : Nat, next : 1..5,
              todo : SUBSET Keys, seen : SUBSET Keys, cleared : SUBSET Keys]

\* A run that begins is later than every item, and everything settled is settled for
\* it too.
LEMMA BeginInv == ASSUME IInv, NEW r \in Runs, BeginRun(r) PROVE IInv'
<1> DEFINE to == RunAt("check", clock', 1, {}, {}, {})
<1>1. /\ run[r].step = "idle" /\ clock' = clock + 1
      /\ run' = [run EXCEPT ![r] = to]
      /\ moved' = IF \E q \in Runs : Active(q) THEN moved ELSE {}
      /\ log' = log /\ links' = links /\ band' = band /\ req' = req /\ item' = item
  BY DEF BeginRun, RunTo, erp
<1>2. /\ to.step = "check" /\ to.started = clock' /\ to.next = 1
      /\ to.todo = {} /\ to.seen = {} /\ to.cleared = {}
      /\ clock \in Nat /\ clock' \in Nat
      /\ to \in [step : {"idle", "check", "clear"}, started : Nat, next : 1..5,
                 todo : SUBSET Keys, seen : SUBSET Keys, cleared : SUBSET Keys]
  BY <1>1 DEF RunAt, IInv, TypeOK
<1> HIDE DEF to
<1>3. run \in RunType /\ run' \in RunType /\ run'[r] = to
      /\ \A q \in Runs \ {r} : run'[q] = run[q]
  BY <1>1, <1>2 DEF IInv, TypeOK, RunType
<1>4. TypeOK'
  BY <1>1, <1>2, <1>3 DEF IInv, TypeOK, RunType
<1>5. DeliveriesAreDue' /\ DeliveriesApart' /\ IdleHoldsNothing'
  BY <1>1 DEF IInv, DeliveriesAreDue, Undecided, Logged, Overtakes, DeliveriesApart, Apart,
     IdleHoldsNothing
<1>6. ItemsAreSeen' /\ \A k \in Keys : item[k] < clock'
  BY <1>1, <1>2 DEF IInv, TypeOK, ItemsAreSeen
<1>7. Steady(r)'
  BY <1>1, <1>2, <1>3 DEF Steady, Active
<1>8. Knows(r)'
  BY <1>1, <1>2, <1>3, <1>6, KeyNumber DEF Knows, KnowsProblem, KnowsNone
<1>9. ASSUME NEW q \in Runs \ {r} PROVE Steady(q)' /\ Knows(q)'
  <2>1. Steady(q) /\ Knows(q) /\ run'[q] = run[q] /\ run[q].started \in Nat
    BY <1>3 DEF IInv, RunsKnow, TypeOK
  <2>2. Steady(q)'
    BY <1>1, <1>2, <2>1 DEF Steady, Active
  <2>3. Active(q) => moved' = moved
    BY <1>1
  <2>4. Knows(q)'
    BY <1>1, <2>1, <2>3 DEF Knows, KnowsProblem, KnowsNone, Active
  <2> QED BY <2>2, <2>4
<1> QED BY <1>4, <1>5, <1>6, <1>7, <1>8, <1>9 DEF IInv, RunsKnow

\* A check finds the problems of its number, and nothing else.
LEMMA CheckInv == ASSUME IInv, NEW r \in Runs, RunCheck(r) PROVE IInv'
<1> DEFINE n == run[r].next
           to == [run[r] EXCEPT !.next = n + 1, !.todo = Check(n, links, band)]
<1>1. run[r].step = "check" /\ run[r].todo = {} /\ n \in 1..4
      /\ run' = [run EXCEPT ![r] = to] /\ UNCHANGED <<erp, item, clock, moved>>
  BY RunTyped DEF RunCheck, RunTo
<1>2. Check(n, links, band) \subseteq Keys
      /\ \A k \in Keys : k \in Check(n, links, band) <=> k \in Problems(links, band) /\ k[1] = n
  <2>1. links \in SUBSET (Parcels \X Accounts)
    BY RunTyped
  <2>2. Check(n, links, band) \subseteq Keys
    BY <1>1, <2>1, CheckShape
  <2>3. \A k : k \in Check(n, links, band) <=> k \in Problems(links, band) /\ k[1] = n
    <3>1. n \in 1..4
      BY <1>1
    <3> HIDE DEF n
    <3> QED BY <2>1, <3>1, ProblemsByCheck
  <2> QED BY <2>2, <2>3
<1>3. /\ to.step = "check" /\ to.next = n + 1 /\ to.todo = Check(n, links, band)
      /\ to.started = run[r].started /\ to.seen = run[r].seen /\ to.cleared = run[r].cleared
      /\ to \in RunRecord
  <2>1. run[r] \in RunRecord /\ n + 1 \in 1..5
    BY <1>1, RunTyped DEF RunRecord
  <2>2. to \in RunRecord
    BY <1>2, <2>1 DEF RunRecord
  <2> QED BY <1>1, <2>1, <2>2 DEF RunRecord
<1> HIDE DEF to
<1>4. run'[r] = to
  BY <1>1, RunTyped
<1>5. Steady(r)'
  BY <1>1, <1>3, <1>4, RunTyped DEF Steady, Active
<1>6. Knows(r)'
  <2> SUFFICES ASSUME NEW k \in Keys \ moved
               PROVE  IF k \in Problems(links, band) THEN KnowsProblem(r, k)' ELSE KnowsNone(r, k)'
    BY <1>1 DEF Knows, erp
  <2>1. IF k \in Problems(links, band) THEN KnowsProblem(r, k) ELSE KnowsNone(r, k)
    BY <1>1, RunTyped DEF Knows, Active
  <2>2. k[1] \in 1..4 /\ item'[k] = item[k]
    BY <1>1, KeyNumber
  <2>3. CASE k \in Problems(links, band)
    BY <1>1, <1>2, <1>3, <1>4, <2>1, <2>2, <2>3 DEF KnowsProblem
  <2>4. CASE k \notin Problems(links, band)
    BY <1>1, <1>2, <1>3, <1>4, <2>1, <2>2, <2>4 DEF KnowsNone
  <2> QED BY <2>3, <2>4
<1> QED BY <1>1, <1>3, <1>5, <1>6, RunStep DEF RunRecord

\* What was found is seen.
LEMMA UpsertInv ==
  ASSUME IInv, NEW r \in Runs, NEW k \in run[r].todo, Upsert(r, k) PROVE IInv'
<1> DEFINE to == [run[r] EXCEPT !.todo = @ \ {k}, !.seen = @ \union {k}]
<1>1. run[r].step = "check" /\ k \in Keys
      /\ run' = [run EXCEPT ![r] = to] /\ UNCHANGED <<erp, item, clock, moved>>
  BY RunTyped DEF Upsert, RunTo
<1>2. /\ to.step = "check" /\ to.next = run[r].next /\ to.started = run[r].started
      /\ to.todo = run[r].todo \ {k} /\ to.seen = run[r].seen \union {k}
      /\ to.cleared = run[r].cleared
      /\ to \in RunRecord
  <2>1. /\ run[r] \in RunRecord
        /\ run[r].todo \ {k} \in SUBSET Keys /\ run[r].seen \union {k} \in SUBSET Keys
    BY <1>1, RunTyped DEF RunRecord
  <2>2. to \in RunRecord
    BY <2>1 DEF RunRecord
  <2> QED BY <1>1, <2>1, <2>2 DEF RunRecord
<1> HIDE DEF to
<1>3. run'[r] = to
  BY <1>1, RunTyped
<1>4. Steady(r)'
  BY <1>1, <1>2, <1>3, RunTyped DEF Steady, Active
<1>5. Knows(r)'
  BY <1>1, <1>2, <1>3, RunTyped DEF Knows, KnowsProblem, KnowsNone, Active, erp
<1> QED BY <1>1, <1>2, <1>4, <1>5, RunStep DEF RunRecord

\* Every open item of what is settled not to be a problem is older than the run.
LEMMA FindStaleInv == ASSUME IInv, NEW r \in Runs, FindStale(r) PROVE IInv'
<1> DEFINE S == {k \in Keys : Stale(r, k)}
           to == [run[r] EXCEPT !.step = "clear", !.todo = S]
<1>1. run[r].step = "check" /\ run[r].todo = {} /\ run[r].next = 5
      /\ run' = [run EXCEPT ![r] = to] /\ UNCHANGED <<erp, item, clock, moved>>
  BY DEF FindStale, RunTo
<1>2. \A k \in Keys : /\ k \notin run[r].seen /\ item[k] > 0 /\ item[k] < run[r].started => k \in S
                      /\ k \in S => item[k] > 0
  BY RunTyped DEF Stale, LastSeen
<1>3. S \subseteq Keys
  OBVIOUS
<1> HIDE DEF S
<1>4. /\ to.step = "clear" /\ to.next = 5 /\ to.todo = S /\ to.started = run[r].started
      /\ to.seen = run[r].seen /\ to.cleared = run[r].cleared
      /\ to \in RunRecord
  <2>1. run[r] \in RunRecord
    BY RunTyped DEF RunRecord
  <2>2. to \in RunRecord
    BY <1>3, <2>1 DEF RunRecord
  <2> QED BY <1>1, <2>1, <2>2 DEF RunRecord
<1> HIDE DEF to
<1>5. run'[r] = to
  BY <1>1, RunTyped
<1>6. Steady(r)'
  BY <1>1, <1>4, <1>5, RunTyped DEF Steady, Active
<1>7. Knows(r)'
  <2> SUFFICES ASSUME NEW k \in Keys \ moved
               PROVE  IF k \in Problems(links, band) THEN KnowsProblem(r, k)' ELSE KnowsNone(r, k)'
    BY <1>1 DEF Knows, erp
  <2>1. IF k \in Problems(links, band) THEN KnowsProblem(r, k) ELSE KnowsNone(r, k)
    BY <1>1, RunTyped DEF Knows, Active
  <2>2. k[1] \in 1..4 /\ item'[k] = item[k]
    BY <1>1, KeyNumber
  <2>3. CASE k \in Problems(links, band)
    BY <1>1, <1>4, <1>5, <2>1, <2>2, <2>3 DEF KnowsProblem
  <2>4. CASE k \notin Problems(links, band)
    BY <1>1, <1>2, <1>4, <1>5, <2>1, <2>2, <2>4 DEF KnowsNone
  <2> QED BY <2>3, <2>4
<1> QED BY <1>1, <1>4, <1>6, <1>7, RunStep DEF RunRecord

\* A row is tested again once it is locked: what is settled not to be a problem is
\* cleared, unless somebody else has.
LEMMA ClearInv ==
  ASSUME IInv, NEW r \in Runs, NEW k \in run[r].todo, ClearItem(r, k) PROVE IInv'
<1> DEFINE C == IF Stale(r, k) THEN run[r].cleared \union {k} ELSE run[r].cleared
           to == [run[r] EXCEPT !.todo = @ \ {k}, !.cleared = C]
<1>1. run[r].step = "clear" /\ k \in Keys
      /\ run' = [run EXCEPT ![r] = to] /\ UNCHANGED <<erp, item, clock, moved>>
  BY RunTyped DEF ClearItem, RunTo
<1>2. /\ C \in SUBSET Keys /\ run[r].cleared \subseteq C
      /\ C \intersect run[r].seen = {}
      /\ k \notin run[r].seen /\ item[k] > 0 /\ item[k] < run[r].started => k \in C
  BY <1>1, RunTyped DEF Stale, LastSeen, Steady, Active
<1> HIDE DEF C
<1>3. /\ to.step = "clear" /\ to.next = run[r].next /\ to.started = run[r].started
      /\ to.todo = run[r].todo \ {k} /\ to.seen = run[r].seen /\ to.cleared = C
      /\ to \in RunRecord
  <2>1. run[r] \in RunRecord /\ run[r].todo \ {k} \in SUBSET Keys
    BY <1>1, RunTyped DEF RunRecord
  <2>2. to \in RunRecord
    BY <1>2, <2>1 DEF RunRecord
  <2> QED BY <1>1, <2>1, <2>2 DEF RunRecord
<1> HIDE DEF to
<1>4. run'[r] = to
  BY <1>1, RunTyped
<1>5. Steady(r)'
  BY <1>1, <1>2, <1>3, <1>4, RunTyped DEF Steady, Active
<1>6. Knows(r)'
  <2> SUFFICES ASSUME NEW j \in Keys \ moved
               PROVE  IF j \in Problems(links, band) THEN KnowsProblem(r, j)' ELSE KnowsNone(r, j)'
    BY <1>1 DEF Knows, erp
  <2>1. IF j \in Problems(links, band) THEN KnowsProblem(r, j) ELSE KnowsNone(r, j)
    BY <1>1, RunTyped DEF Knows, Active
  <2>2. CASE j \in Problems(links, band)
    BY <1>1, <1>3, <1>4, <2>1, <2>2 DEF KnowsProblem
  <2>3. CASE j \notin Problems(links, band)
    BY <1>1, <1>2, <1>3, <1>4, <2>1, <2>3 DEF KnowsNone
  <2> QED BY <2>2, <2>3
<1> QED BY <1>1, <1>3, <1>5, <1>6, RunStep DEF RunRecord

\* A run that fails knows nothing and holds nothing.
LEMMA FailRunInv == ASSUME IInv, NEW r \in Runs, FailRun(r) PROVE IInv'
<1>1. /\ NoRun.step = "idle" /\ NoRun \in RunRecord
      /\ run' = [run EXCEPT ![r] = NoRun] /\ UNCHANGED <<erp, item, clock, moved>>
  BY DEF FailRun, RunTo, NoRun, RunAt, RunRecord
<1>2. run'[r] = NoRun
  BY <1>1, RunTyped
<1>3. Steady(r)' /\ Knows(r)'
  BY <1>1, <1>2 DEF Steady, Knows, Active
<1> QED BY <1>1, <1>3, RunStep DEF RunRecord

\* What a commit leaves open of what is settled: the problems.
LEMMA CommitIsExact ==
  ASSUME IInv, NEW r \in Runs, CommitRun(r), NEW k \in Keys \ moved
  PROVE  item'[k] > 0 <=> k \in Problems(links, band)
<1>1. /\ run[r].step = "clear" /\ run[r].todo = {}
      /\ item'[k] = IF k \in run[r].cleared THEN 0
                    ELSE IF k \in run[r].seen THEN run[r].started ELSE item[k]
  BY DEF CommitRun
<1>2. /\ IF k \in Problems(links, band) THEN KnowsProblem(r, k) ELSE KnowsNone(r, k)
      /\ run[r].next = 5 /\ run[r].started \in 1..clock
      /\ run[r].seen \intersect run[r].cleared = {}
  BY <1>1, RunTyped DEF Knows, Steady, Active
<1>3. clock \in Nat /\ item[k] \in Nat /\ k[1] \in 1..4
  BY RunTyped, KeyNumber
<1>4. CASE k \in Problems(links, band)
  BY <1>1, <1>2, <1>3, <1>4 DEF KnowsProblem
<1>5. CASE k \notin Problems(links, band)
  BY <1>1, <1>2, <1>3, <1>5 DEF KnowsNone
<1> QED BY <1>4, <1>5

\* The items it writes are problems, so no other run will have to clear them.
LEMMA CommitRunInv == ASSUME IInv, NEW r \in Runs, CommitRun(r) PROVE IInv'
<1>1. /\ run[r].step = "clear"
      /\ item' = [k \in Keys |-> IF k \in run[r].cleared THEN 0
                            ELSE IF k \in run[r].seen THEN run[r].started
                            ELSE item[k]]
      /\ run' = [run EXCEPT ![r] = NoRun] /\ clock' = clock /\ moved' = moved
      /\ log' = log /\ links' = links /\ band' = band /\ req' = req
  BY DEF CommitRun, RunTo, erp
<1>2. NoRun.step = "idle" /\ NoRun \in RunRecord
  BY DEF NoRun, RunAt, RunRecord
<1>3. run \in RunType /\ run' \in RunType /\ run'[r] = NoRun
      /\ \A q \in Runs \ {r} : run'[q] = run[q]
  BY <1>1, <1>2 DEF IInv, TypeOK, RunType, RunRecord
<1>4. run[r].started \in 1..clock /\ clock \in Nat /\ item \in [Keys -> Nat]
  BY <1>1, RunTyped DEF Steady, Active
<1>5. item' \in [Keys -> Nat] /\ ItemsAreSeen'
  BY <1>1, <1>4 DEF IInv, ItemsAreSeen
<1>6. TypeOK'
  BY <1>1, <1>3, <1>5 DEF IInv, TypeOK, RunType
<1>7. DeliveriesAreDue' /\ DeliveriesApart' /\ IdleHoldsNothing'
  BY <1>1 DEF IInv, DeliveriesAreDue, Undecided, Logged, Overtakes, DeliveriesApart, Apart,
     IdleHoldsNothing
<1>8. Steady(r)' /\ Knows(r)'
  BY <1>2, <1>3 DEF Steady, Knows, Active
<1>9. ASSUME NEW q \in Runs \ {r} PROVE Steady(q)' /\ Knows(q)'
  <2>1. run'[q] = run[q] /\ Steady(q) /\ Knows(q) /\ Knows(r) /\ Active(r)
    BY <1>1, <1>3 DEF IInv, RunsKnow, Active
  <2>2. Steady(q)'
    BY <1>1, <2>1 DEF Steady, Active
  <2>3. ASSUME Active(q), NEW k \in Keys \ moved
        PROVE  IF k \in Problems(links, band) THEN KnowsProblem(q, k)' ELSE KnowsNone(q, k)'
    <3>1. CASE k \in Problems(links, band)
      BY <1>1, <2>1, <2>3, <3>1 DEF Knows, KnowsProblem
    <3>2. CASE k \notin Problems(links, band)
      <4>1. KnowsNone(q, k) /\ k \notin run[r].seen
        BY <2>1, <2>3, <3>2 DEF Knows, KnowsNone
      <4>2. item'[k] = 0 \/ item'[k] = item[k]
        BY <1>1, <4>1
      <4>3. run[q].started \in 1..clock
        BY <2>1, <2>3 DEF Steady
      <4> QED BY <1>4, <2>1, <3>2, <4>1, <4>2, <4>3 DEF KnowsNone
    <3> QED BY <3>1, <3>2
  <2>4. Knows(q)'
    BY <1>1, <2>1, <2>3 DEF Knows, Active
  <2> QED BY <2>2, <2>4
<1> QED BY <1>5, <1>6, <1>7, <1>8, <1>9 DEF IInv, RunsKnow

\* An operator's resolution closes one item.
LEMMA ResolveInv == ASSUME IInv, NEW k \in Keys, Resolve(k) PROVE IInv'
<1>1. /\ item' = [item EXCEPT ![k] = 0] /\ run' = run /\ clock' = clock /\ moved' = moved
      /\ log' = log /\ links' = links /\ band' = band /\ req' = req
  BY DEF Resolve, erp
<1>2. item \in [Keys -> Nat] /\ item' \in [Keys -> Nat]
      /\ \A j \in Keys : item'[j] = item[j] \/ item'[j] = 0
  BY <1>1 DEF IInv, TypeOK
<1>3. TypeOK'
  BY <1>1, <1>2 DEF IInv, TypeOK
<1>4. ItemsAreSeen'
  BY <1>1, <1>2 DEF IInv, TypeOK, ItemsAreSeen
<1>5. DeliveriesAreDue' /\ DeliveriesApart' /\ IdleHoldsNothing'
  BY <1>1 DEF IInv, DeliveriesAreDue, Undecided, Logged, Overtakes, DeliveriesApart, Apart,
     IdleHoldsNothing
<1>6. ASSUME NEW q \in Runs PROVE Steady(q)' /\ Knows(q)'
  <2>1. Steady(q) /\ Knows(q) /\ clock \in Nat
    BY DEF IInv, RunsKnow, TypeOK
  <2>2. Steady(q)'
    BY <1>1, <2>1 DEF Steady, Active
  <2>3. ASSUME Active(q), NEW j \in Keys \ moved
        PROVE  IF j \in Problems(links, band) THEN KnowsProblem(q, j)' ELSE KnowsNone(q, j)'
    <3>1. CASE j \in Problems(links, band)
      BY <1>1, <2>1, <2>3, <3>1 DEF Knows, KnowsProblem
    <3>2. CASE j \notin Problems(links, band)
      <4>1. KnowsNone(q, j) /\ run[q].started \in 1..clock
        BY <2>1, <2>3, <3>2 DEF Knows, Steady
      <4> QED BY <1>1, <1>2, <2>1, <3>2, <4>1 DEF KnowsNone
    <3> QED BY <3>1, <3>2
  <2>4. Knows(q)'
    BY <1>1, <2>1, <2>3 DEF Knows, Active
  <2> QED BY <2>2, <2>4
<1> QED BY <1>3, <1>4, <1>5, <1>6 DEF IInv, RunsKnow

-----------------------------------------------------------------------------
LEMMA StepInv == IInv /\ [Next]_vars => IInv'
<1> SUFFICES ASSUME IInv, [Next]_vars PROVE IInv'
  OBVIOUS
<1>1. ASSUME NEW r \in Requests, Deliver(r) PROVE IInv'
  BY <1>1, ReceiveInv, HandleInv, CommitEventInv, FailDeliveryInv DEF Deliver
<1>2. ASSUME NEW r \in Runs, Reconcile(r) PROVE IInv'
  BY <1>2, BeginInv, CheckInv, UpsertInv, ClearInv, FindStaleInv, CommitRunInv, FailRunInv
     DEF Reconcile
<1>3. ASSUME NEW k \in Keys, Resolve(k) PROVE IInv'
  BY <1>3, ResolveInv
<1>4. CASE UNCHANGED vars
  BY <1>4 DEF vars, erp, recon, IInv, TypeOK, DeliveriesAreDue, Undecided, Logged, Overtakes,
     DeliveriesApart, Apart, IdleHoldsNothing, RunsKnow, Steady, Knows, KnowsProblem, KnowsNone,
     Active, ItemsAreSeen
<1> QED BY <1>1, <1>2, <1>3, <1>4 DEF Next

\* Deliveries and runs stand as the argument says in every state.
THEOREM Invariant == Spec => []IInv
  BY InitInv, StepInv, PTL DEF Spec

\* Every column keeps its type, whatever the ERP sends.
THEOREM Typed == Spec => []TypeOK
  BY Invariant, PTL DEF IInv

\* Of what is settled, a reconciliation run leaves open exactly the problems there are,
\* however many runs, deliveries and operators are about.
THEOREM Exact == Spec => SettledIsExact
<1>1. IInv /\ [Next]_vars =>
        [\A r \in Runs : CommitRun(r) =>
           \A k \in Keys \ moved : item'[k] > 0 <=> k \in Problems(links, band)]_vars
  BY CommitIsExact
<1> QED BY Invariant, <1>1, PTL DEF Spec, SettledIsExact

-----------------------------------------------------------------------------
\* Every step takes one event whole, with every reading that is not older, or takes
\* nothing.
LEMMA StepRefines == IInv /\ [Next]_vars => [Book!AbsNext]_(Book!book)
<1> SUFFICES ASSUME IInv, [Next]_vars PROVE Book!AbsNext \/ UNCHANGED Book!book
  OBVIOUS
<1>1. ASSUME NEW r \in Requests, CommitEvent(r), NEW e, e = req[r].event
      PROVE  Book!AbsNext
  <2>1. /\ e \in Ids /\ ~Logged(e)
        /\ log' = [log EXCEPT ![e] = OutcomeOf(e)]
        /\ links' = links \union MakesLink(e)
        /\ band' = [a \in Accounts |-> IF a \in ReadsOf(e) /\ Overtakes(e, a)
                                          THEN Events[e].reads[a] ELSE band[a]]
    BY <1>1, CommitEffect
  <2>2. log \in [Ids -> Outcomes \union {"none"}] /\ DOMAIN band = Accounts
    BY DEF IInv, TypeOK
  <2>3. OutcomeOf(e) # "none"
    BY <2>1, OutcomeTyped DEF Outcomes
  <2>4. {d \in Ids : log'[d] # "none"} = {d \in Ids : log[d] # "none"} \union {e}
    BY <2>1, <2>2, <2>3
  <2>5. ~Book!Taken(e)
    BY <2>1 DEF Book!Taken, Logged, SameKey
  <2>6. band' = [a \in DOMAIN band |-> IF Book!Newer(e, a) THEN Events[e].reads[a] ELSE band[a]]
    BY <2>1, <2>2 DEF Book!Newer, Overtakes
  <2>7. Book!Take(e)
    BY <2>1, <2>2, <2>4, <2>5, <2>6 DEF Book!Take, Book!Newer
  <2> QED BY <2>1, <2>7 DEF Book!AbsNext
<1>2. ASSUME UNCHANGED <<log, links, band>> PROVE UNCHANGED Book!book
  BY <1>2 DEF Book!book
<1>3. ASSUME NEW r \in Requests, Deliver(r), ~CommitEvent(r) PROVE UNCHANGED <<log, links, band>>
  BY <1>3 DEF Deliver, Receive, HandleRow, FailDelivery
<1>4. ASSUME NEW r \in Runs, Reconcile(r) PROVE UNCHANGED <<log, links, band>>
  BY <1>4 DEF Reconcile, BeginRun, RunCheck, Upsert, ClearItem, FindStale, CommitRun, FailRun, erp
<1>5. ASSUME NEW k \in Keys, Resolve(k) PROVE UNCHANGED <<log, links, band>>
  BY <1>5 DEF Resolve, erp
<1>6. CASE UNCHANGED vars
  BY <1>2, <1>6 DEF vars, erp
<1> QED BY <1>1, <1>2, <1>3, <1>4, <1>5, <1>6 DEF Next

LEMMA InitRefines == Init => Book!AbsInit
  BY DEF Init, Book!AbsInit

\* Exactly once, by construction: the deliveries keep the promise of ErpBook.
THEOREM Refinement == Spec => ImplementsBook
  BY InitRefines, Invariant, StepRefines, PTL DEF Spec, ImplementsBook, Book!AbsSpec
=============================================================================
