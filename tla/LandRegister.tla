---------------------------- MODULE LandRegister ----------------------------
(***************************************************************************)
(* What the council promises of its land, with no transactions, locks or   *)
(* indexes in it: grants are entered in a register one after the other,    *)
(* each of a stand on offer that nobody holds; a grant may be revoked, and *)
(* the entry stays; a stand that is granted comes back on offer when its   *)
(* grant is revoked, and else only if somebody sets its status by hand.    *)
(***************************************************************************)
EXTENDS Integers, Sequences

CONSTANTS Stands, ByHand

VARIABLES
    grants,        \* the register, in the order of the reference numbers
    offer          \* stands on offer
land == <<grants, offer>>

Granted(s) == \E i \in 1..Len(grants) : grants[i] = [stand |-> s, state |-> "active"]

AbsInit == grants = <<>> /\ offer \subseteq Stands

Grant(s) ==
    /\ s \in offer /\ ~Granted(s)
    /\ grants' = Append(grants, [stand |-> s, state |-> "active"])
    /\ offer' = offer \ {s}

Revoke(s) ==
    /\ Granted(s)
    /\ grants' = [i \in 1..Len(grants) |->
                    IF grants[i].stand = s THEN [grants[i] EXCEPT !.state = "revoked"]
                    ELSE grants[i]]
    /\ offer' = offer \union {s}

Market ==
    /\ UNCHANGED grants
    /\ offer' \in SUBSET Stands
    /\ \A s \in offer' \ offer : Granted(s) => s \in ByHand

AbsNext == Market \/ \E s \in Stands : Grant(s) \/ Revoke(s)

AbsSpec == AbsInit /\ [][AbsNext]_land
=============================================================================
