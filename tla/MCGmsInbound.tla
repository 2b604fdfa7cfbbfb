---------------------------- MODULE MCGmsInbound ----------------------------
(* Instance of GmsInbound for TLC: one built parcel without an account and a  *)
(* retired one that has one.  Two batches read both accounts, each newer for  *)
(* one of them; a link and one to the retired parcel come under one key.      *)
EXTENDS GmsInbound, TLC

CONSTANTS p1, p2, a1, a2, k1, k2, k3, stand, noParcel

Billing(key, reads) == [type |-> "BillingStatusUpdated", key |-> key, parcel |-> noParcel,
                        account |-> a1, reads |-> reads]
Reading(b, t) == [band |-> b, at |-> t]

MCEvents ==
    [link    |-> Linking(k1, p1, a1),
     astray  |-> Linking(k1, p2, a1),
     evening |-> Billing(k2, (a1 :> Reading("in_arrears", 1)) @@ (a2 :> Reading("closed", 2))),
     morning |-> Billing(k3, (a1 :> Reading("current", 2)) @@ (a2 :> Reading("current", 1)))]

MCLinked == {<<p2, a2>>}

MCStandNo == [p \in Parcels |-> stand]

Symmetry == Permutations(Requests) \union Permutations(Runs)
=============================================================================
