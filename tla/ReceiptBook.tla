---------------------------- MODULE ReceiptBook ----------------------------
(***************************************************************************)
(* What the council promises of its receipts, with no requests, gateways   *)
(* or transactions in it: they are torn from one book, in order and with   *)
(* none missing, one for each payment whose money is there, and what a     *)
(* payment is for is released with its receipt.                            *)
(***************************************************************************)
EXTENDS Naturals

CONSTANTS Payments, Fees, FeeOf

VARIABLES
    taken,         \* payments whose money is there
    number,        \* payment -> its receipt's number, 0 while it has none
    last,          \* the number of the last receipt
    released       \* fees
book == <<taken, number, last, released>>

AbsInit ==
    /\ taken = {} /\ released = {}
    /\ number = [p \in Payments |-> 0] /\ last = 0

Take(p) ==
    /\ taken' = taken \union {p}
    /\ UNCHANGED <<number, last, released>>

Issue(p) ==
    /\ p \in taken /\ number[p] = 0
    /\ last' = last + 1
    /\ number' = [number EXCEPT ![p] = last + 1]
    /\ released' = released \union {FeeOf[p]}
    /\ UNCHANGED taken

AbsNext == \E p \in Payments : Take(p) \/ Issue(p)

AbsSpec == AbsInit /\ [][AbsNext]_book
=============================================================================
