------------------------------ MODULE ErpBook ------------------------------
(***************************************************************************)
(* What the GMS promises the ERP about the events it is sent, with no      *)
(* deliveries, transactions or locks in it: of the events under one        *)
(* idempotency key one is taken, once, with everything it says; a reading  *)
(* of an account never gives way to an older one.                          *)
(***************************************************************************)
EXTENDS Naturals

CONSTANTS
    Ids,           \* the events
    Key,           \* event -> its idempotency key
    Makes,         \* event -> the links it makes
    Reads          \* event -> for each account it names, the reading

VARIABLES taken, links, band
book == <<taken, links, band>>

Taken(e) == \E d \in taken : Key[d] = Key[e]
Newer(e, a) == a \in DOMAIN Reads[e] /\ band[a].at <= Reads[e][a].at

AbsInit == taken = {}

Take(e) ==
    /\ ~Taken(e)
    /\ taken' = taken \union {e}
    /\ links' = links \union Makes[e]
    /\ band' = [a \in DOMAIN band |-> IF Newer(e, a) THEN Reads[e][a] ELSE band[a]]

AbsNext == \E e \in Ids : Take(e)

AbsSpec == AbsInit /\ [][AbsNext]_book
=============================================================================
