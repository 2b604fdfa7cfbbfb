-------------------------- MODULE FeatureRegister --------------------------
(***************************************************************************)
(* What the editable layers of the GIS promise, with no sessions, requests *)
(* or locks in it: the history of a feature is a log that only grows; one  *)
(* approval publishes all the edits of a session or none; an edit extends  *)
(* the version its editor started from; a restored version is a copy of an *)
(* earlier one, put at the end.                                            *)
(***************************************************************************)
EXTENDS Naturals, Sequences

CONSTANTS Features, Sessions, NoSession

VARIABLE log           \* feature -> the versions ever published, oldest first

Row(action, by, body, from) == [action |-> action, by |-> by, body |-> body, from |-> from]

AbsInit == log \in [Features -> Seq([action : {"create"}, by : {NoSession},
                                     body : {{}}, from : {0}])]

\* What session s publishes for feature f: a first version, or one made from the
\* newest, carrying on its contents.
Extension(s, f, action) ==
    IF log[f] = <<>>
      THEN Row("create", s, {s}, 0)
      ELSE Row(action, s, IF action = "update" THEN log[f][Len(log[f])].body \union {s}
                                               ELSE log[f][Len(log[f])].body, Len(log[f]))

Publish(s, U, D) ==
    log' = [f \in Features |-> IF f \in U THEN Append(log[f], Extension(s, f, "update"))
                          ELSE IF f \in D THEN Append(log[f], Extension(s, f, "delete"))
                          ELSE log[f]]

PutBack(f, v) ==
    /\ v \in 1..Len(log[f])
    /\ log' = [log EXCEPT ![f] = Append(@, Row("restore", NoSession, log[f][v].body, v))]

AbsNext ==
    \/ \E s \in Sessions, U, D \in SUBSET Features : Publish(s, U, D)
    \/ \E f \in Features : \E v \in 1..Len(log[f]) : PutBack(f, v)

AbsSpec == AbsInit /\ [][AbsNext]_log
=============================================================================
