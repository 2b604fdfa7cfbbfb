---- MODULE MCGmsOutbox ----
(* Instance of GmsOutbox for TLC: one event, two imports that may both make   *)
(* it, the workers of two servers and an operator of their console.           *)
EXTENDS GmsOutbox
====
