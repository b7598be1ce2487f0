------------------------------ MODULE MCWorker ------------------------------
(***************************************************************************)
(* Worker on a small instance: a healthy collector and a broken one, and    *)
(* time enough for a gap of more hours than a cycle may cover.              *)
(***************************************************************************)
EXTENDS Worker

CONSTANTS compute, vectordb, t1, t2
=============================================================================
