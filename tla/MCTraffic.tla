------------------------------ MODULE MCTraffic ------------------------------
(***************************************************************************)
(* Traffic on small instances: more calls than permits, and a ceiling that  *)
(* two calls can reach with others in flight or not yet created.            *)
(***************************************************************************)
EXTENDS Traffic
=============================================================================
