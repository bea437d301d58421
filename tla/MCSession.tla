----------------------------- MODULE MCSession -----------------------------
(* The zones' addresses for TLC; 0 is the station slot of the first zone. *)
EXTENDS Session

MCOneZone == {{0, 1, 2}}
MCTwoZones == {{0, 1}, {2}}
=============================================================================
