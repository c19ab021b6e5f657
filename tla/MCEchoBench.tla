---------------------------- MODULE MCEchoBench ----------------------------
(***************************************************************************)
(* Two connections for the C++ benchmark: two sessions per side race for   *)
(* the counter and the promise.                                            *)
(***************************************************************************)
EXTENDS EchoBench

CONSTANTS p1, p2

MCPairs == {p1, p2}
=============================================================================
