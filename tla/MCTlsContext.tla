---------------------------- MODULE MCTlsContext ----------------------------
(***************************************************************************)
(* Two calls and two values for each setting: a setter can come before,    *)
(* between and after the calls, and change a value to another and back.    *)
(***************************************************************************)
EXTENDS TlsContext

CONSTANTS c1, c2

MCCalls == {c1, c2}
=============================================================================
