-------------------------- MODULE MCFizzConnection --------------------------
(* FizzConnection for TLC: two tasks take turns at one connection. *)
EXTENDS FizzConnection

CONSTANTS t1, t2

MCTasks == {t1, t2}
=============================================================================
