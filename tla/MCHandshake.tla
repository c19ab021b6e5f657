---------------------------- MODULE MCHandshake ----------------------------
\* Two calls on one context, so that one of them can keep it alive.
EXTENDS Handshake, TLC

CONSTANTS a1, a2

MCAttempts == {a1, a2}
AttemptSymmetry == Permutations(MCAttempts)
=============================================================================
