--------------------------- MODULE MCCredentials ---------------------------
EXTENDS Credentials, TLC

CONSTANTS k1, k2

MCKeys == {k1, k2}
KeySymmetry == Permutations(MCKeys)
MCTimes == 1..3
MCValidSeconds == {1, 2}
=============================================================================
