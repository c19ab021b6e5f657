----------------------------- MODULE MCAblation -----------------------------
\* A sweep over one and two pairs with all four backends.
EXTENDS Ablation

CONSTANTS p1, p2
MCPairs == {p1, p2}
MCSweep == <<{p1}, {p1, p2}>>
MCBackends == <<"tcp", "rustls", "fizz", "fizz_cpp">>
MCWallTimes == {<<2, 3, 1>>, <<1, 1, 2>>}
=============================================================================
