-------------------------- MODULE TlsContextProofs --------------------------
(***************************************************************************)
(* What is proved of TlsContext, for any number of calls and any names and *)
(* lists.                                                                  *)
(***************************************************************************)
EXTENDS TlsContext, TLAPS

Types ==
    /\ supportedAlpns \in Lists \union {None} /\ sniHostname \in Names \union {None}
    /\ wanted \in [name : Names \union {None}, list : Lists \union {None}]
    /\ setter \in [what : {"none"}, value : {None}] \union [what : {"alpn"}, value : Lists \union {None}]
                  \union [what : {"sni"}, value : Names \union {None}]
    /\ asked \in [Calls -> [name : Names \union {None}, list : Lists \union {None}]]
    /\ hostname \in [Calls -> Names \union {None}]
    /\ alive \in [Calls -> BOOLEAN] /\ DOMAIN pc = Calls
    /\ DOMAIN stash = Calls /\ DOMAIN sni = Calls /\ DOMAIN alpn = Calls

\* The context holds what the program has set, or the setter in progress is
\* about to write it; an empty list does not get there.
ContextAgrees ==
    /\ setter.what # "sni" => sniHostname = wanted.name
    /\ setter.what = "sni" => setter.value = wanted.name
    /\ setter.what # "alpn" /\ wanted.list # None => supportedAlpns = wanted.list
    /\ setter.what = "alpn" => setter.value = wanted.list

\* fizz used a list that was set, the one asked for unless that was empty.
GotList(c) ==
    alpn[c] \in Lists \union {None} /\ (asked[c].list # None => alpn[c] = asked[c].list)

\* A call that is alive keeps the setters away, so that what it asked for is
\* what the context holds, and has got it as far as it is.
Borrowing(c) ==
    /\ setter.what = "none"
    /\ asked[c].list = wanted.list /\ asked[c].name = NameToSend(hostname[c], wanted.name)
    /\ pc[c] \in {"job", "made", "handshake", "hello"}
    /\ pc[c] = "job" => stash[c] = None
    /\ pc[c] = "made" => stash[c] = asked[c].name
    /\ pc[c] \in {"handshake", "hello"} => stash[c] = None /\ sni[c] = asked[c].name
    /\ pc[c] \in {"job", "made"} => sni[c] = None
    /\ pc[c] = "hello" => GotList(c)
    /\ pc[c] # "hello" => alpn[c] = None

CallOK(c) ==
    /\ alive[c] => Borrowing(c)
    /\ pc[c] = "idle" => ~alive[c] /\ stash[c] = None /\ sni[c] = None /\ alpn[c] = None
    /\ pc[c] = "ready" => /\ ~alive[c] /\ stash[c] \in {None, "certificate"}
                          /\ sni[c] = asked[c].name /\ GotList(c)

\* The inductive invariant.
CtxInv == Types /\ ContextAgrees /\ \A c \in Calls : CallOK(c)

\* A new context, before any call.
LEMMA CtxInvInit == Init => CtxInv
BY DEF Init, CtxInv, Types, ContextAgrees, CallOK, Borrowing, GotList, Unset, Idle

\* While a setter has the context, no call is alive: each step of a setter
\* leaves the calls as they are.
LEMMA SetterSteps ==
    ASSUME CtxInv, \/ \E l \in Lists \union {None} : SetAlpn(l)
                   \/ \E h \in Names \union {None} : SetSni(h)
                   \/ AlpnSet \/ SniSet
    PROVE  CtxInv'
<1> USE DEF CtxInv
<1>1. \A c \in Calls : ~alive[c]
  BY DEF SetAlpn, SetSni, AlpnSet, SniSet, ExclusiveBorrow, CallOK, Borrowing, GotList
<1>2. UNCHANGED callVars
  BY DEF SetAlpn, SetSni, AlpnSet, SniSet
<1>3. \A c \in Calls : CallOK(c)'
  BY <1>1, <1>2 DEF CallOK, GotList, callVars
<1>4. ASSUME NEW l \in Lists \union {None}, SetAlpn(l) PROVE Types' /\ ContextAgrees'
  BY <1>4 DEF SetAlpn, Types, ContextAgrees, Idle, callVars
<1>5. ASSUME NEW h \in Names \union {None}, SetSni(h) PROVE Types' /\ ContextAgrees'
  BY <1>5 DEF SetSni, Types, ContextAgrees, Idle, callVars
<1>6. ASSUME AlpnSet PROVE Types' /\ ContextAgrees'
  BY <1>6 DEF AlpnSet, Types, ContextAgrees, Idle, callVars
<1>7. ASSUME SniSet PROVE Types' /\ ContextAgrees'
  BY <1>7 DEF SniSet, Types, ContextAgrees, Idle, callVars
<1> QED BY <1>3, <1>4, <1>5, <1>6, <1>7

\* A step of one call leaves the context and the other calls alone.
LEMMA CallSteps ==
    ASSUME CtxInv, NEW c \in Calls,
           \/ \E h \in Names \union {None} : Call(c, h)
           \/ Job(c) \/ Handshake(c) \/ HelloArrives(c) \/ Succeed(c) \/ Fail(c) \/ Drop(c)
    PROVE  CtxInv'
<1> USE DEF CtxInv
<1>1. UNCHANGED ctxVars
  BY DEF Call, Job, Handshake, HelloArrives, Succeed, Fail, Drop
<1>2. ContextAgrees'
  BY <1>1 DEF ContextAgrees, ctxVars
<1>3. ASSUME NEW h \in Names \union {None}, Call(c, h) PROVE Types' /\ CallOK(c)'
  <2>1. Types' BY <1>3 DEF Types, Call, ctxVars
  <2>2. CallOK(c)' BY <1>3 DEF Types, CallOK, Borrowing, GotList, Call, ctxVars, Idle, NameToSend
  <2> QED BY <2>1, <2>2
<1>4. ASSUME Job(c) PROVE Types' /\ CallOK(c)'
  <2>1. Types' BY <1>4 DEF Types, Job, ctxVars
  <2>2. alive[c] => stash'[c] = asked[c].name
    BY <1>4 DEF Types, CallOK, Borrowing, GotList, ContextAgrees, Job, ReadSni
  <2>3. CallOK(c)' BY <1>4, <2>2 DEF Types, CallOK, Borrowing, GotList, Job, ctxVars
  <2> QED BY <2>1, <2>3
<1>5. ASSUME Handshake(c) PROVE Types' /\ CallOK(c)'
  <2>1. Types' BY <1>5 DEF Types, Handshake, ctxVars
  <2>2. CallOK(c)' BY <1>5 DEF Types, CallOK, Borrowing, GotList, ContextAgrees, Handshake, Polled, ctxVars
  <2> QED BY <2>1, <2>2
<1>6. ASSUME HelloArrives(c) PROVE Types' /\ CallOK(c)'
  BY <1>6 DEF Types, CallOK, Borrowing, GotList, ContextAgrees, HelloArrives, ctxVars
<1>7. ASSUME Succeed(c) PROVE Types' /\ CallOK(c)'
  BY <1>7 DEF Types, CallOK, Borrowing, GotList, Succeed, ctxVars
<1>8. ASSUME Fail(c) PROVE Types' /\ CallOK(c)'
  BY <1>8 DEF Types, CallOK, GotList, Fail, ctxVars
<1>9. ASSUME Drop(c) PROVE Types' /\ CallOK(c)'
  BY <1>9 DEF Types, CallOK, Borrowing, GotList, Drop, ctxVars
<1>10. ASSUME NEW d \in Calls, d # c PROVE CallOK(d)'
  <2>1. /\ pc'[d] = pc[d] /\ alive'[d] = alive[d] /\ hostname'[d] = hostname[d] /\ stash'[d] = stash[d]
        /\ sni'[d] = sni[d] /\ alpn'[d] = alpn[d] /\ asked'[d] = asked[d]
    BY <1>10 DEF Types, Call, Job, Handshake, HelloArrives, Succeed, Fail, Drop
  <2> QED BY <2>1, <1>1 DEF CallOK, Borrowing, GotList, ctxVars
<1> QED BY <1>2, <1>3, <1>4, <1>5, <1>6, <1>7, <1>8, <1>9, <1>10

\* Every step preserves the invariant.
LEMMA CtxInvStep == CtxInv /\ [Next]_vars => CtxInv'
<1> SUFFICES ASSUME CtxInv, [Next]_vars PROVE CtxInv' OBVIOUS
<1>1. CASE UNCHANGED vars
  BY <1>1 DEF CtxInv, Types, ContextAgrees, CallOK, Borrowing, GotList, vars, ctxVars, callVars
<1>2. CASE Next BY <1>2, SetterSteps, CallSteps DEF Next
<1> QED BY <1>1, <1>2

\* For any number of calls that share a context, some of them dropped: one that
\* is awaited to its end sends the name, and uses the list if it is not empty, that
\* were set when it was made.
THEOREM UsesWhatWasSetHolds == Spec => []UsesWhatWasSet
<1>1. CtxInv => UsesWhatWasSet BY DEF CtxInv, CallOK, GotList, UsesWhatWasSet
<1> QED BY <1>1, CtxInvInit, CtxInvStep, PTL DEF Spec

\* For any number of such calls: only one whose future was dropped has read the
\* context while a setter was writing it.
THEOREM TornOnlyAfterDropHolds == Spec => []TornOnlyAfterDrop
<1>1. CtxInv => TornOnlyAfterDrop
  BY TlsContextAssumption DEF CtxInv, Types, CallOK, Borrowing, GotList, TornOnlyAfterDrop
<1> QED BY <1>1, CtxInvInit, CtxInvStep, PTL DEF Spec
=============================================================================
