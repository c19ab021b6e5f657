------------------------- MODULE CredentialsProofs -------------------------
(***************************************************************************)
(* The properties of Credentials for all keys, clocks and durations.       *)
(***************************************************************************)
EXTENDS Credentials, TLAPS

\* Every issuance has a key of its own, and its info names that key.
FreshKeys ==
    /\ \A c, d \in issued : c.pem.key = d.pem.key => c = d
    /\ \A s \in signing, c \in issued : s.pem.key # c.pem.key
    /\ \A c \in issued : c.info.key = c.pem.key

\* What contexts and the last handshake hold was issued.
Provenance ==
    /\ \A w \in served : \E c \in issued : c.pem = w
    /\ \A i \in expected : i = FromPemInfo \/ \E c \in issued : c.info = i

\* What each issuer wrote down about its signing.
Stamped ==
    /\ \A s \in signing : s.pem.valid_time = ValidTime(s.at, s.secs)
    /\ \A c \in issued :
        /\ c.pem.valid_time = ValidTime(c.at, c.secs)
        /\ c.info.valid_time = c.pem.valid_time
        /\ c.by = "library" => c.info.expires_at = c.now + c.secs
        /\ c.by = "sidecar" => c.info.expires_at = ExpiresTime(c.pem)

CInv == TypeOK /\ FreshKeys /\ Provenance /\ Stamped /\ AcceptedIsExpected

\* valid_time fits its width.
LEMMA ValidTimeType ==
    ASSUME NEW t \in Times, NEW d \in ValidSeconds
    PROVE  ValidTime(t, d) \in 0..(Width - 1)
  BY CredentialAssumption DEF ValidTime

\* valid_time does not wrap below the width.
LEMMA ValidTimeExact ==
    ASSUME NEW t \in Times, NEW d \in ValidSeconds, t - NotBefore + d < Width
    PROVE  ValidTime(t, d) = t - NotBefore + d
  BY CredentialAssumption DEF ValidTime

\* Initially CInv holds.
LEMMA CInvInit == Init => CInv
  BY DEF Init, CInv, TypeOK, FreshKeys, Provenance, Stamped, AcceptedIsExpected, NoOutcome

\* An issuer that returns s with expiry e adds a record that CInv allows.
LEMMA ReturnStep ==
    ASSUME CInv, NEW s \in signing, NEW e \in Nat,
           s.by = "library" => e = clock + s.secs,
           s.by = "sidecar" => e = ExpiresTime(s.pem),
           issued' = issued \union
             {[by |-> s.by, pem |-> s.pem, secs |-> s.secs, at |-> s.at, now |-> clock,
               info |-> InfoOf(s, e)]},
           signing' = {},
           UNCHANGED <<clock, served, expected, outcome>>
    PROVE  CInv'
<1> DEFINE n == [by |-> s.by, pem |-> s.pem, secs |-> s.secs, at |-> s.at, now |-> clock,
                 info |-> InfoOf(s, e)]
<1>1. s \in Signed /\ clock \in Times
  BY DEF CInv, TypeOK
<1>2. n \in Issued /\ n.info.key = s.pem.key /\ n.info.valid_time = s.pem.valid_time
      /\ n.info.expires_at = e
  BY <1>1 DEF Issued, Signed, InfoOf, Info, Wire
<1>3. n.by = s.by /\ n.pem = s.pem /\ n.secs = s.secs /\ n.at = s.at /\ n.now = clock
  OBVIOUS
<1>4. issued' = issued \union {n}
  OBVIOUS
<1> HIDE DEF n
<1>5. TypeOK'
  BY <1>2, <1>4 DEF CInv, TypeOK
<1>6. FreshKeys'
  BY <1>2, <1>3, <1>4 DEF CInv, FreshKeys
<1>7. Provenance'
  BY <1>4 DEF CInv, Provenance
<1>8. Stamped'
  BY <1>2, <1>3, <1>4 DEF CInv, Stamped, ValidTime, ExpiresTime
<1>9. AcceptedIsExpected'
  BY <1>4 DEF CInv, AcceptedIsExpected
<1> QED
  BY <1>5, <1>6, <1>7, <1>8, <1>9 DEF CInv

\* Each step keeps CInv.
LEMMA CInvStep == CInv /\ [Next]_vars => CInv'
<1> SUFFICES ASSUME CInv, [Next]_vars PROVE CInv'
  OBVIOUS
<1>1. CASE Tick
  BY <1>1 DEF Tick, CInv, TypeOK, FreshKeys, Provenance, Stamped, AcceptedIsExpected,
     ValidTime, ExpiresTime
<1>2. ASSUME NEW k \in Keys, NEW by \in {"library", "sidecar"}, NEW secs \in ValidSeconds,
             Sign(k, by, secs)
      PROVE  CInv'
  <2> DEFINE n == [by |-> by, pem |-> [key |-> k, valid_time |-> ValidTime(clock, secs)],
                   secs |-> secs, at |-> clock]
  <2>1. n \in Signed /\ n.pem.key = k /\ n.pem.valid_time = ValidTime(n.at, n.secs)
    BY ValidTimeType DEF Signed, Wire, CInv, TypeOK
  <2>2. signing' = {n} /\ k \notin Used /\ UNCHANGED <<clock, issued, served, expected, outcome>>
    BY <1>2 DEF Sign
  <2> HIDE DEF n
  <2>3. TypeOK'
    BY <2>1, <2>2 DEF CInv, TypeOK
  <2>4. FreshKeys'
    BY <2>1, <2>2 DEF CInv, FreshKeys, Used
  <2>5. Provenance' /\ AcceptedIsExpected'
    BY <2>2 DEF CInv, Provenance, AcceptedIsExpected
  <2>6. Stamped'
    BY <2>1, <2>2 DEF CInv, Stamped, ValidTime, ExpiresTime
  <2> QED
    BY <2>3, <2>4, <2>5, <2>6 DEF CInv
<1>3. ASSUME NEW s \in signing, LibraryReturns(s) PROVE CInv'
  <2>0. s.secs \in ValidSeconds /\ clock \in Times
    BY DEF CInv, TypeOK, Signed
  <2>1. LibraryExpiresAt(s) = clock + s.secs
    BY DEF LibraryExpiresAt
  <2>2. s.secs \in Nat /\ clock \in Nat
    BY <2>0, CredentialAssumption
  <2>3. clock + s.secs \in Nat
    BY <2>2
  <2> QED
    BY <1>3, <2>1, <2>3, ReturnStep DEF LibraryReturns
<1>4. ASSUME NEW s \in signing, SidecarReturns(s) PROVE CInv'
  <2>1. SidecarExpiresAt(s) \in Nat /\ SidecarExpiresAt(s) = ExpiresTime(s.pem)
    BY CredentialAssumption DEF SidecarExpiresAt, ExpiresTime, CInv, TypeOK, Signed, Wire
  <2> QED
    BY <1>4, <2>1, ReturnStep DEF SidecarReturns
<1>5. ASSUME NEW c \in issued, NewServerContext(c) PROVE CInv'
  BY <1>5 DEF NewServerContext, CInv, TypeOK, FreshKeys, Provenance, Stamped,
     AcceptedIsExpected, Issued
<1>6. ASSUME NEW info \in {c.info : c \in issued} \union {FromPemInfo}, NewClientContext(info)
      PROVE  CInv'
  <2>1. FromPemInfo \in Info
    BY CredentialAssumption DEF FromPemInfo, Info
  <2>2. info \in Info
    BY <2>1 DEF CInv, TypeOK, Issued
  <2> QED
    BY <1>6, <2>2 DEF NewClientContext, CInv, TypeOK, FreshKeys, Provenance, Stamped,
       AcceptedIsExpected
<1>7. ASSUME NEW wire \in served, NEW info \in expected, ClientHandshake(wire, info)
      PROVE  CInv'
  <2> DEFINE r == IF ~TimeValid(wire) THEN "time" ELSE IF Agrees(wire, info) THEN "ok" ELSE "mismatch"
  <2>1. r \in {"ok", "time", "mismatch"} /\ (r = "ok" => Agrees(wire, info))
    OBVIOUS
  <2>2. outcome' = [res |-> r, wire |-> wire, info |-> info]
        /\ UNCHANGED <<clock, signing, issued, served, expected>>
    BY <1>7 DEF ClientHandshake
  <2> HIDE DEF r
  <2>3. TypeOK'
    BY <2>1, <2>2 DEF CInv, TypeOK
  <2>4. FreshKeys' /\ Provenance' /\ Stamped'
    BY <2>2 DEF CInv, FreshKeys, Provenance, Stamped
  <2>5. ASSUME r = "ok" PROVE \E c \in issued : c.pem = wire /\ c.info = info
    <3>1. PICK c \in issued : c.pem = wire
      BY DEF CInv, Provenance
    <3>2. info.key = c.pem.key
      BY <2>1, <2>5, <3>1 DEF Agrees
    <3>3. info # FromPemInfo
      BY <3>1, <3>2, CredentialAssumption DEF FromPemInfo, CInv, TypeOK, Issued, Wire
    <3>4. PICK d \in issued : d.info = info
      BY <3>3 DEF CInv, Provenance
    <3>5. c = d
      BY <3>2, <3>4 DEF CInv, FreshKeys
    <3> QED
      BY <3>1, <3>4, <3>5
  <2>6. AcceptedIsExpected'
    BY <2>2, <2>5 DEF AcceptedIsExpected
  <2> QED
    BY <2>3, <2>4, <2>6 DEF CInv
<1>8. CASE UNCHANGED vars
  BY <1>8 DEF vars, CInv, TypeOK, FreshKeys, Provenance, Stamped, AcceptedIsExpected
<1> QED
  BY <1>1, <1>2, <1>3, <1>4, <1>5, <1>6, <1>7, <1>8 DEF Next

\* CInv holds in every reachable state.
LEMMA CInvAlways == Spec => []CInv
  BY CInvInit, CInvStep, PTL DEF Spec

\* Credentials keep their types; valid_time always fits its 32 bits.
THEOREM CredentialTypes == Spec => []TypeOK
<1>1. CInv => TypeOK
  BY DEF CInv
<1> QED
  BY CInvAlways, <1>1, PTL

\* A client accepts only the credential its VerificationInfo was issued with.
THEOREM AcceptedCorrect == Spec => []AcceptedIsExpected
<1>1. CInv => AcceptedIsExpected
  BY DEF CInv
<1> QED
  BY CInvAlways, <1>1, PTL

\* The sidecar's infos always agree with its credentials.
THEOREM SidecarCorrect == Spec => []SidecarServes
<1>1. CInv => SidecarServes
  BY DEF CInv, FreshKeys, Stamped, SidecarServes, Agrees
<1> QED
  BY CInvAlways, <1>1, PTL

\* How far InfoFromOneSigning fails: a credential of this crate disagrees with its
\* info exactly if the clock showed another second when expires_at was computed
\* than when fizz signed.
DisagreesIffSecondTurned ==
    \A c \in issued : c.by = "library" /\ c.at - NotBefore + c.secs < Width =>
        (~Agrees(c.pem, c.info) <=> c.now # c.at)

\* A credential of this crate is unusable exactly if a second passed between its
\* signing and the computation of its expiry, and for no other reason.
THEOREM SigningExtent == Spec => []DisagreesIffSecondTurned
<1>1. ASSUME CInv, NEW c \in issued, c.by = "library", c.at - NotBefore + c.secs < Width
      PROVE  Agrees(c.pem, c.info) <=> c.now = c.at
  <2>1. c.at \in Times /\ c.now \in Times /\ c.secs \in ValidSeconds
    BY <1>1 DEF CInv, TypeOK, Issued
  <2>2. c.pem.valid_time = c.at - NotBefore + c.secs
    BY <1>1, <2>1, ValidTimeExact DEF CInv, Stamped
  <2>3. Agrees(c.pem, c.info) <=> NotBefore + c.pem.valid_time = c.now + c.secs
    BY <1>1 DEF CInv, FreshKeys, Stamped, Agrees, ExpiresTime
  <2>4. c.at \in Nat /\ c.now \in Nat /\ c.secs \in Nat /\ NotBefore \in Nat
    BY <2>1, CredentialAssumption
  <2>5. NotBefore + (c.at - NotBefore + c.secs) = c.now + c.secs <=> c.now = c.at
    BY <2>4
  <2> QED
    BY <2>2, <2>3, <2>5
<1>2. CInv => DisagreesIffSecondTurned
  BY <1>1 DEF DisagreesIffSecondTurned
<1> QED
  BY CInvAlways, <1>2, PTL
=============================================================================
