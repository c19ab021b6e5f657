---------------------------- MODULE Credentials ----------------------------
(***************************************************************************)
(* Delegated credentials from their signing to the client's decision.      *)
(* An issuer (CredentialGenerator of this crate, or the sidecar of the     *)
(* demo) signs a credential and writes down what clients are to expect; a  *)
(* server loads some credential, a client some VerificationInfo, and a     *)
(* handshake compares them.  The clock is the system clock: it is read     *)
(* more than once, and it may be set.                                      *)
(***************************************************************************)
EXTENDS Integers

CONSTANTS
    Keys,          \* key pairs; generateEcP256Key makes a new one every time
    NoKey,         \* the empty public_key_der
    Times,         \* readings of the clock, in seconds
    NotBefore,     \* of the parent certificate
    ValidSeconds,  \* arguments of generate()
    Width,         \* valid_time is a uint32_t: 2^32 in the code
    MaxLifetime    \* what fizz accepts: 7 days

ASSUME CredentialAssumption ==
    /\ NoKey \notin Keys
    /\ Times \subseteq Nat /\ ValidSeconds \subseteq Nat
    /\ NotBefore \in Nat /\ \A t \in Times : NotBefore <= t
    /\ Width \in Nat \ {0} /\ MaxLifetime \in Nat

VARIABLES
    clock,
    signing,   \* a call of an issuer between its signing and its return
    issued,    \* what the issuers returned
    served,    \* the credentials loaded by the server's context: none or one
    expected,  \* the VerificationInfo of the client's context: none or one
    outcome    \* of the last handshake

vars == <<clock, signing, issued, served, expected, outcome>>

Wire == [key : Keys, valid_time : 0..(Width - 1)]
Info == [key : Keys \union {NoKey}, valid_time : 0..(Width - 1), expires_at : Nat]
Signed == [by : {"library", "sidecar"}, pem : Wire, secs : ValidSeconds, at : Times]
Issued == [by : {"library", "sidecar"}, pem : Wire, secs : ValidSeconds, at : Times,
           now : Times, info : Info]
NoOutcome == [res |-> "none"]

TypeOK ==
    /\ clock \in Times
    /\ signing \in SUBSET Signed
    /\ issued \in SUBSET Issued
    /\ served \in SUBSET Wire
    /\ expected \in SUBSET Info
    /\ \/ outcome = NoOutcome
       \/ outcome \in [res : {"ok", "time", "mismatch"}, wire : Wire, info : Info]

Init ==
    /\ clock \in Times
    /\ signing = {} /\ issued = {} /\ served = {} /\ expected = {}
    /\ outcome = NoOutcome

-----------------------------------------------------------------------------
\* A mutated form: more bits than the wire has.
WideValidTime(now, secs) == now - NotBefore + secs

\* fizz: the credential counts from the parent's notBefore, in 32 bits.
ValidTime(now, secs) == (now - NotBefore + secs) % Width

\* fizz: getCredentialExpiresTime.
ExpiresTime(wire) == NotBefore + wire.valid_time

\* fizz: not expired, and not good for more than a week.
TimeValid(wire) ==
    /\ clock < ExpiresTime(wire)
    /\ ExpiresTime(wire) - clock <= MaxLifetime

Used == {c.pem.key : c \in issued \union signing}

\* The clock goes on, or is set.
Tick ==
    /\ clock' \in Times \ {clock}
    /\ UNCHANGED <<signing, issued, served, expected, outcome>>

\* A new key, and generateCredential; fizz reads the clock.
Sign(k, by, secs) ==
    /\ signing = {} /\ k \notin Used
    /\ signing' = {[by |-> by, pem |-> [key |-> k, valid_time |-> ValidTime(clock, secs)],
                    secs |-> secs, at |-> clock]}
    /\ UNCHANGED <<clock, issued, served, expected, outcome>>

\* A mutated form: the sidecar takes the expiry from its clock, too.
ClockExpiresAt(s) == clock + s.secs

\* The sidecar computes expires_at from the credential, as the client will.
SidecarExpiresAt(s) == ExpiresTime(s.pem)

\* The library computes it from the clock, which it reads again.
LibraryExpiresAt(s) == clock + s.secs

\* get_public_verification_info.
InfoOf(s, expires) == [key |-> s.pem.key, valid_time |-> s.pem.valid_time, expires_at |-> expires]

\* The rest of generate_delegated_credential.
LibraryReturns(s) ==
    /\ s \in signing /\ s.by = "library"
    /\ issued' = issued \union
         {[by |-> s.by, pem |-> s.pem, secs |-> s.secs, at |-> s.at, now |-> clock,
           info |-> InfoOf(s, LibraryExpiresAt(s))]}
    /\ signing' = {}
    /\ UNCHANGED <<clock, served, expected, outcome>>

\* The rest of the sidecar's generateDelegatedCredential.
SidecarReturns(s) ==
    /\ s \in signing /\ s.by = "sidecar"
    /\ issued' = issued \union
         {[by |-> s.by, pem |-> s.pem, secs |-> s.secs, at |-> s.at, now |-> clock,
           info |-> InfoOf(s, SidecarExpiresAt(s))]}
    /\ signing' = {}
    /\ UNCHANGED <<clock, served, expected, outcome>>

\* DelegatedCredentialData::from_pem keeps the PEM and knows nothing else.
FromPemInfo == [key |-> NoKey, valid_time |-> 0, expires_at |-> 0]

\* new_server_tls_context reads nothing but credential_pem, so that a
\* credential from from_pem serves as well as the one generate() returned.
NewServerContext(c) ==
    /\ c \in issued
    /\ served' = {c.pem}
    /\ UNCHANGED <<clock, signing, issued, expected, outcome>>

\* new_client_tls_context with the verification_info() of a credential.
NewClientContext(info) ==
    /\ info \in {c.info : c \in issued} \union {FromPemInfo}
    /\ expected' = {info}
    /\ UNCHANGED <<clock, signing, issued, served, outcome>>

\* A mutated form: the comparison forgets the public key.
AgreesButKey(wire, info) ==
    wire.valid_time = info.valid_time /\ ExpiresTime(wire) = info.expires_at

\* verifyVerificationInfoAgainstPeerDelegatedCredential.
Agrees(wire, info) ==
    /\ wire.key = info.key
    /\ wire.valid_time = info.valid_time
    /\ ExpiresTime(wire) = info.expires_at

\* fizz checks signature and lifetime, then the client compares.
ClientHandshake(wire, info) ==
    /\ wire \in served /\ info \in expected
    /\ outcome' = [res |-> IF ~TimeValid(wire) THEN "time"
                           ELSE IF Agrees(wire, info) THEN "ok" ELSE "mismatch",
                   wire |-> wire, info |-> info]
    /\ UNCHANGED <<clock, signing, issued, served, expected>>

Next ==
    \/ Tick
    \/ \E k \in Keys, by \in {"library", "sidecar"}, secs \in ValidSeconds : Sign(k, by, secs)
    \/ \E s \in signing : LibraryReturns(s) \/ SidecarReturns(s)
    \/ \E c \in issued : NewServerContext(c)
    \/ \E info \in {c.info : c \in issued} \union {FromPemInfo} : NewClientContext(info)
    \/ \E wire \in served, info \in expected : ClientHandshake(wire, info)

Spec == Init /\ [][Next]_vars

-----------------------------------------------------------------------------
\* A client accepts a server only if the VerificationInfo it was given and the
\* credential the server presents come from one and the same issuance, however
\* credentials were rotated in between.
AcceptedIsExpected ==
    outcome.res = "ok" => \E c \in issued : c.pem = outcome.wire /\ c.info = outcome.info

\* What the sidecar tells its clients agrees with the credential it signed,
\* whatever its clock did meanwhile, even if valid_time wrapped.
SidecarServes == \A c \in issued : c.by = "sidecar" => Agrees(c.pem, c.info)

\* A statement of a comment of the repository, refuted by the code.
\* src/ffi/credentials_ffi.cpp:215-218, of the fields of the VerificationInfo:
\* "They must come from this one signing: a second credential could land in the
\* next second, and its valid_time would then differ from the one served, failing
\* every handshake."  So an info this crate issues agrees with its credential,
\* unless valid_time wrapped.  The code takes expires_at from a second reading of
\* the clock.
InfoFromOneSigning ==
    \A c \in issued : c.by = "library" /\ c.at - NotBefore + c.secs < Width => Agrees(c.pem, c.info)
=============================================================================
