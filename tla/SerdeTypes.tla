----------------------------- MODULE SerdeTypes -----------------------------
(***************************************************************************)
(* The tables of the four hand-expanded serde implementations, one         *)
(* definition for each function of each copy, in the order of the source.  *)
(***************************************************************************)
\* struct DelegatedCredential and its impls.
DelegatedCredentialMembers ==
    [valid_time |-> "u32", expected_verify_scheme |-> "u16", public_key_der |-> "String",
     credential_scheme |-> "u16", signature |-> "String"]

SerializeDelegatedCredential ==
    << <<"valid_time", "valid_time">>, <<"expected_verify_scheme", "expected_verify_scheme">>,
       <<"public_key_der", "public_key_der">>, <<"credential_scheme", "credential_scheme">>,
       <<"signature", "signature">> >>

DelegatedCredentialFieldVisitor ==
    <<"valid_time", "expected_verify_scheme", "public_key_der", "credential_scheme", "signature">>

\* A mutated form: valid_time is read as the u16 of its neighbour.
DelegatedCredentialNarrowSeq ==
    << <<"u16", "valid_time">>, <<"u16", "expected_verify_scheme">>, <<"String", "public_key_der">>,
       <<"u16", "credential_scheme">>, <<"String", "signature">> >>

DelegatedCredentialVisitSeq ==
    << <<"u32", "valid_time">>, <<"u16", "expected_verify_scheme">>, <<"String", "public_key_der">>,
       <<"u16", "credential_scheme">>, <<"String", "signature">> >>

DelegatedCredentialVisitMap ==
    << <<"u32", "valid_time">>, <<"u16", "expected_verify_scheme">>, <<"String", "public_key_der">>,
       <<"u16", "credential_scheme">>, <<"String", "signature">> >>

-----------------------------------------------------------------------------
\* struct ServiceCredential and its impls.
ServiceCredentialMembers ==
    [service_name |-> "String", credential |-> "DelegatedCredential", private_key_pem |-> "String",
     public_key_der |-> "String", created_at |-> "u64", expires_at |-> "u64",
     credential_pem |-> "String"]

SerializeServiceCredential ==
    << <<"service_name", "service_name">>, <<"credential", "credential">>,
       <<"private_key_pem", "private_key_pem">>, <<"public_key_der", "public_key_der">>,
       <<"created_at", "created_at">>, <<"expires_at", "expires_at">>,
       <<"credential_pem", "credential_pem">> >>

\* A mutated form: two names of the same type change places.
ServiceCredentialSwappedNames ==
    <<"service_name", "credential", "private_key_pem", "public_key_der", "expires_at",
      "created_at", "credential_pem">>

ServiceCredentialFieldVisitor ==
    <<"service_name", "credential", "private_key_pem", "public_key_der", "created_at",
      "expires_at", "credential_pem">>

ServiceCredentialVisitSeq ==
    << <<"String", "service_name">>, <<"DelegatedCredential", "credential">>,
       <<"String", "private_key_pem">>, <<"String", "public_key_der">>, <<"u64", "created_at">>,
       <<"u64", "expires_at">>, <<"String", "credential_pem">> >>

ServiceCredentialVisitMap ==
    << <<"String", "service_name">>, <<"DelegatedCredential", "credential">>,
       <<"String", "private_key_pem">>, <<"String", "public_key_der">>, <<"u64", "created_at">>,
       <<"u64", "expires_at">>, <<"String", "credential_pem">> >>

-----------------------------------------------------------------------------
\* struct DelegatedCredentialData, which wraps a ServiceCredential.
DelegatedCredentialDataMembers == [inner |-> "ServiceCredential"]

SerializeDelegatedCredentialData == << <<"inner", "inner">> >>

DelegatedCredentialDataFieldVisitor == <<"inner">>

DelegatedCredentialDataVisitSeq == << <<"ServiceCredential", "inner">> >>

DelegatedCredentialDataVisitMap == << <<"ServiceCredential", "inner">> >>

-----------------------------------------------------------------------------
\* struct VerificationInfo and its impls, in credentials.rs.
VerificationInfoMembers ==
    [service_name |-> "String", valid_time |-> "u32", expected_verify_scheme |-> "u16",
     public_key_der |-> "String", expires_at |-> "u64"]

SerializeVerificationInfo ==
    << <<"service_name", "service_name">>, <<"valid_time", "valid_time">>,
       <<"expected_verify_scheme", "expected_verify_scheme">>,
       <<"public_key_der", "public_key_der">>, <<"expires_at", "expires_at">> >>

VerificationInfoFieldVisitor ==
    <<"service_name", "valid_time", "expected_verify_scheme", "public_key_der", "expires_at">>

VerificationInfoVisitSeq ==
    << <<"String", "service_name">>, <<"u32", "valid_time">>, <<"u16", "expected_verify_scheme">>,
       <<"String", "public_key_der">>, <<"u64", "expires_at">> >>

VerificationInfoVisitMap ==
    << <<"String", "service_name">>, <<"u32", "valid_time">>, <<"u16", "expected_verify_scheme">>,
       <<"String", "public_key_der">>, <<"u64", "expires_at">> >>

-----------------------------------------------------------------------------
\* All four.
SerdeStructs == {"DelegatedCredential", "ServiceCredential", "DelegatedCredentialData", "VerificationInfo"}

DeclaredTypes ==
    [DelegatedCredential |-> DelegatedCredentialMembers, ServiceCredential |-> ServiceCredentialMembers,
     DelegatedCredentialData |-> DelegatedCredentialDataMembers,
     VerificationInfo |-> VerificationInfoMembers]

SerializeImpls ==
    [DelegatedCredential |-> SerializeDelegatedCredential,
     ServiceCredential |-> SerializeServiceCredential,
     DelegatedCredentialData |-> SerializeDelegatedCredentialData,
     VerificationInfo |-> SerializeVerificationInfo]

FieldVisitors ==
    [DelegatedCredential |-> DelegatedCredentialFieldVisitor,
     ServiceCredential |-> ServiceCredentialFieldVisitor,
     DelegatedCredentialData |-> DelegatedCredentialDataFieldVisitor,
     VerificationInfo |-> VerificationInfoFieldVisitor]

VisitSeqs ==
    [DelegatedCredential |-> DelegatedCredentialVisitSeq,
     ServiceCredential |-> ServiceCredentialVisitSeq,
     DelegatedCredentialData |-> DelegatedCredentialDataVisitSeq,
     VerificationInfo |-> VerificationInfoVisitSeq]

VisitMaps ==
    [DelegatedCredential |-> DelegatedCredentialVisitMap,
     ServiceCredential |-> ServiceCredentialVisitMap,
     DelegatedCredentialData |-> DelegatedCredentialDataVisitMap,
     VerificationInfo |-> VerificationInfoVisitMap]
=============================================================================
