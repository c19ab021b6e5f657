-------------------------- MODULE SerdeTypesProofs --------------------------
(***************************************************************************)
(* The theorems of SerdeProofs, for the four structs of the crate.         *)
(***************************************************************************)
EXTENDS SerdeTypes, Naturals, Sequences, TLAPS

CONSTANT None

VARIABLES source, root, stack, result, built, flaw

Crate == INSTANCE SerdeProofs WITH
    Structs <- SerdeStructs, Declared <- DeclaredTypes, Serialize <- SerializeImpls,
    FieldVisitor <- FieldVisitors, VisitSeq <- VisitSeqs, VisitMap <- VisitMaps

\* None is no key and no member.
NoneIsNew ==
    \A S \in SerdeStructs :
        /\ None \notin DOMAIN DeclaredTypes[S]
        /\ \A i \in DOMAIN SerializeImpls[S] : SerializeImpls[S][i][1] # None

\* The tables of one struct agree.
Agree(decl, ser, names, seq, map) ==
    /\ \A T \in {names, seq, map} : Len(T) = Len(ser)
    /\ DOMAIN decl = {ser[i][2] : i \in DOMAIN ser}
    /\ \A i \in DOMAIN ser :
         /\ names[i] = ser[i][1]
         /\ seq[i] = <<decl[ser[i][2]], ser[i][2]>>
         /\ map[i] = seq[i]
         /\ \A j \in DOMAIN ser : i # j => ser[i][1] # ser[j][1] /\ ser[i][2] # ser[j][2]

\* The tables of each struct name the same members, in the same order and with
\* the same types: DelegatedCredential,
LEMMA DelegatedCredentialAgrees ==
    Agree(DelegatedCredentialMembers, SerializeDelegatedCredential, DelegatedCredentialFieldVisitor,
          DelegatedCredentialVisitSeq, DelegatedCredentialVisitMap)
  BY DEF Agree, DelegatedCredentialMembers, SerializeDelegatedCredential,
         DelegatedCredentialFieldVisitor, DelegatedCredentialVisitSeq, DelegatedCredentialVisitMap

\* ServiceCredential,
LEMMA ServiceCredentialAgrees ==
    Agree(ServiceCredentialMembers, SerializeServiceCredential, ServiceCredentialFieldVisitor,
          ServiceCredentialVisitSeq, ServiceCredentialVisitMap)
  BY DEF Agree, ServiceCredentialMembers, SerializeServiceCredential,
         ServiceCredentialFieldVisitor, ServiceCredentialVisitSeq, ServiceCredentialVisitMap

\* DelegatedCredentialData,
LEMMA DelegatedCredentialDataAgrees ==
    Agree(DelegatedCredentialDataMembers, SerializeDelegatedCredentialData,
          DelegatedCredentialDataFieldVisitor, DelegatedCredentialDataVisitSeq,
          DelegatedCredentialDataVisitMap)
  BY DEF Agree, DelegatedCredentialDataMembers, SerializeDelegatedCredentialData,
         DelegatedCredentialDataFieldVisitor, DelegatedCredentialDataVisitSeq,
         DelegatedCredentialDataVisitMap

\* VerificationInfo.
LEMMA VerificationInfoAgrees ==
    Agree(VerificationInfoMembers, SerializeVerificationInfo, VerificationInfoFieldVisitor,
          VerificationInfoVisitSeq, VerificationInfoVisitMap)
  BY DEF Agree, VerificationInfoMembers, SerializeVerificationInfo,
         VerificationInfoFieldVisitor, VerificationInfoVisitSeq, VerificationInfoVisitMap

\* The tables of the four hand-expanded implementations agree.
THEOREM CrateTablesAgree == Crate!TablesAgree
  <1>1. ASSUME NEW S \in SerdeStructs
        PROVE  Agree(DeclaredTypes[S], SerializeImpls[S], FieldVisitors[S], VisitSeqs[S], VisitMaps[S])
    BY DelegatedCredentialAgrees, ServiceCredentialAgrees, DelegatedCredentialDataAgrees,
       VerificationInfoAgrees
       DEF SerdeStructs, DeclaredTypes, SerializeImpls, FieldVisitors, VisitSeqs, VisitMaps
  <1> QED
    BY <1>1 DEF Agree, Crate!TablesAgree, Crate!Members

\* The tables of one struct are lists, and no member is an Option.
Shaped(decl, ser, names, seq, map) ==
    /\ \A T \in {names, ser, seq, map} : Len(T) \in Nat /\ DOMAIN T = 1..Len(T)
    /\ \A m \in DOMAIN decl : decl[m] # "Option"

\* The tables of each struct are of the shape Serde assumes:
\* DelegatedCredential,
LEMMA DelegatedCredentialShaped ==
    Shaped(DelegatedCredentialMembers, SerializeDelegatedCredential, DelegatedCredentialFieldVisitor,
           DelegatedCredentialVisitSeq, DelegatedCredentialVisitMap)
  BY DEF Shaped, DelegatedCredentialMembers, SerializeDelegatedCredential,
       DelegatedCredentialFieldVisitor, DelegatedCredentialVisitSeq, DelegatedCredentialVisitMap

\* ServiceCredential,
LEMMA ServiceCredentialShaped ==
    Shaped(ServiceCredentialMembers, SerializeServiceCredential, ServiceCredentialFieldVisitor,
           ServiceCredentialVisitSeq, ServiceCredentialVisitMap)
  BY DEF Shaped, ServiceCredentialMembers, SerializeServiceCredential,
       ServiceCredentialFieldVisitor, ServiceCredentialVisitSeq, ServiceCredentialVisitMap

\* DelegatedCredentialData,
LEMMA DelegatedCredentialDataShaped ==
    Shaped(DelegatedCredentialDataMembers, SerializeDelegatedCredentialData, DelegatedCredentialDataFieldVisitor,
           DelegatedCredentialDataVisitSeq, DelegatedCredentialDataVisitMap)
  BY DEF Shaped, DelegatedCredentialDataMembers, SerializeDelegatedCredentialData,
       DelegatedCredentialDataFieldVisitor, DelegatedCredentialDataVisitSeq, DelegatedCredentialDataVisitMap

\* VerificationInfo.
LEMMA VerificationInfoShaped ==
    Shaped(VerificationInfoMembers, SerializeVerificationInfo, VerificationInfoFieldVisitor,
           VerificationInfoVisitSeq, VerificationInfoVisitMap)
  BY DEF Shaped, VerificationInfoMembers, SerializeVerificationInfo,
       VerificationInfoFieldVisitor, VerificationInfoVisitSeq, VerificationInfoVisitMap

\* So the assumption of Serde holds of the tables of the crate.
LEMMA CrateTablesAssumption ==
    ASSUME NoneIsNew
    PROVE  Crate!TablesAssumption
  <1>1. ASSUME NEW S \in SerdeStructs
        PROVE  Shaped(DeclaredTypes[S], SerializeImpls[S], FieldVisitors[S], VisitSeqs[S], VisitMaps[S])
    BY DelegatedCredentialShaped, ServiceCredentialShaped, DelegatedCredentialDataShaped,
       VerificationInfoShaped
       DEF SerdeStructs, DeclaredTypes, SerializeImpls, FieldVisitors, VisitSeqs, VisitMaps
  <1> QED
    BY <1>1 DEF NoneIsNew, Shaped, Crate!TablesAssumption

\* Every member of a struct of the crate that is deserialized holds the value
\* written for it.
THEOREM CrateNoValueCrosses ==
    ASSUME NoneIsNew
    PROVE  Crate!Spec => []Crate!NoValueCrosses
  BY CrateTablesAssumption, CrateTablesAgree, Crate!NoValueCrossesHolds, Zenon

\* A document for a struct of the crate is refused if and only if it has a flaw.
THEOREM CrateRefusedIffFlawed ==
    ASSUME NoneIsNew
    PROVE  Crate!Spec => []Crate!RefusedIffFlawed
  BY CrateTablesAssumption, CrateTablesAgree, Crate!RefusedIffFlawedHolds, Zenon

\* What the crate wrote it never refuses.
THEOREM CrateOwnNotRefused ==
    ASSUME NoneIsNew
    PROVE  Crate!Spec => []Crate!OwnNotRefused
  BY CrateTablesAssumption, CrateTablesAgree, Crate!OwnNotRefusedHolds, Zenon
=============================================================================
