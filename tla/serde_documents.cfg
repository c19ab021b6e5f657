SPECIFICATION FairSpec
CONSTANTS
    None = None
    Structs <- SerdeStructs
    Declared <- DeclaredTypes
    Serialize <- SerializeImpls
    FieldVisitor <- FieldVisitors
    VisitSeq <- VisitSeqs
    VisitMap <- VisitMaps
INVARIANTS
    NoValueCrosses
    RefusedIffFlawed
PROPERTY
    OwnDocumentRead
