------------------------------- MODULE Serde -------------------------------
(***************************************************************************)
(* The hand-expanded serde implementations of src/types.rs and             *)
(* src/credentials.rs.  Four structs have the same code, each copy with    *)
(* its own tables: what Serialize writes, how __FieldVisitor names the     *)
(* fields, what visit_seq and visit_map read.  The tables are constants    *)
(* here and are given in SerdeTypes; this module is the code around them.  *)
(*                                                                         *)
(* A document is read from the outside in: a stack has one frame for each  *)
(* visit_map or visit_seq in progress.  The document is what this crate    *)
(* wrote (source = "own"), or anything at all.                             *)
(***************************************************************************)
EXTENDS Naturals, Sequences

CONSTANTS
    Structs,       \* the structs with these implementations
    Declared,      \* Declared[S][m]: the type of member m of S
    Serialize,     \* Serialize[S][i]: key and member of the i-th field written
    FieldVisitor,  \* FieldVisitor[S][i]: the name for __field(i - 1)
    VisitSeq,      \* VisitSeq[S][i]: type read and member set by the i-th element
    VisitMap,      \* VisitMap[S][i]: type read and member set by __field(i - 1)
    None           \* Option::None, and a key that stands for no member

\* Tables are lists, no name or member is the absence of one, and no member is
\* an Option.
ASSUME TablesAssumption ==
    \A S \in Structs :
        /\ \A T \in {FieldVisitor[S], Serialize[S], VisitSeq[S], VisitMap[S]} :
             Len(T) \in Nat /\ DOMAIN T = 1..Len(T)
        /\ None \notin DOMAIN Declared[S]
        /\ \A m \in DOMAIN Declared[S] : Declared[S][m] # "Option"
        /\ \A i \in DOMAIN Serialize[S] : Serialize[S][i][1] # None

VARIABLES
    source,  \* "own" or "foreign"
    root,    \* the struct asked for
    stack,   \* the frames, innermost first
    result,  \* "none", "ok" or "err"
    built,   \* which value each member of a finished struct was given
    flaw     \* history: what is wrong with the document so far

vars == <<source, root, stack, result, built, flaw>>

Forms == {"map", "seq"}
Encodings == {"u16", "u32", "u64", "String", "struct", "other"}
Members(S) == DOMAIN Declared[S]
Fields(S) == 1..Len(FieldVisitor[S])

\* What serde's visitor of a type accepts: a number of at most its width, text,
\* or the beginning of a nested struct.
Accepts(type) ==
    IF type \in Structs THEN {"struct"}
    ELSE CASE type = "u16" -> {"u16"}
           [] type = "u32" -> {"u16", "u32"}
           [] type = "u64" -> {"u16", "u32", "u64"}
           [] OTHER -> {"String"}

Frame(S) == [struct  : {S}, form : Forms,
             got     : [Fields(S) -> Members(S) \union {None}],
             pos     : Nat,                          \* elements read by visit_seq
             offered : SUBSET Members(S),            \* history: members with a value so far
             field   : Nat, from : Members(S) \union {None}]  \* awaiting a nested value

NewFrame(S, form) ==
    [struct |-> S, form |-> form, got |-> [i \in Fields(S) |-> None], pos |-> 0,
     offered |-> {}, field |-> 0, from |-> None]

Init ==
    /\ source \in {"own", "foreign"} /\ root \in Structs
    /\ \E form \in Forms : stack = <<NewFrame(root, form)>>
    /\ result = "none" /\ built = {} /\ flaw = {}

-----------------------------------------------------------------------------
\* Keys of a map, <<name, None>> or <<None, index>>: the names of any of the
\* structs, an unknown one, and indices up to one too many.
Keys(S) ==
    {<<None, i>> : i \in 0..Len(Serialize[S])} \union {<<None, None>>}
      \union UNION {{<<Serialize[T][i][1], None>> : i \in DOMAIN Serialize[T]} : T \in Structs}

\* The fields a writer means by a key: the one Serialize writes under that
\* name, or at that index.
Meant(S, key) == {i \in DOMAIN Serialize[S] : key[1] = Serialize[S][i][1] \/ key[2] = i - 1}
Intent(S, key) == IF Meant(S, key) = {} THEN None
                  ELSE Serialize[S][CHOOSE i \in Meant(S, key) : TRUE][2]

\* __FieldVisitor: visit_str and visit_bytes by name, visit_u64 by index; 0 is
\* __ignore.
Named(S, key) == {i \in Fields(S) : key[1] = FieldVisitor[S][i] \/ key[2] = i - 1}
Identify(S, key) == IF Named(S, key) = {} THEN 0 ELSE CHOOSE i \in Named(S, key) : TRUE

Reading(form) == stack # <<>> /\ Head(stack).form = form

\* Its own documents hold every field once, with a value of its type.
WellWritten(S, m, e, offered) ==
    m # None => m \notin offered /\ e \in Accepts(Declared[S][m])

\* The flaws a value e for member m adds to the document.
FlawsOf(S, m, e, offered) ==
    IF m = None THEN {}
    ELSE {x \in {"duplicate"} : m \in offered}
           \union {x \in {"misfit"} : e \notin Accepts(Declared[S][m])}

Fail == stack' = <<>> /\ result' = "err" /\ UNCHANGED built

\* next_value::<type> or next_element::<type> for field n, on a frame that has
\* noted the offer.
Receive(f, n, type, m, e) ==
    \/ e \notin Accepts(type) /\ Fail
    \/ /\ e \in Accepts(type) /\ type \notin Structs
       /\ stack' = <<[f EXCEPT !.got[n] = m]>> \o Tail(stack)
       /\ UNCHANGED <<result, built>>
    \/ /\ e \in Accepts(type) /\ type \in Structs
       /\ \E form \in Forms :
            /\ source = "own" => form = f.form
            /\ stack' = <<NewFrame(type, form), [f EXCEPT !.field = n, !.from = m]>> \o Tail(stack)
       /\ UNCHANGED <<result, built>>

\* Ok(Struct { member: __field, ... }), and the return to the visitor around it.
Build(f, table) ==
    /\ built' = built \union {[struct |-> f.struct, member |-> table[i][2], from |-> f.got[i]] :
                                 i \in DOMAIN table}
    /\ IF Len(stack) = 1
       THEN stack' = <<>> /\ result' = "ok"
       ELSE /\ stack' = <<[stack[2] EXCEPT !.got[stack[2].field] = stack[2].from,
                                           !.field = 0, !.from = None]>>
                          \o Tail(Tail(stack))
            /\ UNCHANGED result

-----------------------------------------------------------------------------
\* A mutated form: the second value of a field replaces the first.
NeverDuplicate(f, n) == FALSE

\* Option::is_some(&__field).
IsDuplicate(f, n) == f.got[n] # None

\* One turn of the loop of visit_map.
MapEntry(key, e) ==
    LET f == Head(stack)
        n == Identify(f.struct, key)
        m == Intent(f.struct, key)
        g == [f EXCEPT !.offered = @ \union ({m} \ {None})]
    IN
    /\ Reading("map")
    /\ source = "own" => WellWritten(f.struct, m, e, f.offered)
    /\ flaw' = flaw \union FlawsOf(f.struct, m, e, f.offered)
    /\ IF n = 0
       THEN stack' = <<g>> \o Tail(stack) /\ UNCHANGED <<result, built>>
       ELSE IF IsDuplicate(f, n) THEN Fail
       ELSE Receive(g, n, VisitMap[f.struct][n][1], m, e)
    /\ UNCHANGED <<source, root>>

\* bridge::missing_field: an error, for every type but an Option.
MissingField(type) == type # "Option"

Missing(f) == {i \in Fields(f.struct) : f.got[i] = None /\ MissingField(VisitMap[f.struct][i][1])}

\* next_key returns None: every field has a value, or missing_field fails.
MapEnd ==
    LET f == Head(stack) IN
    /\ Reading("map")
    /\ source = "own" => f.offered = Members(f.struct)
    /\ flaw' = flaw \union {x \in {"missing"} : f.offered # Members(f.struct)}
    /\ IF Missing(f) # {} THEN Fail ELSE Build(f, VisitMap[f.struct])
    /\ UNCHANGED <<source, root>>

\* next_element of visit_seq.
SeqElement(e) ==
    LET f == Head(stack)
        n == f.pos + 1
        m == Intent(f.struct, <<None, f.pos>>)
        g == [f EXCEPT !.offered = @ \union ({m} \ {None}), !.pos = n]
    IN
    /\ Reading("seq") /\ f.pos < Len(VisitSeq[f.struct])
    /\ source = "own" => m # None /\ WellWritten(f.struct, m, e, f.offered)
    /\ flaw' = flaw \union FlawsOf(f.struct, m, e, f.offered)
    /\ Receive(g, n, VisitSeq[f.struct][n][1], m, e)
    /\ UNCHANGED <<source, root>>

\* next_element returns None: invalid_length.
SeqEnd ==
    LET f == Head(stack) IN
    /\ Reading("seq") /\ f.pos < Len(VisitSeq[f.struct])
    /\ source = "own" => f.offered = Members(f.struct)
    /\ flaw' = flaw \union {x \in {"missing"} : f.offered # Members(f.struct)}
    /\ Fail
    /\ UNCHANGED <<source, root>>

\* Every element has been read.
SeqDone ==
    /\ Reading("seq") /\ Head(stack).pos = Len(VisitSeq[Head(stack).struct])
    /\ Build(Head(stack), VisitSeq[Head(stack).struct])
    /\ UNCHANGED <<source, root, flaw>>

Finished == stack = <<>> /\ UNCHANGED vars

Next ==
    \/ \E e \in Encodings : \/ \E key \in (IF stack = <<>> THEN {} ELSE Keys(Head(stack).struct)) :
                                  MapEntry(key, e)
                            \/ SeqElement(e)
    \/ MapEnd \/ SeqEnd \/ SeqDone \/ Finished

Spec == Init /\ [][Next]_vars

\* A deserializer gets to the end of what it reads.
FairSpec == Spec /\ WF_vars(Next)

-----------------------------------------------------------------------------
\* Every member of every struct that is returned holds the value written for
\* that member of that struct, although members of different structs share
\* their names, entries come in any order and structs nest.
NoValueCrosses ==
    /\ \A b \in built : b.from = b.member
    /\ result = "ok" => \A m \in Members(root) : \E b \in built : b.struct = root /\ b.member = m

\* A document is refused if and only if a field is missing, comes twice, or
\* has a value its declared type cannot hold, at any depth; unknown keys and
\* the order of the entries make no difference.
RefusedIffFlawed ==
    /\ result = "err" => flaw # {}
    /\ result = "ok" => flaw = {}

\* What Serialize wrote is read back, as a map in any order, with unknown keys
\* in between, or as a sequence.
OwnDocumentRead == source = "own" ~> result = "ok"

\* The tables of the copies agree: the order and names of Serialize, of
\* __FieldVisitor, visit_seq and visit_map, and the declared types.
TablesAgree ==
    \A S \in Structs :
        /\ \A T \in {FieldVisitor, VisitSeq, VisitMap} : Len(T[S]) = Len(Serialize[S])
        /\ Members(S) = {Serialize[S][i][2] : i \in DOMAIN Serialize[S]}
        /\ \A i \in DOMAIN Serialize[S] :
             /\ FieldVisitor[S][i] = Serialize[S][i][1]
             /\ VisitSeq[S][i] = <<Declared[S][Serialize[S][i][2]], Serialize[S][i][2]>>
             /\ VisitMap[S][i] = VisitSeq[S][i]
             /\ \A j \in DOMAIN Serialize[S] : i # j => Serialize[S][i][1] # Serialize[S][j][1]
                                                 /\ Serialize[S][i][2] # Serialize[S][j][2]
=============================================================================
