---------------------------- MODULE SerdeProofs ----------------------------
(***************************************************************************)
(* Proofs about the serde implementations, for any structs whose tables    *)
(* agree: nested to any depth, with any number of fields.                  *)
(***************************************************************************)
EXTENDS Serde, TLAPS

AnyFrame == UNION {Frame(S) : S \in Structs}

\* The members of the fields of f that have a value, or are about to get one.
Filled(f) == {i \in Fields(f.struct) : f.got[i] # None \/ i = f.field}

\* A frame in progress: each field holds the value of its own member, and what
\* was offered is what was taken.
FrameOK(f) ==
    /\ f.struct \in Structs /\ f \in Frame(f.struct)
    /\ \A i \in Fields(f.struct) : f.got[i] \in {None, Serialize[f.struct][i][2]}
    /\ f.field # 0 => f.field \in Fields(f.struct) /\ f.from = Serialize[f.struct][f.field][2]
    /\ f.offered = {Serialize[f.struct][i][2] : i \in Filled(f)}
    /\ f.form = "seq" => f.pos <= Len(FieldVisitor[f.struct]) /\ Filled(f) = 1..f.pos

StackOK(s) ==
    /\ s \in Seq(AnyFrame)
    /\ \A i \in 1..Len(s) : FrameOK(s[i]) /\ (s[i].field = 0 <=> i = 1)
    /\ s # <<>> => s[Len(s)].struct = root

\* The inductive invariant.
IInv ==
    /\ root \in Structs
    /\ StackOK(stack)
    /\ (result = "none") <=> (stack # <<>>)
    /\ result \in {"none", "ok", "err"}
    /\ (result = "err") <=> (flaw # {})
    /\ NoValueCrosses

-----------------------------------------------------------------------------
\* The three shapes a stack takes after a step: its first frame replaced, a
\* frame put on top of the replaced one, the first frame returned to the second.
LEMMA ReplaceTop ==
    ASSUME NEW V, NEW s \in Seq(V), s # <<>>, NEW g \in V
    PROVE  /\ <<g>> \o Tail(s) \in Seq(V) /\ Len(<<g>> \o Tail(s)) = Len(s)
           /\ (<<g>> \o Tail(s))[1] = g
           /\ \A i \in 2..Len(s) : (<<g>> \o Tail(s))[i] = s[i]
  OBVIOUS

\* A frame put on top of the replaced one.
LEMMA PushTop ==
    ASSUME NEW V, NEW s \in Seq(V), s # <<>>, NEW f \in V, NEW g \in V
    PROVE  /\ <<f, g>> \o Tail(s) \in Seq(V) /\ Len(<<f, g>> \o Tail(s)) = Len(s) + 1
           /\ (<<f, g>> \o Tail(s))[1] = f /\ (<<f, g>> \o Tail(s))[2] = g
           /\ \A i \in 3..Len(s) + 1 : (<<f, g>> \o Tail(s))[i] = s[i - 1]
  OBVIOUS

\* The first frame returned to the second, which is replaced.
LEMMA PopTop ==
    ASSUME NEW V, NEW s \in Seq(V), Len(s) > 1, NEW g \in V
    PROVE  /\ <<g>> \o Tail(Tail(s)) \in Seq(V) /\ Len(<<g>> \o Tail(Tail(s))) = Len(s) - 1
           /\ (<<g>> \o Tail(Tail(s)))[1] = g
           /\ \A i \in 2..Len(s) - 1 : (<<g>> \o Tail(Tail(s)))[i] = s[i + 1]
  <1>0. s # <<>>
    OBVIOUS
  <1>1. Tail(s) \in Seq(V) /\ Len(Tail(s)) = Len(s) - 1
    BY <1>0
  <1>3. Tail(s) # <<>>
    <2>1. Len(Tail(s)) # 0 /\ Len(<<>>) = 0
      BY <1>1
    <2> QED
      BY <2>1, Zenon
  <1>2. Len(s) \in Nat /\ \A i \in 1..Len(s) - 1 : Tail(s)[i] = s[i + 1]
    OBVIOUS
  <1> QED
    BY <1>1, <1>2, <1>3, ReplaceTop

\* What a key means to the writer and to __FieldVisitor.
LEMMA KeyFacts ==
    ASSUME TablesAgree, NEW S \in Structs, NEW key
    PROVE  \/ Identify(S, key) = 0 /\ Intent(S, key) = None
           \/ /\ Identify(S, key) \in Fields(S)
              /\ Intent(S, key) = Serialize[S][Identify(S, key)][2]
  <1>1. Meant(S, key) = Named(S, key)
    BY TablesAssumption DEF TablesAgree, Meant, Named, Fields
  <1>2. Named(S, key) \subseteq Fields(S)
    BY DEF Named
  <1> QED
    BY <1>1, <1>2 DEF Identify, Intent

\* What the tables say of field i.
LEMMA FieldFacts ==
    ASSUME TablesAgree, NEW S \in Structs, NEW i \in Fields(S)
    PROVE  /\ Serialize[S][i][2] \in Members(S) /\ Serialize[S][i][2] # None
           /\ Declared[S][Serialize[S][i][2]] # "Option"
           /\ VisitMap[S][i] = <<Declared[S][Serialize[S][i][2]], Serialize[S][i][2]>>
           /\ VisitSeq[S][i] = <<Declared[S][Serialize[S][i][2]], Serialize[S][i][2]>>
           /\ \A j \in Fields(S) : Serialize[S][i][2] = Serialize[S][j][2] => i = j
  <1>1. DOMAIN Serialize[S] = Fields(S)
    BY TablesAssumption DEF TablesAgree, Fields
  <1> QED
    BY <1>1, TablesAssumption DEF TablesAgree, Members

\* visit_map, visit_seq and serialize speak of the same fields.
LEMMA TableLengths ==
    ASSUME TablesAgree, NEW S \in Structs
    PROVE  /\ DOMAIN VisitMap[S] = Fields(S) /\ DOMAIN VisitSeq[S] = Fields(S)
           /\ DOMAIN Serialize[S] = Fields(S)
           /\ Len(VisitSeq[S]) = Len(FieldVisitor[S]) /\ Len(FieldVisitor[S]) \in Nat
           /\ Members(S) = {Serialize[S][i][2] : i \in Fields(S)}
  BY TablesAssumption DEF TablesAgree, Fields

\* The element after pos elements belongs to field pos + 1.
LEMMA PosFacts ==
    ASSUME TablesAgree, NEW S \in Structs, NEW p \in Nat, p < Len(VisitSeq[S])
    PROVE  p + 1 \in Fields(S) /\ Intent(S, <<None, p>>) = Serialize[S][p + 1][2]
  <1>1. p + 1 \in Fields(S)
    BY TableLengths DEF Fields
  <1>2. Meant(S, <<None, p>>) = {p + 1}
    <2>1. \A i \in DOMAIN Serialize[S] : Serialize[S][i][1] # None /\ i \in Nat
      BY TablesAssumption, TableLengths DEF Fields
    <2>2. \A i \in DOMAIN Serialize[S] : (p = i - 1) <=> (i = p + 1)
      BY <2>1
    <2> QED
      BY <2>1, <2>2, <1>1, TableLengths DEF Meant
  <1> QED
    BY <1>1, <1>2 DEF Intent

-----------------------------------------------------------------------------
\* A visitor that has read nothing.
LEMMA NewFrameOK ==
    ASSUME NEW S \in Structs, NEW form \in Forms
    PROVE  /\ FrameOK(NewFrame(S, form)) /\ NewFrame(S, form).field = 0
           /\ NewFrame(S, form).struct = S
  <1> DEFINE f == NewFrame(S, form)
  <1>1. /\ f.struct = S /\ f.form = form /\ f.got = [i \in Fields(S) |-> None]
        /\ f.pos = 0 /\ f.offered = {} /\ f.field = 0 /\ f.from = None
    BY DEF NewFrame
  <1>2. f \in Frame(S)
    BY DEF NewFrame, Frame
  <1>3. Filled(f) = {}
    BY <1>1 DEF Filled, Fields
  <1>4. Len(FieldVisitor[S]) \in Nat
    BY TablesAssumption
  <1> HIDE DEF f
  <1>5. FrameOK(f)
    BY <1>1, <1>2, <1>3, <1>4 DEF FrameOK
  <1> QED
    BY <1>1, <1>5 DEF f

\* g is the frame f after it has noted the offer of the member m of field n.
Offer(f, n, m, g) ==
    /\ n \in Fields(f.struct) /\ f.got[n] = None /\ m = Serialize[f.struct][n][2]
    /\ g \in Frame(f.struct) /\ g.form = f.form /\ g.got = f.got /\ g.field = 0
    /\ g.offered = f.offered \union ({m} \ {None})
    /\ f.form = "seq" => n = f.pos + 1 /\ g.pos = n

\* It takes the value, or waits for a nested one.
Taken(g, n, m) == [g EXCEPT !.got[n] = m]
Waiting(g, n, m) == [g EXCEPT !.field = n, !.from = m]

\* A frame after a value for one of its fields was taken, or is being read by
\* a nested visitor.
LEMMA TakenFrameOK ==
    ASSUME TablesAgree, NEW f, FrameOK(f), f.field = 0, NEW n, NEW m, NEW g, Offer(f, n, m, g)
    PROVE  /\ FrameOK(Taken(g, n, m)) /\ Taken(g, n, m).field = 0 /\ Taken(g, n, m).struct = f.struct
           /\ FrameOK(Waiting(g, n, m)) /\ Waiting(g, n, m).field # 0
           /\ Waiting(g, n, m).struct = f.struct
  <1> DEFINE S == f.struct
             a == Taken(g, n, m)
             b == Waiting(g, n, m)
  <1> USE DEF Offer
  <1>0. S \in Structs /\ f \in Frame(S) /\ g.struct = S
    BY DEF FrameOK, Frame
  <1>1. m \in Members(S) /\ m # None /\ n \in Nat /\ n # 0 /\ n <= Len(FieldVisitor[S])
    BY <1>0, FieldFacts, TableLengths DEF Fields
  <1>2. /\ a.struct = S /\ a.form = f.form /\ a.pos = g.pos /\ a.offered = g.offered /\ a.field = 0
        /\ a.got = [f.got EXCEPT ![n] = m]
        /\ a \in Frame(S)
    BY <1>0, <1>1 DEF Frame, Taken
  <1>3. /\ b.struct = S /\ b.form = f.form /\ b.pos = g.pos /\ b.offered = g.offered /\ b.field = n
        /\ b.from = m /\ b.got = f.got
        /\ b \in Frame(S)
    BY <1>0, <1>1 DEF Frame, Waiting
  <1> HIDE DEF a, b
  <1>4. f.got \in [Fields(S) -> Members(S) \union {None}] /\ f.pos \in Nat
    BY <1>0 DEF Frame
  <1>5. Filled(a) = Filled(f) \union {n} /\ Filled(b) = Filled(f) \union {n}
    BY <1>0, <1>1, <1>2, <1>3, <1>4 DEF Filled, Fields
  <1>6. g.offered = {Serialize[S][i][2] : i \in Filled(f) \union {n}}
    BY <1>1 DEF FrameOK
  <1>7. f.form = "seq" => Filled(f) \union {n} = 1..g.pos /\ g.pos <= Len(FieldVisitor[S])
    BY <1>1, <1>4 DEF FrameOK
  <1>8. FrameOK(a)
    <2>1. \A i \in Fields(S) : a.got[i] \in {None, Serialize[S][i][2]}
      BY <1>2, <1>4 DEF FrameOK
    <2>2. a.offered = {Serialize[S][i][2] : i \in Filled(a)}
      BY <1>2, <1>5, <1>6
    <2>3. a.form = "seq" => a.pos <= Len(FieldVisitor[S]) /\ Filled(a) = 1..a.pos
      BY <1>2, <1>5, <1>7
    <2> QED
      BY <1>0, <1>2, <2>1, <2>2, <2>3 DEF FrameOK
  <1>9. FrameOK(b)
    BY <1>0, <1>1, <1>3, <1>5, <1>6, <1>7 DEF FrameOK
  <1> QED
    BY <1>1, <1>2, <1>3, <1>8, <1>9 DEF a, b

\* A waiting frame gets the struct its nested visitor returned.
LEMMA ReturnedFrameOK ==
    ASSUME TablesAgree, NEW f, FrameOK(f), f.field # 0
    PROVE  LET g == [f EXCEPT !.got[f.field] = f.from, !.field = 0, !.from = None]
           IN  FrameOK(g) /\ g.field = 0 /\ g.struct = f.struct
  <1> DEFINE S == f.struct
             g == [f EXCEPT !.got[f.field] = f.from, !.field = 0, !.from = None]
  <1>0. S \in Structs /\ f \in Frame(S) /\ f.field \in Fields(S) /\ f.from = Serialize[S][f.field][2]
    BY DEF FrameOK
  <1>1. f.from \in Members(S) /\ f.from # None
    BY <1>0, FieldFacts
  <1>2. /\ g.struct = S /\ g.form = f.form /\ g.pos = f.pos /\ g.offered = f.offered /\ g.field = 0
        /\ g.got = [f.got EXCEPT ![f.field] = f.from]
        /\ g \in Frame(S)
    BY <1>0, <1>1 DEF Frame
  <1> HIDE DEF g
  <1>3. f.got \in [Fields(S) -> Members(S) \union {None}]
    BY <1>0 DEF Frame
  <1>4. Filled(g) = Filled(f)
    BY <1>0, <1>1, <1>2, <1>3 DEF Filled, Fields
  <1>5. FrameOK(g)
    BY <1>0, <1>2, <1>3, <1>4 DEF FrameOK
  <1> QED
    BY <1>2, <1>5 DEF g

-----------------------------------------------------------------------------
\* AnyFrame is a set of all frames the invariant admits.
LEMMA FrameIsAny ==
    ASSUME NEW f, FrameOK(f) PROVE f \in AnyFrame
  BY DEF FrameOK, AnyFrame

\* The visitor on top of the stack is not waiting for another.
LEMMA TopFrame ==
    ASSUME StackOK(stack), stack # <<>>
    PROVE  /\ Head(stack) = stack[1] /\ FrameOK(stack[1]) /\ stack[1].field = 0
           /\ Len(stack) \in Nat /\ Len(stack) >= 1
  <1>1. Len(stack) \in Nat /\ Len(stack) >= 1 /\ Head(stack) = stack[1]
    BY DEF StackOK
  <1> QED
    BY <1>1 DEF StackOK

\* The top visitor goes on.
LEMMA StackReplace ==
    ASSUME StackOK(stack), stack # <<>>,
           NEW g, FrameOK(g), g.field = 0, g.struct = Head(stack).struct
    PROVE  StackOK(<<g>> \o Tail(stack)) /\ <<g>> \o Tail(stack) # <<>>
  <1> DEFINE t == <<g>> \o Tail(stack)
  <1>0. stack \in Seq(AnyFrame) /\ g \in AnyFrame
    BY FrameIsAny DEF StackOK
  <1>1. /\ t \in Seq(AnyFrame) /\ Len(t) = Len(stack) /\ t[1] = g
        /\ \A i \in 2..Len(stack) : t[i] = stack[i]
    BY <1>0, ReplaceTop
  <1> HIDE DEF t
  <1>2. Len(stack) \in Nat /\ Len(stack) >= 1 /\ Head(stack) = stack[1]
    BY TopFrame
  <1>3. \A i \in 1..Len(t) : FrameOK(t[i]) /\ (t[i].field = 0 <=> i = 1)
    <2> TAKE i \in 1..Len(t)
    <2>1. CASE i = 1
      BY <1>1, <2>1
    <2>2. CASE i # 1
      <3>1. i \in 2..Len(stack) /\ i \in 1..Len(stack)
        BY <1>1, <1>2, <2>2
      <3> QED
        BY <1>1, <2>2, <3>1 DEF StackOK
    <2> QED
      BY <2>1, <2>2
  <1>4. t # <<>> /\ t[Len(t)].struct = root
    <2>1. t # <<>>
      BY <1>1, <1>2
    <2>2. CASE Len(stack) = 1
      BY <1>1, <1>2, <2>1, <2>2 DEF StackOK
    <2>3. CASE Len(stack) # 1
      <3>0. Len(stack) >= 2
        <4>1. \A k \in Nat : k >= 1 /\ k # 1 => k >= 2
          OBVIOUS
        <4> QED
          BY <1>2, <2>3, <4>1, Zenon
      <3>1. Len(stack) \in 2..Len(stack)
        BY <1>2, <3>0
      <3> QED
        BY <1>1, <2>1, <3>1 DEF StackOK
    <2> QED
      BY <2>2, <2>3
  <1> QED
    BY <1>1, <1>3, <1>4 DEF StackOK, t

\* The top visitor calls a nested one and waits for it.
LEMMA StackPush ==
    ASSUME StackOK(stack), stack # <<>>,
           NEW g, FrameOK(g), g.field # 0, g.struct = Head(stack).struct,
           NEW h, FrameOK(h), h.field = 0
    PROVE  StackOK(<<h, g>> \o Tail(stack)) /\ <<h, g>> \o Tail(stack) # <<>>
  <1> DEFINE t == <<h, g>> \o Tail(stack)
  <1>0. stack \in Seq(AnyFrame) /\ g \in AnyFrame /\ h \in AnyFrame
    BY FrameIsAny DEF StackOK
  <1>1. /\ t \in Seq(AnyFrame) /\ Len(t) = Len(stack) + 1 /\ t[1] = h /\ t[2] = g
        /\ \A i \in 3..Len(stack) + 1 : t[i] = stack[i - 1]
    BY <1>0, PushTop
  <1> HIDE DEF t
  <1>2. Len(stack) \in Nat /\ Len(stack) >= 1 /\ Head(stack) = stack[1]
    BY TopFrame
  <1>3. \A i \in 1..Len(t) : FrameOK(t[i]) /\ (t[i].field = 0 <=> i = 1)
    <2> TAKE i \in 1..Len(t)
    <2>1. CASE i \in {1, 2}
      BY <1>1, <2>1
    <2>2. CASE i \notin {1, 2}
      <3>1. i \in 3..Len(stack) + 1 /\ i - 1 \in 1..Len(stack) /\ i - 1 # 1
        BY <1>1, <1>2, <2>2
      <3> QED
        BY <1>1, <2>2, <3>1 DEF StackOK
    <2> QED
      BY <2>1, <2>2
  <1>4. t # <<>> /\ t[Len(t)].struct = root
    <2>1. t # <<>>
      BY <1>1, <1>2
    <2>2. CASE Len(stack) = 1
      BY <1>1, <1>2, <2>1, <2>2 DEF StackOK
    <2>3. CASE Len(stack) # 1
      <3>0. Len(stack) >= 2
        <4>1. \A k \in Nat : k >= 1 /\ k # 1 => k >= 2
          OBVIOUS
        <4> QED
          BY <1>2, <2>3, <4>1, Zenon
      <3>1. Len(t) \in 3..Len(stack) + 1 /\ Len(t) - 1 = Len(stack)
        BY <1>1, <1>2, <3>0
      <3> QED
        BY <1>1, <2>1, <3>1 DEF StackOK
    <2> QED
      BY <2>2, <2>3
  <1> QED
    BY <1>1, <1>3, <1>4 DEF StackOK, t

\* A nested visitor returns to the one that waited.
LEMMA StackPop ==
    ASSUME StackOK(stack), Len(stack) > 1,
           NEW g, FrameOK(g), g.field = 0, g.struct = stack[2].struct
    PROVE  StackOK(<<g>> \o Tail(Tail(stack))) /\ <<g>> \o Tail(Tail(stack)) # <<>>
  <1> DEFINE t == <<g>> \o Tail(Tail(stack))
  <1>0. stack \in Seq(AnyFrame) /\ g \in AnyFrame
    BY FrameIsAny DEF StackOK
  <1>1. /\ t \in Seq(AnyFrame) /\ Len(t) = Len(stack) - 1 /\ t[1] = g
        /\ \A i \in 2..Len(stack) - 1 : t[i] = stack[i + 1]
    BY <1>0, PopTop
  <1> HIDE DEF t
  <1>2. Len(stack) \in Nat /\ stack # <<>>
    BY <1>0
  <1>3. \A i \in 1..Len(t) : FrameOK(t[i]) /\ (t[i].field = 0 <=> i = 1)
    <2> TAKE i \in 1..Len(t)
    <2>1. CASE i = 1
      BY <1>1, <2>1
    <2>2. CASE i # 1
      <3>1. i \in 2..Len(stack) - 1 /\ i + 1 \in 1..Len(stack) /\ i + 1 # 1
        BY <1>1, <1>2, <2>2
      <3> QED
        BY <1>1, <2>2, <3>1 DEF StackOK
    <2> QED
      BY <2>1, <2>2
  <1>4. t # <<>> /\ t[Len(t)].struct = root
    <2>1. t # <<>>
      BY <1>1, <1>2
    <2>2. CASE Len(stack) = 2
      BY <1>1, <1>2, <2>1, <2>2 DEF StackOK
    <2>3. CASE Len(stack) # 2
      <3>1. Len(t) \in 2..Len(stack) - 1 /\ Len(t) + 1 = Len(stack)
        BY <1>1, <1>2, <2>3
      <3> QED
        BY <1>1, <1>2, <2>1, <3>1 DEF StackOK
    <2> QED
      BY <2>2, <2>3
  <1> QED
    BY <1>1, <1>3, <1>4 DEF StackOK, t

-----------------------------------------------------------------------------
\* Giving up on a document with a flaw.
LEMMA FailOK ==
    ASSUME IInv, Fail, flaw' # {}, UNCHANGED root
    PROVE  IInv'
  <1>1. StackOK(stack)'
    BY DEF Fail, StackOK
  <1> QED
    BY <1>1 DEF IInv, Fail, NoValueCrosses

\* A visitor still at work on a document without a flaw.
LEMMA StillReading ==
    ASSUME IInv, stack # <<>>, StackOK(stack'), stack' # <<>>,
           UNCHANGED <<result, built, flaw, root>>
    PROVE  IInv'
  <1>1. StackOK(stack)'
    BY DEF StackOK
  <1> QED
    BY <1>1 DEF IInv, NoValueCrosses

\* A value for a field that has none yet: refused if and only if it does not fit.
LEMMA ReceiveOK ==
    ASSUME TablesAgree, IInv, stack # <<>>, NEW n, NEW m, NEW e, NEW g, NEW f, f = Head(stack),
           Offer(f, n, m, g), m \notin f.offered, flaw' = flaw \union FlawsOf(f.struct, m, e, f.offered),
           Receive(g, n, Declared[f.struct][m], m, e), UNCHANGED root
    PROVE  IInv'
  <1> DEFINE S == f.struct
             type == Declared[S][m]
  <1>a. StackOK(stack)
    BY Zenon DEF IInv
  <1>b. FrameOK(f) /\ f.field = 0
    BY <1>a, TopFrame, Zenon
  <1>c. S \in Structs
    BY <1>b, Zenon DEF FrameOK
  <1>0. StackOK(stack) /\ FrameOK(f) /\ f.field = 0 /\ S \in Structs
    BY <1>a, <1>b, <1>c, Zenon
  <1>1. m # None
    <2>1. n \in Fields(S) /\ m = Serialize[S][n][2]
      BY DEF Offer
    <2>2. Serialize[S][n][2] # None
      BY <1>c, <2>1, FieldFacts
    <2> QED
      BY <2>1, <2>2
  <1>2. flaw = {}
    BY DEF IInv
  <1>3. CASE e \notin Accepts(type) /\ Fail
    <2>1. flaw' # {}
      BY <1>1, <1>3 DEF FlawsOf
    <2> QED
      BY <1>3, <2>1, FailOK
  <1>4. CASE e \in Accepts(type)
    <2>1. UNCHANGED flaw
      BY <1>1, <1>2, <1>4 DEF FlawsOf
    <2>2. CASE type \notin Structs
      <3>1. stack' = <<Taken(g, n, m)>> \o Tail(stack) /\ UNCHANGED <<result, built>>
        BY <1>4, <2>2 DEF Receive, Taken
      <3>2. FrameOK(Taken(g, n, m)) /\ Taken(g, n, m).field = 0 /\ Taken(g, n, m).struct = f.struct
        BY <1>b, TakenFrameOK
      <3>3. StackOK(stack') /\ stack' # <<>>
        BY <1>0, <3>1, <3>2, StackReplace
      <3> QED
        BY <2>1, <3>1, <3>3, StillReading
    <2>3. CASE type \in Structs
      <3>1. PICK form \in Forms :
              stack' = <<NewFrame(type, form), Waiting(g, n, m)>> \o Tail(stack)
        BY <1>4, <2>3 DEF Receive, Waiting
      <3>2. UNCHANGED <<result, built>>
        BY <1>4, <2>3 DEF Receive
      <3>3. /\ FrameOK(Waiting(g, n, m)) /\ Waiting(g, n, m).field # 0
            /\ Waiting(g, n, m).struct = f.struct
        BY <1>b, TakenFrameOK
      <3>4. FrameOK(NewFrame(type, form)) /\ NewFrame(type, form).field = 0
        BY <2>3, NewFrameOK
      <3>5. StackOK(stack') /\ stack' # <<>>
        BY <1>0, <3>1, <3>3, <3>4, StackPush
      <3> QED
        BY <2>1, <3>2, <3>5, StillReading
    <2> QED
      BY <2>2, <2>3
  <1> QED
    BY <1>3, <1>4, Zenon DEF Receive

\* A frame whose fields all have a value is turned into its struct.
LEMMA BuildOK ==
    ASSUME TablesAgree, IInv, stack # <<>>, NEW f, f = Head(stack),
           \A i \in Fields(f.struct) : f.got[i] # None,
           NEW table, DOMAIN table = Fields(f.struct),
           \A i \in Fields(f.struct) : table[i][2] = Serialize[f.struct][i][2],
           Build(f, table), UNCHANGED <<flaw, root>>
    PROVE  IInv'
  <1> DEFINE S == f.struct
             new == {[struct |-> S, member |-> table[i][2], from |-> f.got[i]] : i \in DOMAIN table}
  <1>0. /\ StackOK(stack) /\ f = stack[1] /\ FrameOK(f) /\ S \in Structs
        /\ Len(stack) \in Nat /\ Len(stack) >= 1
    BY TopFrame DEF IInv, FrameOK
  <1>1. \A i \in Fields(S) : f.got[i] = table[i][2]
    BY <1>0 DEF FrameOK
  <1>2. built' = built \union new
    BY DEF Build
  <1>3. \A b \in new : b.from = b.member
    BY <1>1
  <1>4. \A b \in built' : b.from = b.member
    BY <1>2, <1>3 DEF IInv, NoValueCrosses
  <1>5. CASE Len(stack) = 1
    <2>1. stack' = <<>> /\ result' = "ok"
      BY <1>5 DEF Build
    <2>2. root = S
      BY <1>0, <1>5 DEF StackOK
    <2>3. \A m \in Members(root) : \E b \in built' : b.struct = root /\ b.member = m
      <3> TAKE m \in Members(root)
      <3>1. PICK i \in Fields(S) : m = Serialize[S][i][2]
        BY <1>0, <2>2, TableLengths
      <3>2. [struct |-> S, member |-> table[i][2], from |-> f.got[i]] \in built'
        BY <1>2, <3>1
      <3> QED
        BY <2>2, <3>1, <3>2
    <2>4. StackOK(stack)'
      BY <2>1 DEF StackOK
    <2>5. NoValueCrosses'
      BY <1>4, <2>3 DEF NoValueCrosses
    <2> QED
      BY <2>1, <2>4, <2>5 DEF IInv
  <1>6. CASE Len(stack) # 1
    <2>0. Len(stack) > 1
      <3>1. \A k \in Nat : k >= 1 /\ k # 1 => k > 1
        OBVIOUS
      <3> QED
        BY <1>0, <1>6, <3>1, Zenon
    <2> DEFINE p == stack[2]
               g == [p EXCEPT !.got[p.field] = p.from, !.field = 0, !.from = None]
    <2>1. stack' = <<g>> \o Tail(Tail(stack)) /\ UNCHANGED result
      BY <1>6 DEF Build
    <2>2. FrameOK(p) /\ p.field # 0
      BY <1>0, <2>0 DEF StackOK
    <2>3. FrameOK(g) /\ g.field = 0 /\ g.struct = p.struct
      BY <2>2, ReturnedFrameOK
    <2> HIDE DEF g
    <2>4. StackOK(stack') /\ stack' # <<>>
      BY <1>0, <2>0, <2>1, <2>3, StackPop
    <2>5. StackOK(stack)'
      BY <2>4 DEF StackOK
    <2>6. result = "none"
      BY DEF IInv
    <2>7. NoValueCrosses'
      BY <1>4, <2>1, <2>6 DEF NoValueCrosses
    <2> QED
      BY <2>1, <2>4, <2>5, <2>6, <2>7 DEF IInv
  <1> QED
    BY <1>5, <1>6

-----------------------------------------------------------------------------
\* A field of the innermost frame has a value if and only if its member was
\* offered.
LEMMA OfferedFacts ==
    ASSUME TablesAgree, NEW f, FrameOK(f), f.field = 0, NEW n \in Fields(f.struct)
    PROVE  (f.got[n] # None) <=> (Serialize[f.struct][n][2] \in f.offered)
  <1>1. f.struct \in Structs /\ n # 0
    BY DEF FrameOK, Fields
  <1>2. n \in Filled(f) <=> f.got[n] # None
    BY <1>1 DEF Filled
  <1>3. Filled(f) \subseteq Fields(f.struct)
    BY DEF Filled
  <1> QED
    BY <1>1, <1>2, <1>3, FieldFacts DEF FrameOK

\* Every field has its value exactly when every member was offered one.
LEMMA AllOffered ==
    ASSUME TablesAgree, NEW f, FrameOK(f), f.field = 0
    PROVE  (\A n \in Fields(f.struct) : f.got[n] # None) <=> (f.offered = Members(f.struct))
  <1>1. Members(f.struct) = {Serialize[f.struct][i][2] : i \in Fields(f.struct)}
    BY TableLengths DEF FrameOK
  <1>2. f.offered \subseteq Members(f.struct)
    BY <1>1 DEF FrameOK, Filled
  <1> QED
    BY <1>1, <1>2, OfferedFacts

\* An entry of a map preserves the invariant.
LEMMA MapEntryOK ==
    ASSUME TablesAgree, IInv, NEW key, NEW e, MapEntry(key, e)
    PROVE  IInv'
  <1> DEFINE f == Head(stack)
             S == f.struct
             n == Identify(S, key)
             m == Intent(S, key)
             g == [f EXCEPT !.offered = @ \union ({m} \ {None})]
  <1>0. /\ stack # <<>> /\ f.form = "map" /\ UNCHANGED root
        /\ flaw' = flaw \union FlawsOf(S, m, e, f.offered)
    BY DEF MapEntry, Reading
  <1>1. StackOK(stack) /\ FrameOK(f) /\ f.field = 0 /\ S \in Structs /\ f \in Frame(S)
    BY <1>0, TopFrame DEF IInv, FrameOK
  <1>2. CASE n = 0
    <2>1. m = None
      BY <1>1, <1>2, KeyFacts DEF Fields
    <2>2. g = f
      BY <1>1, <2>1 DEF Frame
    <2>3. UNCHANGED flaw
      BY <1>0, <2>1 DEF FlawsOf
    <2>4. stack' = <<f>> \o Tail(stack) /\ UNCHANGED <<result, built>>
      BY <1>2, <2>2 DEF MapEntry
    <2>5. StackOK(stack') /\ stack' # <<>>
      BY <1>0, <1>1, <2>4, StackReplace
    <2> QED
      BY <1>0, <2>3, <2>4, <2>5, StillReading
  <1>3. CASE n # 0
    <2>1. n \in Fields(S) /\ m = Serialize[S][n][2]
      BY <1>1, <1>3, KeyFacts
    <2>2. m # None /\ m \in Members(S) /\ VisitMap[S][n][1] = Declared[S][m]
      BY <1>1, <2>1, FieldFacts
    <2>3. CASE f.got[n] # None
      <3>1. m \in f.offered
        BY <1>1, <2>1, <2>3, OfferedFacts
      <3>2. flaw' # {}
        BY <1>0, <2>2, <3>1 DEF FlawsOf
      <3>3. Fail
        BY <1>3, <2>3 DEF MapEntry, IsDuplicate
      <3> QED
        BY <1>0, <3>2, <3>3, FailOK
    <2>4. CASE f.got[n] = None
      <3>1. m \notin f.offered
        BY <1>1, <2>1, <2>4, OfferedFacts
      <3>2. Receive(g, n, Declared[S][m], m, e)
        BY <1>3, <2>2, <2>4 DEF MapEntry, IsDuplicate
      <3>3. /\ g \in Frame(S) /\ g.form = f.form /\ g.got = f.got /\ g.field = 0
            /\ g.offered = f.offered \union ({m} \ {None})
        BY <1>1, <2>2 DEF Frame
      <3> HIDE DEF f, n, m, g
      <3>4. Offer(f, n, m, g)
        BY <1>0, <2>1, <2>4, <3>3 DEF Offer
      <3>5. f = Head(stack)
        BY DEF f
      <3> QED
        BY <1>0, <3>1, <3>2, <3>4, <3>5, ReceiveOK, Zenon
    <2> QED
      BY <2>3, <2>4
  <1> QED
    BY <1>2, <1>3

\* An element of a sequence preserves the invariant.
LEMMA SeqElementOK ==
    ASSUME TablesAgree, IInv, NEW e, SeqElement(e)
    PROVE  IInv'
  <1> DEFINE f == Head(stack)
             S == f.struct
             n == f.pos + 1
             m == Intent(S, <<None, f.pos>>)
             g == [f EXCEPT !.offered = @ \union ({m} \ {None}), !.pos = n]
  <1>0. /\ stack # <<>> /\ f.form = "seq" /\ UNCHANGED root /\ f.pos < Len(VisitSeq[S])
        /\ flaw' = flaw \union FlawsOf(S, m, e, f.offered)
        /\ Receive(g, n, VisitSeq[S][n][1], m, e)
    BY DEF SeqElement, Reading
  <1>1. /\ StackOK(stack) /\ FrameOK(f) /\ f.field = 0 /\ S \in Structs /\ f \in Frame(S)
        /\ f.pos \in Nat
    <2>1. StackOK(stack) /\ FrameOK(f) /\ f.field = 0
      BY <1>0, TopFrame DEF IInv
    <2>2. S \in Structs /\ f \in Frame(S)
      BY <2>1 DEF FrameOK
    <2> QED
      BY <2>1, <2>2 DEF Frame
  <1>2. n \in Fields(S) /\ m = Serialize[S][n][2]
    BY <1>0, <1>1, PosFacts
  <1>3. m # None /\ m \in Members(S) /\ VisitSeq[S][n][1] = Declared[S][m]
    BY <1>1, <1>2, FieldFacts
  <1>4. f.got[n] = None
    <2>1. Filled(f) = 1..f.pos
      BY <1>0, <1>1 DEF FrameOK
    <2>2. n \notin 1..f.pos
      BY <1>1
    <2> QED
      BY <1>2, <2>1, <2>2 DEF Filled
  <1>5. m \notin f.offered
    BY <1>1, <1>2, <1>4, OfferedFacts
  <1>6. /\ g \in Frame(S) /\ g.form = f.form /\ g.got = f.got /\ g.field = 0 /\ g.pos = n
        /\ g.offered = f.offered \union ({m} \ {None})
    <2>1. n \in Nat /\ f \in Frame(S) /\ f.field = 0
      BY <1>1
    <2> HIDE DEF f, n, m
    <2> QED
      BY <2>1, <1>3 DEF Frame
  <1>7. n = f.pos + 1 /\ f = Head(stack)
    OBVIOUS
  <1>8. Receive(g, n, Declared[S][m], m, e)
    BY <1>0, <1>3
  <1> HIDE DEF f, n, m, g
  <1>9. Offer(f, n, m, g)
    BY <1>2, <1>4, <1>6, <1>7 DEF Offer
  <1> QED
    BY <1>0, <1>5, <1>7, <1>8, <1>9, ReceiveOK, Zenon

\* The end of a map, with or without a missing field, preserves the invariant.
LEMMA MapEndOK ==
    ASSUME TablesAgree, IInv, MapEnd
    PROVE  IInv'
  <1> DEFINE f == Head(stack)
             S == f.struct
  <1>0. /\ stack # <<>> /\ UNCHANGED root
        /\ flaw' = flaw \union {x \in {"missing"} : f.offered # Members(S)}
    BY DEF MapEnd, Reading
  <1>1. StackOK(stack) /\ FrameOK(f) /\ f.field = 0 /\ S \in Structs
    BY <1>0, TopFrame DEF IInv, FrameOK
  <1>2. Missing(f) = {i \in Fields(S) : f.got[i] = None}
    <2>1. \A i \in Fields(S) : VisitMap[S][i][1] # "Option"
      BY <1>1, FieldFacts
    <2> QED
      BY <2>1 DEF Missing, MissingField
  <1>3. CASE f.offered # Members(S)
    <2>1. Missing(f) # {}
      BY <1>1, <1>2, <1>3, AllOffered
    <2>2. Fail
      BY <2>1 DEF MapEnd
    <2>3. flaw' # {}
      BY <1>0, <1>3
    <2> QED
      BY <1>0, <2>2, <2>3, FailOK
  <1>4. CASE f.offered = Members(S)
    <2>1. \A i \in Fields(S) : f.got[i] # None
      BY <1>1, <1>4, AllOffered
    <2>2. Build(f, VisitMap[S]) /\ UNCHANGED flaw
      BY <1>0, <1>2, <1>4, <2>1 DEF MapEnd
    <2>3. DOMAIN VisitMap[S] = Fields(S)
      BY <1>1, TableLengths
    <2>4. \A i \in Fields(S) : VisitMap[S][i][2] = Serialize[S][i][2]
      BY <1>1, FieldFacts
    <2>5. f = Head(stack)
      OBVIOUS
    <2> HIDE DEF f
    <2> QED
      BY <1>0, <2>1, <2>2, <2>3, <2>4, <2>5, BuildOK
  <1> QED
    BY <1>3, <1>4

\* A sequence that ends too early preserves the invariant.
LEMMA SeqEndOK ==
    ASSUME TablesAgree, IInv, SeqEnd
    PROVE  IInv'
  <1> DEFINE f == Head(stack)
             S == f.struct
  <1>0. /\ stack # <<>> /\ f.form = "seq" /\ UNCHANGED root /\ f.pos < Len(VisitSeq[S]) /\ Fail
        /\ flaw' = flaw \union {x \in {"missing"} : f.offered # Members(S)}
    BY DEF SeqEnd, Reading
  <1>1. StackOK(stack) /\ FrameOK(f) /\ f.field = 0
    BY <1>0, TopFrame DEF IInv
  <1>2. S \in Structs /\ f.pos \in Nat /\ Filled(f) = 1..f.pos
    BY <1>0, <1>1 DEF FrameOK, Frame
  <1>3. f.pos + 1 \in Fields(S) /\ f.pos + 1 \notin 1..f.pos
    <2>1. f.pos + 1 \in Fields(S)
      BY <1>0, <1>2, PosFacts
    <2>2. \A k \in Nat : k + 1 \notin 1..k
      OBVIOUS
    <2> QED
      BY <1>2, <2>1, <2>2, Zenon
  <1>4. f.got[f.pos + 1] = None
    BY <1>2, <1>3 DEF Filled
  <1>5. f.offered # Members(S)
    BY <1>1, <1>3, <1>4, AllOffered
  <1>6. flaw' # {}
    BY <1>0, <1>5
  <1> QED
    BY <1>0, <1>6, FailOK

\* A sequence with all its elements preserves the invariant.
LEMMA SeqDoneOK ==
    ASSUME TablesAgree, IInv, SeqDone
    PROVE  IInv'
  <1> DEFINE f == Head(stack)
             S == f.struct
  <1>0. /\ stack # <<>> /\ f.form = "seq" /\ UNCHANGED <<flaw, root>> /\ f.pos = Len(VisitSeq[S])
        /\ Build(f, VisitSeq[S])
    BY DEF SeqDone, Reading
  <1>1. StackOK(stack) /\ FrameOK(f) /\ f.field = 0
    BY <1>0, TopFrame DEF IInv
  <1>2. S \in Structs /\ Filled(f) = 1..f.pos
    BY <1>0, <1>1 DEF FrameOK
  <1>3. Filled(f) = Fields(S)
    BY <1>0, <1>2, TableLengths DEF Fields
  <1>4. \A i \in Fields(S) : f.got[i] # None
    BY <1>1, <1>3 DEF Filled, Fields
  <1>5. DOMAIN VisitSeq[S] = Fields(S)
    BY <1>2, TableLengths
  <1>6. \A i \in Fields(S) : VisitSeq[S][i][2] = Serialize[S][i][2]
    BY <1>2, FieldFacts
  <1>7. f = Head(stack)
    OBVIOUS
  <1> HIDE DEF f
  <1> QED
    BY <1>0, <1>4, <1>5, <1>6, <1>7, BuildOK

-----------------------------------------------------------------------------
\* Every visitor in progress holds, for each field, the value of its own member
\* or none, and gives up exactly on a flaw.
THEOREM VisitorInvariant ==
    ASSUME TablesAgree
    PROVE  Spec => []IInv
  <1>1. Init => IInv
    <2> SUFFICES ASSUME Init PROVE IInv
      OBVIOUS
    <2>1. PICK form \in Forms : stack = <<NewFrame(root, form)>>
      BY DEF Init
    <2>2. root \in Structs
      BY DEF Init
    <2>3. /\ FrameOK(NewFrame(root, form)) /\ NewFrame(root, form).field = 0
          /\ NewFrame(root, form).struct = root
      BY <2>2, NewFrameOK
    <2>4. NewFrame(root, form) \in AnyFrame
      BY <2>3, FrameIsAny
    <2>5. StackOK(stack)
      BY <2>1, <2>3, <2>4 DEF StackOK
    <2>6. stack # <<>>
      BY <2>1
    <2> QED
      BY <2>2, <2>5, <2>6 DEF Init, IInv, NoValueCrosses
  <1>2. IInv /\ [Next]_vars => IInv'
    <2> SUFFICES ASSUME IInv, [Next]_vars PROVE IInv'
      OBVIOUS
    <2>1. ASSUME NEW key, NEW e, MapEntry(key, e) PROVE IInv'
      BY <2>1, MapEntryOK
    <2>2. ASSUME NEW e, SeqElement(e) PROVE IInv'
      BY <2>2, SeqElementOK
    <2>3. CASE UNCHANGED vars
      BY <2>3, Zenon DEF vars, IInv, StackOK, NoValueCrosses
    <2>4. CASE Finished
      BY <2>3, <2>4 DEF Finished
    <2> QED
      BY <2>1, <2>2, <2>3, <2>4, MapEndOK, SeqEndOK, SeqDoneOK DEF Next
  <1> QED
    BY <1>1, <1>2, PTL DEF Spec

\* For structs with any tables that agree, nested to any depth, every member of
\* a struct that deserialization returns holds the value written for it.
THEOREM NoValueCrossesHolds ==
    ASSUME TablesAgree
    PROVE  Spec => []NoValueCrosses
  <1>1. IInv => NoValueCrosses
    BY DEF IInv
  <1> QED
    BY <1>1, VisitorInvariant, PTL

\* For such structs a document is refused if and only if it has a flaw.
THEOREM RefusedIffFlawedHolds ==
    ASSUME TablesAgree
    PROVE  Spec => []RefusedIffFlawed
  <1>1. IInv => RefusedIffFlawed
    BY DEF IInv, RefusedIffFlawed
  <1> QED
    BY <1>1, VisitorInvariant, PTL

\* A document that the crate wrote is never refused.
OwnNotRefused == source = "own" => result # "err"

\* What Serialize writes has no flaw, as a map in any order or as a sequence, so
\* the visitors, whatever they meet in it, never give up on it.
THEOREM OwnNotRefusedHolds ==
    ASSUME TablesAgree
    PROVE  Spec => []OwnNotRefused
  <1> DEFINE Sound == source = "own" => flaw = {}
  <1>1. Init => Sound
    BY DEF Init
  <1>2. Sound /\ [Next]_vars => Sound'
    <2> SUFFICES ASSUME Sound, [Next]_vars, source' = "own" PROVE flaw' = {}
      OBVIOUS
    <2>0. source = "own" /\ flaw = {}
      BY DEF Next, vars, MapEntry, SeqElement, MapEnd, SeqEnd, SeqDone, Finished
    <2>1. ASSUME NEW S, NEW m, NEW e, NEW offered, WellWritten(S, m, e, offered)
          PROVE  FlawsOf(S, m, e, offered) = {}
      BY <2>1 DEF WellWritten, FlawsOf
    <2>2. ASSUME NEW key, NEW e, MapEntry(key, e) PROVE flaw' = {}
      BY <2>0, <2>1, <2>2 DEF MapEntry
    <2>3. ASSUME NEW e, SeqElement(e) PROVE flaw' = {}
      BY <2>0, <2>1, <2>3 DEF SeqElement
    <2>4. CASE MapEnd
      BY <2>0, <2>4 DEF MapEnd
    <2>5. CASE SeqEnd
      BY <2>0, <2>5 DEF SeqEnd
    <2>6. CASE SeqDone \/ Finished \/ UNCHANGED vars
      BY <2>0, <2>6 DEF SeqDone, Finished, vars
    <2> QED
      BY <2>2, <2>3, <2>4, <2>5, <2>6 DEF Next
  <1>3. IInv /\ Sound => OwnNotRefused
    BY DEF IInv, OwnNotRefused
  <1> QED
    BY <1>1, <1>2, <1>3, VisitorInvariant, PTL DEF Spec
=============================================================================
