-------------------------- MODULE EchoBenchProofs --------------------------
(***************************************************************************)
(* The safety properties of EchoBench, for any number of connections,      *)
(* rounds and failures.                                                    *)
(***************************************************************************)
EXTENDS EchoBench, FiniteSetTheorems, TLAPS

\* Phases before the handshake has ended: nothing has been read or written.
Fresh == {"none", "queued", "broken", "handshake"}

\* What the fields of one session object say of each other.  A session that
\* failed and still has its read callback has lost its transport; without that
\* a batch could start a write behind the deferred deletion.
RecordOK(r, good) ==
    /\ r.phase \in Fresh => /\ r.reads = Rounds /\ r.writes = 0 /\ ~r.stopped
                            /\ ~r.failed /\ ~r.shook /\ ~r.reading
    /\ r.phase \in {"finishing", "gone"} => r.stopped /\ r.writes = 0
    /\ r.stopped /\ ~r.failed => r.reads = 0
    /\ r.failed /\ r.reading => ~good
    /\ r.phase = "gone" => ~good /\ ~r.reading

\* The continuation of a session exists when the session is deleted.
SessionOK(s, p) ==
    /\ RecordOK(session[s][p], open[s][p])
    /\ Phase(s, p) = "gone" <=> cont[s][p] # "none"
    /\ cont[s][p] \in {"value", "counted", "last"} => ~session[s][p].failed

\* 1 while the client has a batch of its own out: it sends one, then one for
\* each echo but the last.
Ahead(p) == IF Phase("client", p) \in Fresh \/ session["client"][p].reads = 0 THEN 0 ELSE 1

\* Every batch on its way was sent and not yet received (it may have been lost),
\* and every unanswered write was a batch sent.
BatchesOK(p) ==
    LET c == session["client"][p]
        v == session["server"][p]
    IN  /\ inflight["server"][p] + c.reads <= v.reads + Ahead(p)
        /\ inflight["client"][p] + v.reads <= c.reads
        /\ c.writes + c.reads <= Rounds + Ahead(p)
        /\ v.writes + v.reads <= Rounds

\* A connection not dialled has no session.
UndialedOK(p) ==
    p \notin dialed => \A s \in Sides : Phase(s, p) = "none"

PairOK(p) == (\A s \in Sides : SessionOK(s, p)) /\ BatchesOK(p) /\ UndialedOK(p)

\* The sessions whose continuation has passed the increment.
Passed(s) == {p \in Pairs : cont[s][p] \in {"counted", "last", "over"}}

\* The counter, the flag and the promise of a side.
JoinOK(s) ==
    /\ completed[s] <= Cardinality(Passed(s))
    /\ \A p \in Pairs : cont[s][p] = "last" => completed[s] = Cardinality(Pairs)
    /\ \A p, q \in Pairs : cont[s][p] = "last" /\ cont[s][q] = "last" => p = q
    /\ fired[s] <=> future[s] # "none"
    /\ ~fired[s] => \A p \in Passed(s) : ~session[s][p].failed
    /\ future[s] = "value" => \A p \in Pairs : cont[s][p] \in {"counted", "over"} /\ ~session[s][p].failed

\* What the calling thread knows by where it is.
MainOK ==
    /\ main \in {"client", "stopping", "stopped", "joining", "returned"} => future["server"] = "value"
    /\ main \in {"stopping", "stopped", "joining", "returned"} => future["client"] = "value"
    /\ ~acceptor => baton /\ main \in {"joining", "returned"}

\* The inductive invariant.
BInv == TypeOK /\ (\A p \in Pairs : PairOK(p)) /\ (\A s \in Sides : JoinOK(s)) /\ MainOK

-----------------------------------------------------------------------------
(***************************************************************************)
(* Session objects.                                                        *)
(***************************************************************************)
\* What maybeFinish does to the fields of a session.
LEMMA MaybeFinishFacts ==
    ASSUME NEW r \in Session
    PROVE  LET n == MaybeFinish(r) IN
           /\ n \in Session
           /\ n.reads = r.reads /\ n.writes = r.writes /\ n.stopped = r.stopped
           /\ n.failed = r.failed /\ n.shook = r.shook /\ n.reading = r.reading
           /\ n.phase = IF r.stopped /\ r.writes = 0 /\ r.phase # "gone" THEN "finishing" ELSE r.phase
  BY DEF MaybeFinish, Session

\* What setError does to them.
LEMMA SetErrorFacts ==
    ASSUME NEW r \in Session
    PROVE  LET n == SetError(r) IN
           /\ n \in Session
           /\ n.reads = r.reads /\ n.writes = r.writes /\ n.stopped /\ n.failed
           /\ n.shook = r.shook /\ n.reading = r.reading
           /\ n.phase = IF r.writes = 0 /\ r.phase # "gone" THEN "finishing" ELSE r.phase
<1> DEFINE e == [r EXCEPT !.failed = TRUE, !.stopped = TRUE]
<1>1. /\ e \in Session
      /\ e.reads = r.reads /\ e.writes = r.writes /\ e.stopped = TRUE /\ e.failed = TRUE
      /\ e.shook = r.shook /\ e.reading = r.reading /\ e.phase = r.phase
  BY DEF Session
<1>2. SetError(r) = MaybeFinish(e)
  BY DEF SetError
<1> HIDE DEF e
<1> QED BY <1>1, <1>2, MaybeFinishFacts

\* The fields of a session and the batches on their way are numbers.
LEMMA Numbers ==
    ASSUME TypeOK, NEW s \in Sides, NEW p \in Pairs
    PROVE  /\ session[s][p] \in Session
           /\ session[s][p].reads \in 0..Rounds /\ session[s][p].writes \in 0..Rounds
           /\ inflight[s][p] \in 0..1 /\ Rounds \in Nat /\ Rounds > 0
<1>1. session[s][p] \in Session /\ inflight[s][p] \in 0..1
  BY DEF TypeOK
<1> QED BY <1>1, EchoBenchAssumption DEF Session

\* A handler changes the session it runs on and no other.
LEMMA SetSessionFacts ==
    ASSUME TypeOK, NEW s \in Sides, NEW p \in Pairs, NEW r \in Session, SetSession(s, p, r)
    PROVE  /\ session' \in [Sides -> [Pairs -> Session]]
           /\ session'[s][p] = r
           /\ \A t \in Sides, q \in Pairs : t # s \/ q # p => session'[t][q] = session[t][q]
  BY DEF TypeOK, SetSession

\* What a step of pair p leaves alone in the other pairs.
OthersKept(p) ==
    \A t \in Sides, q \in Pairs \ {p} :
        /\ session'[t][q] = session[t][q] /\ open'[t][q] = open[t][q]
        /\ inflight'[t][q] = inflight[t][q] /\ cont'[t][q] = cont[t][q]
        /\ q \in dialed' <=> q \in dialed

\* They then keep their part of the invariant.
LEMMA OtherPairs ==
    ASSUME BInv, NEW p, OthersKept(p), NEW q \in Pairs, q # p
    PROVE  PairOK(q)'
<1>1. \A s \in Sides : SessionOK(s, q)'
  BY DEF BInv, PairOK, SessionOK, Phase, OthersKept
<1>2. BatchesOK(q)'
  BY DEF BInv, PairOK, BatchesOK, Ahead, Phase, OthersKept, Sides
<1>3. UndialedOK(q)'
  BY DEF BInv, PairOK, UndialedOK, Phase, OthersKept
<1> QED BY <1>1, <1>2, <1>3 DEF PairOK

\* A step of a session not yet deleted, away from the counters and the calling
\* thread, preserves the invariant if it does so for its own pair.
LEMMA SessionStep ==
    ASSUME BInv, NEW s \in Sides, NEW p \in Pairs, Phase(s, p) # "gone",
           TypeOK', PairOK(p)', OthersKept(p),
           session'[Peer(s)][p] = session[Peer(s)][p],
           cont' = cont, UNCHANGED joinVars, UNCHANGED mainVars
    PROVE  BInv'
<1>1. \A q \in Pairs : PairOK(q)'
  BY OtherPairs
<1>2. cont[s][p] = "none"
  BY DEF BInv, PairOK, SessionOK, Phase
<1>3. ASSUME NEW t \in Sides PROVE JoinOK(t)'
  <2>1. \A q \in Pairs : cont[t][q] # "none" => session'[t][q] = session[t][q]
    BY <1>2 DEF OthersKept, Sides, Peer
  <2>2. Passed(t)' = Passed(t)
    BY DEF Passed
  <2>3. \A q \in Passed(t) : session'[t][q] = session[t][q]
    BY <2>1 DEF Passed
  <2> QED BY <2>1, <2>2, <2>3 DEF BInv, JoinOK, joinVars
<1>4. MainOK'
  BY DEF BInv, MainOK, mainVars, joinVars
<1> QED BY <1>1, <1>3, <1>4 DEF BInv

\* A step that neither reads nor sends keeps the account of the batches.
LEMMA BatchesKept ==
    ASSUME TypeOK, session' \in [Sides -> [Pairs -> Session]], inflight' \in [Sides -> [Pairs -> 0..1]],
           NEW p \in Pairs, BatchesOK(p),
           \A s \in Sides : /\ session'[s][p].reads = session[s][p].reads
                            /\ session'[s][p].writes <= session[s][p].writes
                            /\ inflight'[s][p] <= inflight[s][p],
           Phase("client", p) \notin Fresh => Phase("client", p)' \notin Fresh
    PROVE  BatchesOK(p)'
<1> DEFINE c == session["client"][p]
           v == session["server"][p]
<1>1. /\ c.reads \in Nat /\ c.writes \in Nat /\ v.reads \in Nat /\ v.writes \in Nat
      /\ c'.writes \in Nat /\ v'.writes \in Nat
      /\ inflight["client"][p] \in Nat /\ inflight["server"][p] \in Nat
      /\ inflight'["client"][p] \in Nat /\ inflight'["server"][p] \in Nat /\ Rounds \in Nat
  <2>1. ASSUME NEW s \in Sides
        PROVE  /\ session'[s][p].reads \in 0..Rounds /\ session'[s][p].writes \in 0..Rounds
               /\ inflight'[s][p] \in 0..1
    <3>1. session'[s][p] \in Session /\ inflight'[s][p] \in 0..1
      OBVIOUS
    <3> QED BY <3>1 DEF Session
  <2>2. "client" \in Sides /\ "server" \in Sides
    BY DEF Sides
  <2> QED BY <2>1, <2>2, Numbers
<1>2. Ahead(p) \in Nat /\ Ahead(p)' \in Nat /\ Ahead(p) <= Ahead(p)'
  BY DEF Ahead, Sides
<1>3. /\ c'.reads = c.reads /\ v'.reads = v.reads /\ c'.writes <= c.writes /\ v'.writes <= v.writes
      /\ inflight'["client"][p] <= inflight["client"][p] /\ inflight'["server"][p] <= inflight["server"][p]
  BY DEF Sides
<1> HIDE DEF c, v
<1> QED BY <1>1, <1>2, <1>3 DEF BatchesOK, c, v

\* A handler closes its transport or leaves it; it never reopens one.
OpenTo(s, p, good) ==
    good \in BOOLEAN /\ (good => open[s][p]) /\ open' = [open EXCEPT ![s][p] = good]

\* It changes what is on its way on its own connection only.
InflightOf(p) ==
    /\ inflight' \in [Sides -> [Pairs -> 0..1]]
    /\ \A t \in Sides, q \in Pairs \ {p} : inflight'[t][q] = inflight[t][q]

\* It leaves the continuations, the counters and the calling thread alone.
Apart == UNCHANGED cont /\ UNCHANGED joinVars /\ UNCHANGED mainVars /\ faults' \in 0..MaxFaults

\* It starts on a session that is not deleted, and does not delete it.
Replaces(s, p, r) ==
    p \in dialed /\ Phase(s, p) # "gone" /\ r \in Session /\ r.phase # "gone" /\ SetSession(s, p, r)

\* The handlers of one session: the steps above it need only say what they do
\* to the object, and that the batches still add up.
LEMMA HandlerStep ==
    ASSUME BInv, NEW s \in Sides, NEW p \in Pairs, NEW r, Replaces(s, p, r), NEW good, OpenTo(s, p, good),
           RecordOK(r, good), BatchesOK(p)', InflightOf(p), Apart
    PROVE  BInv'
<1> USE DEF Replaces, OpenTo, InflightOf, Apart
<1>1. /\ session' \in [Sides -> [Pairs -> Session]]
      /\ session'[s][p] = r
      /\ \A t \in Sides, q \in Pairs : t # s \/ q # p => session'[t][q] = session[t][q]
  BY SetSessionFacts DEF BInv
<1>2. /\ open' \in [Sides -> [Pairs -> BOOLEAN]] /\ open'[s][p] = good
      /\ \A t \in Sides, q \in Pairs : t # s \/ q # p => open'[t][q] = open[t][q]
  BY DEF BInv, TypeOK
<1>3. TypeOK'
  BY <1>1, <1>2 DEF BInv, TypeOK, joinVars, mainVars
<1>4. OthersKept(p)
  BY <1>1, <1>2 DEF OthersKept, mainVars
<1>5. Peer(s) \in Sides /\ Peer(s) # s
  BY DEF Peer, Sides
<1>6. SessionOK(s, p)'
  BY <1>1, <1>2 DEF BInv, PairOK, SessionOK, Phase
<1>7. SessionOK(Peer(s), p)'
  BY <1>1, <1>2, <1>5 DEF BInv, PairOK, SessionOK, Phase
<1>8. PairOK(p)'
  BY <1>6, <1>7 DEF PairOK, UndialedOK, Peer, Sides, mainVars
<1> QED BY <1>1, <1>3, <1>4, <1>5, <1>8, SessionStep

\* A session that exists was dialled, and what it says of itself is right.
LEMMA SessionFacts ==
    ASSUME BInv, NEW s \in Sides, NEW p \in Pairs
    PROVE  /\ TypeOK /\ RecordOK(session[s][p], open[s][p]) /\ BatchesOK(p)
           /\ open[s][p] \in BOOLEAN
           /\ Phase(s, p) # "none" => p \in dialed
  BY DEF BInv, PairOK, SessionOK, UndialedOK, TypeOK

\* A handler that neither receives nor sends a batch.
LEMMA QuietStep ==
    ASSUME BInv, NEW s \in Sides, NEW p \in Pairs, NEW r, Replaces(s, p, r), NEW good, OpenTo(s, p, good),
           RecordOK(r, good), InflightOf(p), Apart,
           r.reads = session[s][p].reads, r.writes <= session[s][p].writes,
           Phase(s, p) \notin Fresh => r.phase \notin Fresh,
           \A t \in Sides : inflight'[t][p] <= inflight[t][p]
    PROVE  BInv'
<1>1. /\ session' \in [Sides -> [Pairs -> Session]]
      /\ session'[s][p] = r
      /\ \A t \in Sides, q \in Pairs : t # s \/ q # p => session'[t][q] = session[t][q]
  BY SetSessionFacts DEF BInv, Replaces
<1>2. TypeOK /\ BatchesOK(p)
  BY SessionFacts
<1>3. ASSUME NEW t \in Sides
      PROVE  session'[t][p].reads = session[t][p].reads /\ session'[t][p].writes <= session[t][p].writes
  <2>1. session[t][p].writes \in Nat
    BY <1>2, Numbers
  <2> QED BY <1>1, <2>1
<1>4. Phase("client", p) \notin Fresh => Phase("client", p)' \notin Fresh
  BY <1>1 DEF Phase, Sides
<1>5. BatchesOK(p)'
  BY <1>1, <1>2, <1>3, <1>4, BatchesKept DEF InflightOf
<1> QED BY <1>5, HandlerStep

\* Nothing on its way is lost or delivered.
LEMMA InflightKept ==
    ASSUME TypeOK, NEW p \in Pairs, UNCHANGED inflight
    PROVE  InflightOf(p) /\ \A t \in Sides : inflight'[t][p] <= inflight[t][p]
<1>1. inflight \in [Sides -> [Pairs -> 0..1]]
  BY DEF TypeOK
<1>2. \A t \in Sides, q \in Pairs : inflight[t][q] \in Nat
  BY <1>1
<1> QED BY <1>1, <1>2 DEF InflightOf

\* A fault is one of the few.
LEMMA FaultCounted == ASSUME TypeOK, Fault \/ UNCHANGED faults PROVE faults' \in 0..MaxFaults
  BY EchoBenchAssumption DEF TypeOK, Fault

\* A transport that is not closed stays as it is.
LEMMA OpenKept ==
    ASSUME TypeOK, NEW s \in Sides, NEW p \in Pairs, UNCHANGED open
    PROVE  OpenTo(s, p, open[s][p])
  BY DEF TypeOK, OpenTo

\* The closure that sets the connection up.
LEMMA SetUpKeeps == ASSUME BInv, NEW s \in Sides, NEW p \in Pairs, SetUp(s, p) PROVE BInv'
<1> DEFINE r == session[s][p]
           n == [r EXCEPT !.phase = "handshake"]
<1>1. /\ TypeOK /\ r \in Session /\ r.phase = "queued" /\ Phase(s, p) = "queued" /\ p \in dialed
      /\ r.writes \in Nat /\ SetSession(s, p, n)
  BY Numbers, SessionFacts DEF SetUp, Phase
<1>2. /\ n \in Session /\ n.phase = "handshake" /\ n.reads = r.reads /\ n.writes = r.writes
      /\ n.stopped = r.stopped /\ n.failed = r.failed /\ n.shook = r.shook /\ n.reading = r.reading
  BY <1>1 DEF Session
<1> HIDE DEF n
<1>3. RecordOK(n, open[s][p])
  BY <1>1, <1>2, SessionFacts DEF RecordOK, Fresh
<1>4. Replaces(s, p, n) /\ n.reads = r.reads /\ n.writes <= r.writes /\ Phase(s, p) \in Fresh
  BY <1>1, <1>2 DEF Replaces, Fresh
<1>5. OpenTo(s, p, open[s][p]) /\ InflightOf(p) /\ Apart /\ \A t \in Sides : inflight'[t][p] <= inflight[t][p]
  BY <1>1, InflightKept, OpenKept, FaultCounted DEF SetUp, Apart
<1> QED BY <1>3, <1>4, <1>5, QuietStep, Zenon

\* connectionAccepted queues the server's set-up.
LEMMA ConnectionAcceptedKeeps ==
    ASSUME BInv, NEW p \in Pairs, ConnectionAccepted(p) PROVE BInv'
<1> DEFINE r == session["server"][p]
           n == [r EXCEPT !.phase = "queued"]
<1>0. "server" \in Sides
  BY DEF Sides
<1>1. /\ TypeOK /\ r \in Session /\ r.phase = "none" /\ Phase("server", p) = "none" /\ p \in dialed
      /\ r.writes \in Nat /\ SetSession("server", p, n)
  BY <1>0, Numbers, SessionFacts DEF ConnectionAccepted, Phase
<1>2. /\ n \in Session /\ n.phase = "queued" /\ n.reads = r.reads /\ n.writes = r.writes
      /\ n.stopped = r.stopped /\ n.failed = r.failed /\ n.shook = r.shook /\ n.reading = r.reading
  BY <1>1 DEF Session
<1> HIDE DEF n
<1>3. RecordOK(n, open["server"][p])
  BY <1>0, <1>1, <1>2, SessionFacts DEF RecordOK, Fresh
<1>4. Replaces("server", p, n) /\ n.reads = r.reads /\ n.writes <= r.writes /\ Phase("server", p) \in Fresh
  BY <1>1, <1>2 DEF Replaces, Fresh
<1>5. /\ OpenTo("server", p, open["server"][p]) /\ InflightOf(p) /\ Apart
      /\ \A t \in Sides : inflight'[t][p] <= inflight[t][p]
  BY <1>0, <1>1, InflightKept, OpenKept, FaultCounted DEF ConnectionAccepted, Apart
<1> QED BY <1>0, <1>3, <1>4, <1>5, QuietStep, Zenon

\* The client refuses the credential: an error before anything was sent.
LEMMA ClientRefusesKeeps == ASSUME BInv, NEW p \in Pairs, ClientRefuses(p) PROVE BInv'
<1> DEFINE r == session["client"][p]
           k == [r EXCEPT !.shook = TRUE]
           n == SetError(k)
<1>0. "client" \in Sides
  BY DEF Sides
<1>1. /\ TypeOK /\ r \in Session /\ r.phase = "handshake" /\ Phase("client", p) = "handshake" /\ p \in dialed
      /\ SetSession("client", p, n)
  BY <1>0, Numbers, SessionFacts DEF ClientRefuses, Phase
<1>2. r.writes = 0 /\ ~r.reading
  BY <1>0, <1>1, SessionFacts DEF RecordOK, Fresh
<1>3. k \in Session /\ k.phase = r.phase /\ k.reads = r.reads /\ k.writes = r.writes /\ k.reading = r.reading
  BY <1>1 DEF Session
<1> HIDE DEF k
<1>4. /\ n \in Session /\ n.phase = "finishing" /\ n.reads = r.reads /\ n.writes = 0
      /\ n.stopped /\ n.failed /\ ~n.reading
  BY <1>1, <1>2, <1>3, SetErrorFacts
<1> HIDE DEF n
<1>5. PICK kept \in BOOLEAN : open' = [open EXCEPT !["client"][p] = kept]
  BY DEF ClientRefuses
<1>6. RecordOK(n, kept)
  BY <1>4 DEF RecordOK, Fresh
<1>7. Replaces("client", p, n) /\ n.reads = r.reads /\ n.writes <= r.writes /\ Phase("client", p) \in Fresh
  BY <1>1, <1>2, <1>4 DEF Replaces, Fresh
<1>8. OpenTo("client", p, kept)
  BY <1>5 DEF ClientRefuses, OpenTo
<1>9. InflightOf(p) /\ Apart /\ \A t \in Sides : inflight'[t][p] <= inflight[t][p]
  BY <1>1, InflightKept, FaultCounted DEF ClientRefuses, Apart
<1> QED BY <1>0, <1>6, <1>7, <1>8, <1>9, QuietStep, Zenon

\* The server's handshake ends, and its read callback is installed.
LEMMA ServerHandshakeKeeps == ASSUME BInv, NEW p \in Pairs, ServerHandshakeSuccess(p) PROVE BInv'
<1> DEFINE r == session["server"][p]
           n == [r EXCEPT !.phase = "open", !.shook = TRUE, !.reading = TRUE]
<1>0. "server" \in Sides
  BY DEF Sides
<1>1. /\ TypeOK /\ r \in Session /\ r.phase = "handshake" /\ Phase("server", p) = "handshake" /\ p \in dialed
      /\ SetSession("server", p, n)
  BY <1>0, Numbers, SessionFacts DEF ServerHandshakeSuccess, Phase
<1>2. r.writes = 0 /\ ~r.failed /\ ~r.stopped
  BY <1>0, <1>1, SessionFacts DEF RecordOK, Fresh
<1>3. /\ n \in Session /\ n.phase = "open" /\ n.reads = r.reads /\ n.writes = r.writes
      /\ n.stopped = r.stopped /\ n.failed = r.failed
  BY <1>1 DEF Session
<1> HIDE DEF n
<1>4. RecordOK(n, open["server"][p])
  BY <1>2, <1>3 DEF RecordOK, Fresh
<1>5. Replaces("server", p, n) /\ n.reads = r.reads /\ n.writes <= r.writes /\ Phase("server", p) \in Fresh
  BY <1>1, <1>2, <1>3 DEF Replaces, Fresh
<1>6. /\ OpenTo("server", p, open["server"][p]) /\ InflightOf(p) /\ Apart
      /\ \A t \in Sides : inflight'[t][p] <= inflight[t][p]
  BY <1>0, <1>1, InflightKept, OpenKept, FaultCounted DEF ServerHandshakeSuccess, Apart
<1> QED BY <1>0, <1>4, <1>5, <1>6, QuietStep, Zenon

\* The handshake fails on either side.
LEMMA HandshakeErrorKeeps ==
    ASSUME BInv, NEW s \in Sides, NEW p \in Pairs, HandshakeError(s, p) PROVE BInv'
<1> DEFINE r == session[s][p]
           n == SetError(r)
<1>1. /\ TypeOK /\ r \in Session /\ r.phase = "handshake" /\ Phase(s, p) = "handshake" /\ p \in dialed
      /\ SetSession(s, p, n)
  BY Numbers, SessionFacts DEF HandshakeError, Phase
<1>2. r.writes = 0 /\ ~r.reading
  BY <1>1, SessionFacts DEF RecordOK, Fresh
<1>3. /\ n \in Session /\ n.phase = "finishing" /\ n.reads = r.reads /\ n.writes = 0
      /\ n.stopped /\ n.failed /\ ~n.reading
  BY <1>1, <1>2, SetErrorFacts
<1> HIDE DEF n
<1>4. RecordOK(n, FALSE)
  BY <1>3 DEF RecordOK, Fresh
<1>5. Replaces(s, p, n) /\ n.reads = r.reads /\ n.writes <= r.writes /\ Phase(s, p) \in Fresh
  BY <1>1, <1>2, <1>3 DEF Replaces, Fresh
<1>6. /\ OpenTo(s, p, FALSE) /\ InflightOf(p) /\ Apart
      /\ \A t \in Sides : inflight'[t][p] <= inflight[t][p]
  BY <1>1, InflightKept, FaultCounted DEF HandshakeError, OpenTo, Apart
<1> QED BY <1>4, <1>5, <1>6, QuietStep, Zenon

\* A read callback that is installed belongs to a session past its handshake.
LEMMA ReadingFacts ==
    ASSUME BInv, NEW s \in Sides, NEW p \in Pairs, session[s][p].reading
    PROVE  /\ p \in dialed /\ Phase(s, p) \notin Fresh /\ Phase(s, p) # "gone"
           /\ open[s][p] => ~session[s][p].failed
  BY SessionFacts DEF RecordOK, Phase, Fresh

\* The peer has closed.
LEMMA ReadEOFKeeps == ASSUME BInv, NEW s \in Sides, NEW p \in Pairs, ReadEOF(s, p) PROVE BInv'
<1> DEFINE r == session[s][p]
           e == [r EXCEPT !.stopped = TRUE]
           k == IF r.reads > 0 THEN SetError(r) ELSE MaybeFinish(e)
           n == [k EXCEPT !.reading = FALSE]
<1>1. TypeOK /\ r \in Session /\ r.reading /\ SetSession(s, p, n) /\ r.reads \in Nat /\ r.writes \in Nat
  BY Numbers DEF BInv, ReadEOF
<1>2. p \in dialed /\ Phase(s, p) \notin Fresh /\ Phase(s, p) # "gone" /\ Phase(s, p) = r.phase
  BY <1>1, ReadingFacts DEF Phase
<1>3. RecordOK(r, open[s][p])
  BY SessionFacts
<1>4. /\ e \in Session /\ e.phase = r.phase /\ e.reads = r.reads /\ e.writes = r.writes /\ e.stopped
      /\ e.failed = r.failed
  BY <1>1 DEF Session
<1> HIDE DEF e
<1>5. /\ k \in Session /\ k.reads = r.reads /\ k.writes = r.writes /\ k.stopped
      /\ k.failed \/ k.reads = 0
      /\ k.phase = IF r.writes = 0 THEN "finishing" ELSE r.phase
  <2>1. CASE r.reads > 0
    BY <1>1, <1>2, <2>1, SetErrorFacts
  <2>2. CASE ~(r.reads > 0)
    BY <1>1, <1>2, <1>4, <2>2, MaybeFinishFacts
  <2> QED BY <2>1, <2>2
<1> HIDE DEF k
<1>6. /\ n \in Session /\ n.phase = k.phase /\ n.reads = k.reads /\ n.writes = k.writes
      /\ n.stopped = k.stopped /\ n.failed = k.failed /\ n.reading = FALSE
  BY <1>5 DEF Session
<1> HIDE DEF n
<1>7. RecordOK(n, open[s][p])
  BY <1>2, <1>3, <1>5, <1>6 DEF RecordOK, Fresh
<1>8. Replaces(s, p, n) /\ n.reads = r.reads /\ n.writes <= r.writes /\ n.phase \notin Fresh
  BY <1>1, <1>2, <1>5, <1>6 DEF Replaces, Fresh
<1>9. OpenTo(s, p, open[s][p]) /\ InflightOf(p) /\ Apart /\ \A t \in Sides : inflight'[t][p] <= inflight[t][p]
  BY <1>1, InflightKept, OpenKept, FaultCounted DEF ReadEOF, Apart
<1> QED BY <1>7, <1>8, <1>9, QuietStep, Zenon

\* The transport fails under a read.
LEMMA ReadErrKeeps == ASSUME BInv, NEW s \in Sides, NEW p \in Pairs, ReadErr(s, p) PROVE BInv'
<1> DEFINE r == session[s][p]
           k == SetError(r)
           n == [k EXCEPT !.reading = FALSE]
<1>1. TypeOK /\ r \in Session /\ r.reading /\ SetSession(s, p, n) /\ r.reads \in Nat /\ r.writes \in Nat
  BY Numbers DEF BInv, ReadErr
<1>2. p \in dialed /\ Phase(s, p) \notin Fresh /\ Phase(s, p) # "gone" /\ Phase(s, p) = r.phase
  BY <1>1, ReadingFacts DEF Phase
<1>3. RecordOK(r, open[s][p])
  BY SessionFacts
<1>4. /\ k \in Session /\ k.reads = r.reads /\ k.writes = r.writes /\ k.stopped /\ k.failed
      /\ k.phase = IF r.writes = 0 THEN "finishing" ELSE r.phase
  BY <1>1, <1>2, SetErrorFacts
<1> HIDE DEF k
<1>5. /\ n \in Session /\ n.phase = k.phase /\ n.reads = k.reads /\ n.writes = k.writes
      /\ n.stopped = k.stopped /\ n.failed = k.failed /\ n.reading = FALSE
  BY <1>4 DEF Session
<1> HIDE DEF n
<1>6. RecordOK(n, FALSE)
  BY <1>2, <1>3, <1>4, <1>5 DEF RecordOK, Fresh
<1>7. Replaces(s, p, n) /\ n.reads = r.reads /\ n.writes <= r.writes /\ n.phase \notin Fresh
  BY <1>1, <1>2, <1>4, <1>5 DEF Replaces, Fresh
<1>8. OpenTo(s, p, FALSE) /\ InflightOf(p) /\ Apart /\ \A t \in Sides : inflight'[t][p] <= inflight[t][p]
  BY <1>1, InflightKept, FaultCounted DEF ReadErr, OpenTo, Apart
<1> QED BY <1>6, <1>7, <1>8, QuietStep, Zenon

\* A write is unanswered only while the session is open.
LEMMA WritingFacts ==
    ASSUME BInv, NEW s \in Sides, NEW p \in Pairs, session[s][p].writes > 0
    PROVE  LET r == session[s][p]
               a == Answered(r)
           IN  /\ p \in dialed /\ Phase(s, p) = "open" /\ r.phase = "open"
               /\ a \in Session /\ a.phase = "open" /\ a.reads = r.reads /\ a.writes = r.writes - 1
               /\ a.stopped = r.stopped /\ a.failed = r.failed /\ a.reading = r.reading
               /\ a.writes <= r.writes
<1> DEFINE r == session[s][p]
<1>1. r \in Session /\ r.writes \in 0..Rounds /\ Rounds \in Nat
  BY Numbers, SessionFacts
<1>2. RecordOK(r, open[s][p]) /\ (Phase(s, p) # "none" => p \in dialed)
  BY SessionFacts
<1>3. r.phase = "open"
  BY <1>1, <1>2 DEF RecordOK, Session, Fresh
<1>4. r.writes - 1 \in 0..Rounds /\ r.writes - 1 <= r.writes
  BY <1>1
<1>5. /\ Answered(r) \in Session /\ Answered(r).phase = r.phase /\ Answered(r).reads = r.reads
      /\ Answered(r).writes = r.writes - 1 /\ Answered(r).stopped = r.stopped
      /\ Answered(r).failed = r.failed /\ Answered(r).reading = r.reading
  BY <1>1, <1>4 DEF Session, Answered
<1> QED BY <1>2, <1>3, <1>4, <1>5 DEF Phase

\* A write is answered with success.
LEMMA WriteSuccessKeeps == ASSUME BInv, NEW s \in Sides, NEW p \in Pairs, WriteSuccess(s, p) PROVE BInv'
<1> DEFINE r == session[s][p]
           a == Answered(r)
           n == MaybeFinish(a)
<1>1. TypeOK /\ r.writes > 0 /\ SetSession(s, p, n)
  BY DEF BInv, WriteSuccess
<1>2. /\ p \in dialed /\ Phase(s, p) = "open" /\ r.phase = "open"
      /\ a \in Session /\ a.phase = "open" /\ a.reads = r.reads /\ a.writes = r.writes - 1
      /\ a.stopped = r.stopped /\ a.failed = r.failed /\ a.reading = r.reading
      /\ a.writes <= r.writes
  BY <1>1, WritingFacts
<1> HIDE DEF a
<1>3. /\ n \in Session /\ n.reads = a.reads /\ n.writes = a.writes /\ n.stopped = a.stopped
      /\ n.failed = a.failed /\ n.reading = a.reading
      /\ n.phase = IF a.stopped /\ a.writes = 0 THEN "finishing" ELSE "open"
  BY <1>2, MaybeFinishFacts
<1> HIDE DEF n
<1>4. RecordOK(n, open[s][p])
  BY <1>2, <1>3, SessionFacts DEF RecordOK, Fresh
<1>5. Replaces(s, p, n) /\ n.reads = r.reads /\ n.writes <= r.writes /\ n.phase \notin Fresh
  BY <1>1, <1>2, <1>3 DEF Replaces, Fresh
<1>6. OpenTo(s, p, open[s][p]) /\ InflightOf(p) /\ Apart /\ \A t \in Sides : inflight'[t][p] <= inflight[t][p]
  BY <1>1, InflightKept, OpenKept, FaultCounted DEF WriteSuccess, Apart
<1> QED BY <1>4, <1>5, <1>6, QuietStep, Zenon

\* A write fails, and what was on its way may be lost.
LEMMA WriteErrKeeps == ASSUME BInv, NEW s \in Sides, NEW p \in Pairs, WriteErr(s, p) PROVE BInv'
<1> DEFINE r == session[s][p]
           a == Answered(r)
           n == SetError(a)
<1>1. TypeOK /\ r.writes > 0 /\ SetSession(s, p, n)
  BY DEF BInv, WriteErr
<1>2. /\ p \in dialed /\ Phase(s, p) = "open" /\ r.phase = "open"
      /\ a \in Session /\ a.phase = "open" /\ a.reads = r.reads /\ a.writes = r.writes - 1
      /\ a.stopped = r.stopped /\ a.failed = r.failed /\ a.reading = r.reading
      /\ a.writes <= r.writes
  BY <1>1, WritingFacts
<1> HIDE DEF a
<1>3. /\ n \in Session /\ n.reads = a.reads /\ n.writes = a.writes /\ n.stopped /\ n.failed
      /\ n.phase = IF a.writes = 0 THEN "finishing" ELSE "open"
  BY <1>2, SetErrorFacts
<1> HIDE DEF n
<1>4. RecordOK(n, FALSE)
  BY <1>2, <1>3 DEF RecordOK, Fresh
<1>5. Replaces(s, p, n) /\ n.reads = r.reads /\ n.writes <= r.writes /\ n.phase \notin Fresh
  BY <1>1, <1>2, <1>3 DEF Replaces, Fresh
<1>6. OpenTo(s, p, FALSE) /\ Apart
  BY <1>1, FaultCounted DEF WriteErr, OpenTo, Apart
<1>7. InflightOf(p) /\ \A t \in Sides : inflight'[t][p] <= inflight[t][p]
  <2>1. PICK left \in 0..inflight[Peer(s)][p] : inflight' = [inflight EXCEPT ![Peer(s)][p] = left]
    BY DEF WriteErr
  <2>2. Peer(s) \in Sides /\ inflight \in [Sides -> [Pairs -> 0..1]]
    BY <1>1 DEF Peer, Sides, TypeOK
  <2>3. left \in 0..1 /\ left <= inflight[Peer(s)][p]
    BY <2>1, <2>2
  <2>4. \A t \in Sides : inflight[t][p] <= inflight[t][p]
    BY <2>2
  <2> QED BY <2>1, <2>2, <2>3, <2>4 DEF InflightOf
<1> QED BY <1>4, <1>5, <1>6, <1>7, QuietStep, Zenon

\* The account of the batches of one connection, in numbers.
LEMMA Account ==
    ASSUME BInv, NEW p \in Pairs
    PROVE  LET c == session["client"][p]
               v == session["server"][p]
           IN  /\ c \in Session /\ v \in Session
               /\ c.reads \in 0..Rounds /\ c.writes \in 0..Rounds /\ v.reads \in 0..Rounds /\ v.writes \in 0..Rounds
               /\ inflight["client"][p] \in 0..1 /\ inflight["server"][p] \in 0..1
               /\ Rounds \in Nat /\ Rounds > 0 /\ Ahead(p) \in {0, 1}
               /\ inflight["server"][p] + c.reads <= v.reads + Ahead(p)
               /\ inflight["client"][p] + v.reads <= c.reads
               /\ c.writes + c.reads <= Rounds + Ahead(p)
               /\ v.writes + v.reads <= Rounds
<1>1. "client" \in Sides /\ "server" \in Sides
  BY DEF Sides
<1>2. TypeOK /\ BatchesOK(p)
  BY <1>1, SessionFacts
<1>3. Ahead(p) \in {0, 1}
  BY DEF Ahead
<1> QED BY <1>1, <1>2, <1>3, Numbers DEF BatchesOK

\* The client's handshake ends, and it sends the first batch.
LEMMA ClientHandshakeKeeps == ASSUME BInv, NEW p \in Pairs, ClientHandshakeSuccess(p) PROVE BInv'
<1> DEFINE r == session["client"][p]
           v == session["server"][p]
           n == [r EXCEPT !.phase = "open", !.shook = TRUE, !.reading = TRUE, !.writes = 1]
<1>0. "client" \in Sides /\ "server" \in Sides
  BY DEF Sides
<1>1. /\ TypeOK /\ r \in Session /\ r.phase = "handshake" /\ Phase("client", p) = "handshake" /\ p \in dialed
      /\ SetSession("client", p, n)
  BY <1>0, Numbers, SessionFacts DEF ClientHandshakeSuccess, Phase
<1>2. r.writes = 0 /\ r.reads = Rounds /\ ~r.failed /\ ~r.stopped /\ v.reads = Rounds /\ v.writes = 0
  BY <1>0, <1>1, SessionFacts DEF RecordOK, Fresh, ClientHandshakeSuccess, Phase
<1>3. Ahead(p) = 0
  BY <1>1 DEF Ahead, Fresh
<1>4. inflight["server"][p] = 0 /\ inflight["client"][p] = 0 /\ Rounds \in Nat /\ Rounds > 0
  BY <1>2, <1>3, Account
<1>5. 1 \in 0..Rounds
  BY <1>4
<1>6. /\ n \in Session /\ n.phase = "open" /\ n.reads = r.reads /\ n.writes = 1
      /\ n.stopped = r.stopped /\ n.failed = r.failed
  BY <1>1, <1>5 DEF Session
<1> HIDE DEF n
<1>7. RecordOK(n, open["client"][p])
  BY <1>2, <1>6 DEF RecordOK, Fresh
<1>8. InflightOf(p) /\ inflight'["client"][p] = 0 /\ inflight'["server"][p] = 1
  <2>1. inflight' = [inflight EXCEPT !["server"][p] = inflight["server"][p] + 1]
    BY DEF ClientHandshakeSuccess
  <2>2. inflight["server"][p] + 1 = 1 /\ inflight \in [Sides -> [Pairs -> 0..1]]
    BY <1>1, <1>4 DEF TypeOK
  <2> QED BY <1>0, <1>4, <2>1, <2>2 DEF InflightOf
<1>9. session'["client"][p] = n /\ session'["server"][p] = v
  BY <1>0, <1>1, <1>6, SetSessionFacts
<1>10. BatchesOK(p)'
  <2>1. Ahead(p)' = 1
    BY <1>2, <1>4, <1>6, <1>9 DEF Ahead, Phase, Fresh
  <2> QED BY <1>2, <1>4, <1>6, <1>8, <1>9, <2>1 DEF BatchesOK
<1>11. Replaces("client", p, n) /\ OpenTo("client", p, open["client"][p]) /\ Apart
  BY <1>0, <1>1, <1>6, OpenKept, FaultCounted DEF ClientHandshakeSuccess, Replaces, Apart
<1> QED BY <1>0, <1>7, <1>8, <1>10, <1>11, HandlerStep, Zenon

\* What a batch does to the session that reads it: one read less, and maybe one
\* write more.
Received(r, more) == MaybeFinish([r EXCEPT !.reads = @ - 1, !.writes = @ + more, !.stopped = @ \/ r.reads = 1])

\* It is then still open, or finished with everything read.
LEMMA ReadFacts ==
    ASSUME BInv, NEW s \in Sides, NEW p \in Pairs, NEW more \in 0..1,
           session[s][p].reading, open[s][p], session[s][p].reads > 0,
           session[s][p].writes + more <= Rounds
    PROVE  /\ p \in dialed /\ session[s][p].phase = "open" /\ Phase(s, p) = "open"
           /\ Received(session[s][p], more) \in Session
           /\ Received(session[s][p], more).phase \in {"open", "finishing"}
           /\ Received(session[s][p], more).reads = session[s][p].reads - 1
           /\ Received(session[s][p], more).writes = session[s][p].writes + more
           /\ RecordOK(Received(session[s][p], more), open[s][p])
<1> DEFINE r == session[s][p]
           e == [r EXCEPT !.reads = @ - 1, !.writes = @ + more, !.stopped = @ \/ r.reads = 1]
           n == MaybeFinish(e)
<1>1. r \in Session /\ r.reads \in 0..Rounds /\ r.writes \in 0..Rounds /\ Rounds \in Nat
  BY Numbers, SessionFacts
<1>2. RecordOK(r, open[s][p]) /\ p \in dialed /\ r.phase \notin Fresh /\ r.phase # "gone" /\ ~r.failed
  BY SessionFacts, ReadingFacts DEF Phase
<1>3. ~r.stopped
  BY <1>1, <1>2 DEF RecordOK
<1>4. r.phase = "open"
  BY <1>1, <1>2, <1>3 DEF RecordOK, Session, Fresh
<1>5. r.reads - 1 \in 0..Rounds /\ r.writes + more \in 0..Rounds /\ (r.stopped \/ r.reads = 1) \in BOOLEAN
  BY <1>1
<1>6. /\ e \in Session /\ e.reads = r.reads - 1 /\ e.writes = r.writes + more /\ e.phase = r.phase
      /\ e.failed = r.failed /\ (e.stopped <=> r.stopped \/ r.reads = 1)
  BY <1>1, <1>5 DEF Session
<1> HIDE DEF e
<1>7. /\ n \in Session /\ n.reads = e.reads /\ n.writes = e.writes /\ n.stopped = e.stopped /\ n.failed = e.failed
      /\ n.phase = IF e.stopped /\ e.writes = 0 THEN "finishing" ELSE "open"
  BY <1>4, <1>6, MaybeFinishFacts
<1>8. RecordOK(n, open[s][p])
  <2> HIDE DEF n
  <2>1. n.stopped => n.reads = 0
    BY <1>1, <1>3, <1>6, <1>7
  <2> QED BY <1>2, <1>6, <1>7, <2>1 DEF RecordOK, Fresh
<1>9. n = Received(r, more)
  BY DEF Received, e
<1> HIDE DEF n
<1> QED BY <1>2, <1>4, <1>6, <1>7, <1>8, <1>9 DEF Phase

\* The server reads a batch and writes it back.
LEMMA ServerReadKeeps == ASSUME BInv, NEW p \in Pairs, ServerReadDataAvailable(p) PROVE BInv'
<1> DEFINE c == session["client"][p]
           v == session["server"][p]
           n == Received(v, 1)
<1>0. "client" \in Sides /\ "server" \in Sides /\ TypeOK
  BY DEF Sides, BInv
<1>1. /\ v.reading /\ open["server"][p] /\ inflight["server"][p] > 0 /\ v.reads > 0
      /\ SetSession("server", p, n)
      /\ inflight' = [inflight EXCEPT !["server"][p] = inflight["server"][p] - 1,
                                      !["client"][p] = inflight["client"][p] + 1]
  BY DEF ServerReadDataAvailable, Received
<1>2. inflight["server"][p] - 1 = 0 /\ inflight["client"][p] + 1 = 1 /\ v.writes + 1 <= Rounds
  BY <1>1, Account
<1>3. /\ p \in dialed /\ Phase("server", p) = "open"
      /\ n \in Session /\ n.phase \in {"open", "finishing"}
      /\ n.reads = v.reads - 1 /\ n.writes = v.writes + 1 /\ RecordOK(n, open["server"][p])
  <2>1. 1 \in 0..1
    OBVIOUS
  <2>2. v.reading /\ open["server"][p] /\ v.reads > 0
    BY <1>1
  <2>3. v.writes + 1 <= Rounds
    BY <1>2
  <2> QED BY <1>0, <2>1, <2>2, <2>3, ReadFacts, ZenonT(60)
<1> HIDE DEF n
<1>4. InflightOf(p) /\ inflight'["client"][p] = 1 /\ inflight'["server"][p] = 0
  <2>1. inflight \in [Sides -> [Pairs -> 0..1]]
    BY <1>0 DEF TypeOK
  <2> QED BY <1>0, <1>1, <1>2, <2>1 DEF InflightOf
<1>5. session'["server"][p] = n /\ session'["client"][p] = c
  BY <1>0, <1>1, <1>3, SetSessionFacts
<1>6. BatchesOK(p)'
  <2>1. Ahead(p)' = Ahead(p)
    BY <1>5 DEF Ahead, Phase
  <2> QED BY <1>1, <1>2, <1>3, <1>4, <1>5, <2>1, Account DEF BatchesOK
<1>7. Replaces("server", p, n) /\ OpenTo("server", p, open["server"][p]) /\ Apart
  BY <1>0, <1>1, <1>3, OpenKept, FaultCounted DEF ServerReadDataAvailable, Replaces, Apart
<1> QED BY <1>0, <1>3, <1>4, <1>6, <1>7, HandlerStep, Zenon

\* The client reads an echo, and sends the next batch unless it was the last.
LEMMA ClientReadKeeps == ASSUME BInv, NEW p \in Pairs, ClientReadDataAvailable(p) PROVE BInv'
<1> DEFINE c == session["client"][p]
           v == session["server"][p]
           more == Sends(c)
           n == Received(c, more)
<1>0. "client" \in Sides /\ "server" \in Sides /\ TypeOK
  BY DEF Sides, BInv
<1>1. /\ c.reading /\ open["client"][p] /\ inflight["client"][p] > 0 /\ c.reads > 0
      /\ SetSession("client", p, n)
      /\ inflight' = [inflight EXCEPT !["client"][p] = inflight["client"][p] - 1,
                                      !["server"][p] = inflight["server"][p] + more]
  BY DEF ClientReadDataAvailable, Received
<1>2. more \in 0..1 /\ (c.reads = 1 => more = 0) /\ (c.reads # 1 => more = 1)
  BY DEF Sends
<1> HIDE DEF more
<1>3. Ahead(p) = 1
  BY <1>0, <1>1, ReadingFacts, Account DEF Ahead
<1>4. /\ inflight["client"][p] - 1 = 0 /\ inflight["server"][p] = 0 /\ inflight["server"][p] + more = more
      /\ c.writes + more <= Rounds
  BY <1>1, <1>2, <1>3, Account
<1>5. /\ p \in dialed /\ Phase("client", p) = "open"
      /\ n \in Session /\ n.phase \in {"open", "finishing"}
      /\ n.reads = c.reads - 1 /\ n.writes = c.writes + more /\ RecordOK(n, open["client"][p])
  <2>1. c.reading /\ open["client"][p] /\ c.reads > 0
    BY <1>1
  <2>2. c.writes + more <= Rounds
    BY <1>4
  <2> QED BY <1>0, <1>2, <2>1, <2>2, ReadFacts, ZenonT(60)
<1> HIDE DEF n
<1>6. InflightOf(p) /\ inflight'["client"][p] = 0 /\ inflight'["server"][p] = more
  <2>1. inflight \in [Sides -> [Pairs -> 0..1]]
    BY <1>0 DEF TypeOK
  <2> QED BY <1>0, <1>1, <1>2, <1>4, <2>1 DEF InflightOf
<1>7. session'["client"][p] = n /\ session'["server"][p] = v
  BY <1>0, <1>1, <1>5, SetSessionFacts
<1>8. BatchesOK(p)'
  <2>1. Ahead(p)' = IF n.reads = 0 THEN 0 ELSE 1
    BY <1>5, <1>7 DEF Ahead, Phase, Fresh
  <2>2. Ahead(p)' = more
    BY <1>1, <1>2, <1>5, <2>1, Account
  <2> QED BY <1>1, <1>2, <1>3, <1>4, <1>5, <1>6, <1>7, <2>2, Account DEF BatchesOK
<1>9. Replaces("client", p, n) /\ OpenTo("client", p, open["client"][p]) /\ Apart
  BY <1>0, <1>1, <1>5, OpenKept, FaultCounted DEF ClientReadDataAvailable, Replaces, Apart
<1> QED BY <1>0, <1>5, <1>6, <1>8, <1>9, HandlerStep, Zenon

-----------------------------------------------------------------------------
(***************************************************************************)
(* The counters and the promises.                                          *)
(***************************************************************************)
\* An exception that reaches a side's promise first, or comes too late for it.
LEMMA FireFails ==
    ASSUME BInv, NEW s \in Sides, Fire(s, "exception")
    PROVE  /\ fired' \in [Sides -> BOOLEAN] /\ future' \in [Sides -> {"none", "value", "exception"}]
           /\ fired'[s] /\ future'[s] # "none" /\ (future'[s] = "value" => future[s] = "value")
           /\ \A t \in Sides : future[t] # "none" => future'[t] = future[t]
           /\ \A t \in Sides : t # s => fired'[t] = fired[t] /\ future'[t] = future[t]
<1>1. /\ fired \in [Sides -> BOOLEAN] /\ future \in [Sides -> {"none", "value", "exception"}]
      /\ \A t \in Sides : fired[t] <=> future[t] # "none"
  BY DEF BInv, TypeOK, JoinOK
<1>2. CASE fired[s]
  BY <1>1, <1>2 DEF Fire
<1>3. CASE ~fired[s]
  <2>1. fired' = [fired EXCEPT ![s] = TRUE] /\ future' = [future EXCEPT ![s] = "exception"]
    BY <1>3 DEF Fire
  <2> QED BY <1>1, <1>3, <2>1
<1> QED BY <1>2, <1>3

\* It leaves what the calling thread has seen as it is.
LEMMA FireFailsMain ==
    ASSUME BInv, NEW s \in Sides, Fire(s, "exception"), UNCHANGED <<main, baton, acceptor>>
    PROVE  MainOK'
<1>1. "client" \in Sides /\ "server" \in Sides
  BY DEF Sides
<1> QED BY <1>1, FireFails DEF BInv, MainOK

\* An exception that is not a session's own.
LEMMA FireFailsJoin ==
    ASSUME BInv, NEW s \in Sides, Fire(s, "exception"), UNCHANGED <<cont, completed>>,
           \A t \in Sides, q \in Pairs : cont[t][q] # "none" => session'[t][q] = session[t][q],
           NEW t \in Sides
    PROVE  JoinOK(t)'
<1>1. JoinOK(t) /\ Passed(t)' = Passed(t) /\ \A q \in Passed(t) : session'[t][q] = session[t][q]
  BY DEF BInv, Passed
<1>2. CASE t = s
  BY <1>1, <1>2, FireFails DEF JoinOK
<1>3. CASE t # s
  BY <1>1, <1>3, FireFails DEF JoinOK
<1> QED BY <1>2, <1>3

\* acceptError, or a failure while a connection is accepted.
LEMMA AcceptFailsKeeps == ASSUME BInv, AcceptFails PROVE BInv'
<1>1. "server" \in Sides /\ Fire("server", "exception")
  BY DEF Sides, AcceptFails
<1>2. TypeOK'
  BY <1>1, FireFails, FaultCounted DEF BInv, TypeOK, AcceptFails, mainVars
<1>3. \A p \in Pairs : PairOK(p)'
  BY DEF BInv, PairOK, SessionOK, BatchesOK, Ahead, UndialedOK, Phase, AcceptFails, mainVars
<1>4. MainOK' /\ \A t \in Sides : JoinOK(t)'
  BY <1>1, FireFailsMain, FireFailsJoin DEF AcceptFails, mainVars
<1> QED BY <1>2, <1>3, <1>4 DEF BInv

\* The set-up throws.
LEMMA SetUpFailsKeeps == ASSUME BInv, NEW s \in Sides, NEW p \in Pairs, SetUpFails(s, p) PROVE BInv'
<1> DEFINE r == session[s][p]
           n == [r EXCEPT !.phase = "broken"]
<1>1. /\ TypeOK /\ r \in Session /\ r.phase = "queued" /\ Phase(s, p) = "queued" /\ p \in dialed
      /\ r.writes \in Nat /\ SetSession(s, p, n)
  BY Numbers, SessionFacts DEF SetUpFails, Phase
<1>2. /\ n \in Session /\ n.phase = "broken" /\ n.reads = r.reads /\ n.writes = r.writes
      /\ n.stopped = r.stopped /\ n.failed = r.failed /\ n.shook = r.shook /\ n.reading = r.reading
  BY <1>1 DEF Session
<1> HIDE DEF n
<1>3. /\ session' \in [Sides -> [Pairs -> Session]]
      /\ session'[s][p] = n
      /\ \A t \in Sides, q \in Pairs : t # s \/ q # p => session'[t][q] = session[t][q]
  BY <1>1, <1>2, SetSessionFacts
<1>4. PICK kept \in BOOLEAN : open' = [open EXCEPT ![s][p] = kept]
  BY DEF SetUpFails
<1>5. /\ open' \in [Sides -> [Pairs -> BOOLEAN]]
      /\ \A t \in Sides, q \in Pairs : t # s \/ q # p => open'[t][q] = open[t][q]
  BY <1>1, <1>4 DEF TypeOK
<1>6. Fire(s, "exception") /\ UNCHANGED <<inflight, cont, completed, mainVars>>
  BY DEF SetUpFails
<1>7. TypeOK'
  BY <1>1, <1>3, <1>5, <1>6, FireFails, FaultCounted DEF TypeOK, SetUpFails, mainVars
<1>8. OthersKept(p)
  BY <1>3, <1>5, <1>6 DEF OthersKept, mainVars
<1>9. PairOK(p)'
  <2>1. RecordOK(n, open'[s][p])
    BY <1>1, <1>2, SessionFacts DEF RecordOK, Fresh
  <2>2. SessionOK(s, p)'
    BY <1>1, <1>2, <1>3, <1>6, <2>1 DEF BInv, PairOK, SessionOK, Phase
  <2>3. Peer(s) \in Sides /\ Peer(s) # s
    BY DEF Peer, Sides
  <2>4. SessionOK(Peer(s), p)'
    <3>1. SessionOK(Peer(s), p)
      BY <2>3 DEF BInv, PairOK
    <3>2. session'[Peer(s)][p] = session[Peer(s)][p] /\ open'[Peer(s)][p] = open[Peer(s)][p]
      BY <1>3, <1>5, <2>3
    <3>3. cont' = cont
      BY <1>6
    <3> QED BY <3>1, <3>2, <3>3 DEF SessionOK, Phase
  <2>5. BatchesOK(p)'
    <3>1. BatchesOK(p)
      BY SessionFacts
    <3>2. \A t \in Sides : Phase(t, p) \in Fresh <=> Phase(t, p)' \in Fresh
      BY <1>1, <1>2, <1>3 DEF Phase, Fresh
    <3>3. \A t \in Sides : /\ session'[t][p].reads = session[t][p].reads
                           /\ session'[t][p].writes = session[t][p].writes
      BY <1>2, <1>3
    <3> QED BY <1>6, <3>1, <3>2, <3>3 DEF BatchesOK, Ahead, Sides
  <2> QED BY <1>1, <1>6, <2>2, <2>4, <2>5 DEF PairOK, UndialedOK, Peer, Sides, mainVars
<1>10. \A t \in Sides : JoinOK(t)'
  <2>1. cont[s][p] = "none"
    BY <1>1 DEF BInv, PairOK, SessionOK
  <2>2. \A t \in Sides, q \in Pairs : cont[t][q] # "none" => session'[t][q] = session[t][q]
    BY <1>3, <2>1
  <2> QED BY <1>6, <2>2, FireFailsJoin
<1>11. MainOK'
  BY <1>6, FireFailsMain DEF mainVars
<1> QED BY <1>7, <1>8, <1>9, <1>10, <1>11, OtherPairs DEF BInv

\* The deferred closure deletes the session and fulfils its promise.
LEMMA FinishKeeps == ASSUME BInv, NEW s \in Sides, NEW p \in Pairs, Finish(s, p) PROVE BInv'
<1> DEFINE r == session[s][p]
           n == [r EXCEPT !.phase = "gone", !.reading = FALSE]
           x == IF r.failed THEN "exception" ELSE "value"
<1>1. /\ TypeOK /\ r \in Session /\ r.phase = "finishing" /\ Phase(s, p) = "finishing" /\ p \in dialed
      /\ SetSession(s, p, n)
  BY Numbers, SessionFacts DEF Finish, Phase
<1>2. /\ n \in Session /\ n.phase = "gone" /\ n.reads = r.reads /\ n.writes = r.writes
      /\ n.stopped = r.stopped /\ n.failed = r.failed /\ n.reading = FALSE
  BY <1>1 DEF Session
<1> HIDE DEF n
<1>3. /\ session' \in [Sides -> [Pairs -> Session]]
      /\ session'[s][p] = n
      /\ \A t \in Sides, q \in Pairs : t # s \/ q # p => session'[t][q] = session[t][q]
  BY <1>1, <1>2, SetSessionFacts
<1>4. /\ open' \in [Sides -> [Pairs -> BOOLEAN]] /\ ~open'[s][p]
      /\ \A t \in Sides, q \in Pairs : t # s \/ q # p => open'[t][q] = open[t][q]
  BY <1>1 DEF TypeOK, Finish
<1>5. cont' = [cont EXCEPT ![s][p] = x] /\ UNCHANGED <<inflight, joinVars, mainVars, faults>>
  BY DEF Finish
<1>6. /\ cont' \in [Sides -> [Pairs -> {"none", "value", "exception", "counted", "last", "over"}]]
      /\ cont'[s][p] = x
      /\ \A t \in Sides, q \in Pairs : t # s \/ q # p => cont'[t][q] = cont[t][q]
  BY <1>1, <1>5 DEF TypeOK
<1>7. TypeOK'
  BY <1>1, <1>3, <1>4, <1>5, <1>6 DEF TypeOK, joinVars, mainVars
<1>8. OthersKept(p)
  BY <1>3, <1>4, <1>5, <1>6 DEF OthersKept, mainVars
<1>9. PairOK(p)'
  <2>1. RecordOK(n, open'[s][p])
    BY <1>1, <1>2, <1>4, SessionFacts DEF RecordOK, Fresh
  <2>2. SessionOK(s, p)'
    BY <1>2, <1>3, <1>6, <2>1 DEF SessionOK, Phase
  <2>3. Peer(s) \in Sides /\ Peer(s) # s
    BY DEF Peer, Sides
  <2>4. SessionOK(Peer(s), p)'
    <3>1. /\ session'[Peer(s)][p] = session[Peer(s)][p] /\ open'[Peer(s)][p] = open[Peer(s)][p]
          /\ cont'[Peer(s)][p] = cont[Peer(s)][p] /\ SessionOK(Peer(s), p)
      BY <1>3, <1>4, <1>6, <2>3 DEF BInv, PairOK
    <3> QED BY <3>1 DEF SessionOK, Phase
  <2>5. BatchesOK(p)'
    <3>1. BatchesOK(p)
      BY SessionFacts
    <3>2. \A t \in Sides : Phase(t, p) \in Fresh <=> Phase(t, p)' \in Fresh
      BY <1>1, <1>2, <1>3 DEF Phase, Fresh
    <3>3. \A t \in Sides : /\ session'[t][p].reads = session[t][p].reads
                           /\ session'[t][p].writes = session[t][p].writes
      BY <1>2, <1>3
    <3> QED BY <1>5, <3>1, <3>2, <3>3 DEF BatchesOK, Ahead, Sides
  <2> QED BY <1>1, <1>5, <2>2, <2>4, <2>5 DEF PairOK, UndialedOK, Peer, Sides, mainVars
<1>10. ASSUME NEW t \in Sides PROVE JoinOK(t)'
  <2>1. cont[s][p] = "none"
    BY <1>1 DEF BInv, PairOK, SessionOK
  <2>2. JoinOK(t) /\ Passed(t)' = Passed(t)
    BY <1>6, <2>1 DEF BInv, Passed
  <2>3. \A q \in Pairs : session'[t][q].failed = session[t][q].failed
    BY <1>2, <1>3
  <2>4. \A q \in Pairs : cont'[t][q] = "last" => cont[t][q] = "last"
    BY <1>6
  <2>5. future[t] = "value" => \A q \in Pairs : cont'[t][q] = cont[t][q]
    BY <1>6, <2>1, <2>2 DEF JoinOK
  <2> QED BY <1>5, <2>2, <2>3, <2>4, <2>5 DEF JoinOK, joinVars, Passed
<1>11. MainOK'
  BY <1>5 DEF BInv, MainOK, joinVars, mainVars
<1> QED BY <1>7, <1>8, <1>9, <1>10, <1>11, OtherPairs DEF BInv

\* The continuation of a session moves on.
ContTo(s, p, x) ==
    /\ cont[s][p] # "none" /\ x \in {"counted", "last", "over"}
    /\ x # "over" => cont[s][p] = "value"
    /\ cont' = [cont EXCEPT ![s][p] = x]
    /\ UNCHANGED <<session, open, inflight, mainVars, faults>>

\* The sessions and the connections do not change with it.
LEMMA ContStep ==
    ASSUME BInv, NEW s \in Sides, NEW p \in Pairs, NEW x, ContTo(s, p, x)
    PROVE  /\ \A q \in Pairs : PairOK(q)'
           /\ cont' \in [Sides -> [Pairs -> {"none", "value", "exception", "counted", "last", "over"}]]
           /\ cont'[s][p] = x
           /\ \A t \in Sides, q \in Pairs : t # s \/ q # p => cont'[t][q] = cont[t][q]
<1>1. /\ cont' \in [Sides -> [Pairs -> {"none", "value", "exception", "counted", "last", "over"}]]
      /\ cont'[s][p] = x
      /\ \A t \in Sides, q \in Pairs : t # s \/ q # p => cont'[t][q] = cont[t][q]
  BY DEF BInv, TypeOK, ContTo
<1>2. ASSUME NEW q \in Pairs, NEW t \in Sides PROVE SessionOK(t, q)'
  <2>1. CASE t = s /\ q = p
    BY <1>1, <2>1 DEF BInv, PairOK, SessionOK, Phase, ContTo
  <2>2. CASE t # s \/ q # p
    BY <1>1, <2>2 DEF BInv, PairOK, SessionOK, Phase, ContTo
  <2> QED BY <2>1, <2>2
<1>3. ASSUME NEW q \in Pairs PROVE BatchesOK(q)' /\ UndialedOK(q)'
  BY DEF BInv, PairOK, BatchesOK, Ahead, UndialedOK, Phase, ContTo, mainVars
<1> QED BY <1>1, <1>2, <1>3 DEF PairOK

\* Facts on the cardinality of the sessions counted.
LEMMA PassedFacts ==
    ASSUME NEW s \in Sides
    PROVE  /\ IsFiniteSet(Passed(s)) /\ Cardinality(Passed(s)) \in Nat /\ Cardinality(Pairs) \in Nat
           /\ Cardinality(Passed(s)) <= Cardinality(Pairs)
           /\ Cardinality(Passed(s)) = Cardinality(Pairs) => Passed(s) = Pairs
<1>1. Passed(s) \in SUBSET Pairs /\ IsFiniteSet(Pairs)
  BY EchoBenchAssumption DEF Passed
<1> QED BY <1>1, FS_Subset, FS_CardinalityType

\* The continuation counts its session, or carries its exception, or comes too
\* late for both.
LEMMA ContinueKeeps == ASSUME BInv, NEW s \in Sides, NEW p \in Pairs, Continue(s, p) PROVE BInv'
<1>0. /\ completed \in [Sides -> 0..Cardinality(Pairs)] /\ fired \in [Sides -> BOOLEAN]
      /\ future \in [Sides -> {"none", "value", "exception"}] /\ TypeOK /\ JoinOK(s) /\ SessionOK(s, p)
  BY DEF BInv, TypeOK, PairOK
<1>1. p \notin Passed(s)
  BY DEF Continue, Passed
<1>2. ASSUME NEW x, ContTo(s, p, x)
      PROVE  /\ Passed(s)' = Passed(s) \union {p}
             /\ Cardinality(Passed(s)') = Cardinality(Passed(s)) + 1
             /\ \A t \in Sides : t # s => Passed(t)' = Passed(t)
  <2>1. Passed(s)' = Passed(s) \union {p} /\ \A t \in Sides : t # s => Passed(t)' = Passed(t)
    <3>1. /\ x \in {"counted", "last", "over"} /\ cont'[s][p] = x
          /\ \A t \in Sides, q \in Pairs : t # s \/ q # p => cont'[t][q] = cont[t][q]
      BY <1>2, ContStep DEF ContTo
    <3> QED BY <3>1 DEF Passed
  <2> QED BY <1>1, <2>1, PassedFacts, FS_AddElement
<1>3. ASSUME NEW x, ContTo(s, p, x), UNCHANGED completed, NEW t \in Sides, t # s,
             fired'[t] = fired[t], future'[t] = future[t]
      PROVE  JoinOK(t)'
  <2>1. Passed(t)' = Passed(t) /\ \A q \in Pairs : cont'[t][q] = cont[t][q]
    BY <1>2, <1>3, ContStep
  <2>2. JoinOK(t) /\ UNCHANGED session
    BY <1>3 DEF BInv, ContTo
  <2> QED BY <1>3, <2>1, <2>2 DEF JoinOK
<1>4. CASE cont[s][p] \in {"value", "exception"} /\ fired[s] /\ ContTo(s, p, "over") /\ UNCHANGED joinVars
  <2>1. JoinOK(s)'
    <3>1. future[s] # "value"
      BY <1>0, <1>4 DEF JoinOK
    <3>2. completed'[s] <= Cardinality(Passed(s)')
      <4>1. completed'[s] = completed[s] /\ completed[s] <= Cardinality(Passed(s))
        BY <1>0, <1>4 DEF JoinOK, joinVars
      <4>2. Cardinality(Passed(s)') = Cardinality(Passed(s)) + 1
        BY <1>2, <1>4
      <4>3. completed[s] \in Int /\ Cardinality(Passed(s)) \in Nat
        BY <1>0, PassedFacts
      <4> QED BY <4>1, <4>2, <4>3
    <3>3. \A q \in Pairs : cont'[s][q] = "last" => cont[s][q] = "last"
      BY <1>4, ContStep
    <3> QED BY <1>0, <1>4, <3>1, <3>2, <3>3 DEF JoinOK, joinVars
  <2>2. \A t \in Sides : JoinOK(t)'
    BY <1>3, <1>4, <2>1 DEF joinVars
  <2>3. TypeOK' /\ MainOK'
    BY <1>0, <1>4, ContStep DEF BInv, TypeOK, MainOK, ContTo, joinVars, mainVars
  <2> QED BY <1>4, <2>2, <2>3, ContStep DEF BInv
<1>5. CASE cont[s][p] = "exception" /\ ~fired[s] /\ ContTo(s, p, "over") /\ Fire(s, "exception") /\ UNCHANGED completed
  <2>1. JoinOK(s)'
    <3>1. future'[s] = "exception" /\ fired'[s]
      BY <1>0, <1>5, FireFails DEF JoinOK
    <3>2. completed'[s] <= Cardinality(Passed(s)')
      <4>1. completed'[s] = completed[s] /\ completed[s] <= Cardinality(Passed(s))
        BY <1>0, <1>5 DEF JoinOK
      <4>2. Cardinality(Passed(s)') = Cardinality(Passed(s)) + 1
        BY <1>2, <1>5
      <4>3. completed[s] \in Int /\ Cardinality(Passed(s)) \in Nat
        BY <1>0, PassedFacts
      <4> QED BY <4>1, <4>2, <4>3
    <3>3. \A q \in Pairs : cont'[s][q] = "last" => cont[s][q] = "last"
      BY <1>5, ContStep
    <3> QED BY <1>0, <1>5, <3>1, <3>2, <3>3 DEF JoinOK
  <2>2. \A t \in Sides : JoinOK(t)'
    BY <1>3, <1>5, <2>1, FireFails
  <2>3. TypeOK'
    BY <1>0, <1>5, ContStep, FireFails DEF TypeOK, ContTo, mainVars
  <2>4. MainOK'
    BY <1>5, FireFailsMain DEF ContTo, mainVars
  <2> QED BY <1>5, <2>2, <2>3, <2>4, ContStep DEF BInv
<1>6. CASE /\ cont[s][p] = "value" /\ ~fired[s]
           /\ ContTo(s, p, IF IsLast(s) THEN "last" ELSE "counted")
           /\ completed' = [completed EXCEPT ![s] = @ + 1] /\ UNCHANGED <<fired, future>>
  <2> DEFINE x == IF IsLast(s) THEN "last" ELSE "counted"
  <2>1. /\ completed'[s] = completed[s] + 1 /\ completed[s] \in Nat
        /\ completed[s] + 1 <= Cardinality(Passed(s)')
        /\ \A t \in Sides : t # s => completed'[t] = completed[t]
    <3>1. Cardinality(Passed(s)') = Cardinality(Passed(s)) + 1
      BY <1>2, <1>6
    <3>2. completed[s] \in Nat /\ completed[s] <= Cardinality(Passed(s)) /\ Cardinality(Passed(s)) \in Nat
      BY <1>0, PassedFacts DEF JoinOK
    <3>3. completed'[s] = completed[s] + 1 /\ \A t \in Sides : t # s => completed'[t] = completed[t]
      BY <1>0, <1>6
    <3> QED BY <3>1, <3>2, <3>3
  <2>2. completed'[s] \in 0..Cardinality(Pairs)
    <3>1. Passed(s)' \in SUBSET Pairs
      BY <1>1, <1>2, <1>6 DEF Passed
    <3>2. Cardinality(Passed(s)') <= Cardinality(Pairs) /\ Cardinality(Passed(s)') \in Nat
      BY <3>1, EchoBenchAssumption, FS_Subset, FS_CardinalityType
    <3> QED BY <2>1, <3>2, PassedFacts
  <2>3. JoinOK(s)'
    <3>1. \A q \in Pairs : cont[s][q] = "last" => completed[s] = Cardinality(Pairs)
      BY <1>0 DEF JoinOK
    <3>2. \A q \in Pairs : cont[s][q] # "last"
      BY <2>1, <2>2, <3>1, PassedFacts
    <3>3. \A q \in Pairs : cont'[s][q] = "last" => q = p /\ IsLast(s)
      BY <1>6, <3>2, ContStep
    <3>4. IsLast(s) => completed'[s] = Cardinality(Pairs)
      BY <2>1 DEF IsLast
    <3>5. \A q \in Passed(s)' : ~session'[s][q].failed
      BY <1>0, <1>2, <1>6 DEF JoinOK, SessionOK, ContTo
    <3>6. future'[s] = "none" /\ ~fired'[s]
      BY <1>0, <1>6 DEF JoinOK
    <3> QED BY <2>1, <3>3, <3>4, <3>5, <3>6 DEF JoinOK
  <2>4. ASSUME NEW t \in Sides, t # s PROVE JoinOK(t)'
    <3>1. Passed(t)' = Passed(t) /\ \A q \in Pairs : cont'[t][q] = cont[t][q]
      BY <1>2, <1>6, <2>4, ContStep
    <3> QED BY <1>6, <2>1, <2>4, <3>1 DEF BInv, JoinOK, ContTo
  <2>5. TypeOK'
    BY <1>0, <1>6, <2>2, ContStep DEF TypeOK, ContTo, mainVars
  <2>6. MainOK'
    BY <1>6 DEF BInv, MainOK, ContTo, mainVars
  <2> QED BY <1>6, <2>3, <2>4, <2>5, <2>6, ContStep DEF BInv
<1> QED BY <1>4, <1>5, <1>6 DEF Continue, ContTo

\* The last continuation of a side sets its promise.
LEMMA CompareKeeps == ASSUME BInv, NEW s \in Sides, NEW p \in Pairs, Compare(s, p) PROVE BInv'
<1>0. /\ completed \in [Sides -> 0..Cardinality(Pairs)] /\ fired \in [Sides -> BOOLEAN]
      /\ future \in [Sides -> {"none", "value", "exception"}] /\ TypeOK /\ JoinOK(s)
  BY DEF BInv, TypeOK
<1>1. /\ cont[s][p] \in {"counted", "last"} /\ UNCHANGED completed
      /\ UNCHANGED <<session, open, inflight, mainVars, faults>>
      /\ ContTo(s, p, "over")
  BY DEF Compare, ContTo
<1>2. /\ \A q \in Pairs : PairOK(q)'
      /\ cont' \in [Sides -> [Pairs -> {"none", "value", "exception", "counted", "last", "over"}]]
      /\ cont'[s][p] = "over"
      /\ \A t \in Sides, q \in Pairs : t # s \/ q # p => cont'[t][q] = cont[t][q]
  BY <1>1, ContStep
<1>3. \A t \in Sides : Passed(t)' = Passed(t)
  BY <1>1, <1>2 DEF Passed
<1>4. ASSUME UNCHANGED <<fired, future>>, NEW t \in Sides PROVE JoinOK(t)'
  <2>1. JoinOK(t) /\ Passed(t)' = Passed(t) /\ UNCHANGED <<session, completed>>
    BY <1>1, <1>3 DEF BInv
  <2>2. \A q \in Pairs : (cont'[t][q] = "last" => cont[t][q] = "last")
                         /\ (cont[t][q] \in {"counted", "over"} => cont'[t][q] \in {"counted", "over"})
    BY <1>2
  <2> QED BY <1>4, <2>1, <2>2 DEF JoinOK
<1>5. CASE UNCHANGED <<fired, future>>
  <2>1. TypeOK' /\ MainOK'
    BY <1>0, <1>1, <1>2, <1>5 DEF BInv, TypeOK, MainOK, mainVars
  <2> QED BY <1>2, <1>4, <1>5, <2>1 DEF BInv
<1>6. CASE cont[s][p] = "last" /\ ~fired[s] /\ Fire(s, "value")
  <2>1. /\ fired' = [fired EXCEPT ![s] = TRUE] /\ future' = [future EXCEPT ![s] = "value"]
        /\ future[s] = "none"
    BY <1>0, <1>6 DEF Fire, JoinOK
  <2>2. Passed(s) = Pairs
    <3>1. completed[s] = Cardinality(Pairs) /\ completed[s] <= Cardinality(Passed(s))
      BY <1>0, <1>6 DEF JoinOK
    <3> QED BY <3>1, PassedFacts
  <2>3. \A q \in Pairs : cont'[s][q] \in {"counted", "over"} /\ ~session'[s][q].failed
    <3>1. \A q \in Pairs : cont[s][q] \in {"counted", "last", "over"} /\ ~session[s][q].failed
      BY <1>0, <1>6, <2>2 DEF JoinOK, Passed
    <3>2. \A q \in Pairs : q # p => cont[s][q] # "last"
      BY <1>0, <1>6 DEF JoinOK
    <3> QED BY <1>1, <1>2, <3>1, <3>2
  <2>4. JoinOK(s)'
    <3>1. fired'[s] /\ future'[s] = "value"
      BY <1>0, <2>1
    <3>2. completed'[s] <= Cardinality(Passed(s)')
      BY <1>0, <1>1, <1>3 DEF JoinOK
    <3> QED BY <2>3, <3>1, <3>2 DEF JoinOK
  <2>5. ASSUME NEW t \in Sides, t # s PROVE JoinOK(t)'
    <3>1. JoinOK(t) /\ Passed(t)' = Passed(t) /\ UNCHANGED <<session, completed>>
      BY <1>1, <1>3 DEF BInv
    <3>2. fired'[t] = fired[t] /\ future'[t] = future[t] /\ \A q \in Pairs : cont'[t][q] = cont[t][q]
      BY <1>0, <1>2, <2>1, <2>5
    <3> QED BY <3>1, <3>2 DEF JoinOK
  <2>6. TypeOK'
    BY <1>0, <1>1, <1>2, <2>1 DEF TypeOK, mainVars
  <2>7. MainOK'
    <3>1. \A t \in Sides : future[t] = "value" => future'[t] = "value"
      BY <1>0, <2>1
    <3>2. "client" \in Sides /\ "server" \in Sides
      BY DEF Sides
    <3> QED BY <1>1, <3>1, <3>2 DEF BInv, MainOK, mainVars
  <2> QED BY <1>2, <2>4, <2>5, <2>6, <2>7 DEF BInv
<1> QED BY <1>5, <1>6 DEF Compare, Fire

-----------------------------------------------------------------------------
(***************************************************************************)
(* The calling thread.                                                     *)
(***************************************************************************)
\* A connection is dialled.
LEMMA DialKeeps == ASSUME BInv, NEW p \in Pairs, Dial(p) PROVE BInv'
<1> DEFINE r == session["client"][p]
           n == [r EXCEPT !.phase = "queued"]
<1>0. "client" \in Sides /\ "server" \in Sides /\ TypeOK
  BY DEF Sides, BInv
<1>1. /\ p \notin dialed /\ r \in Session /\ SetSession("client", p, n)
      /\ \A s \in Sides : Phase(s, p) = "none" /\ session[s][p].phase = "none" /\ cont[s][p] = "none"
  BY <1>0, Numbers DEF BInv, PairOK, UndialedOK, SessionOK, Phase, Dial
<1>2. /\ n \in Session /\ n.phase = "queued" /\ n.reads = r.reads /\ n.writes = r.writes
      /\ n.stopped = r.stopped /\ n.failed = r.failed /\ n.shook = r.shook /\ n.reading = r.reading
  BY <1>1 DEF Session
<1> HIDE DEF n
<1>3. /\ session' \in [Sides -> [Pairs -> Session]]
      /\ session'["client"][p] = n /\ session'["server"][p] = session["server"][p]
      /\ \A t \in Sides, q \in Pairs \ {p} : session'[t][q] = session[t][q]
  BY <1>0, <1>1, <1>2, SetSessionFacts
<1>4. /\ open' \in [Sides -> [Pairs -> BOOLEAN]]
      /\ \A t \in Sides, q \in Pairs \ {p} : open'[t][q] = open[t][q]
  BY <1>0 DEF TypeOK, Dial
<1>5. /\ UNCHANGED <<inflight, cont, joinVars, baton, acceptor, faults>>
      /\ dialed' = dialed \union {p} /\ main = "dialing" /\ main' \in {"dialing", "server"}
  BY DEF Dial
<1>6. TypeOK'
  BY <1>0, <1>3, <1>4, <1>5 DEF TypeOK, joinVars
<1>7. OthersKept(p)
  BY <1>3, <1>4, <1>5 DEF OthersKept
<1>8. PairOK(p)'
  <2>1. SessionOK("client", p)'
    <3>1. RecordOK(n, open'["client"][p])
      BY <1>0, <1>1, <1>2, SessionFacts DEF RecordOK, Fresh
    <3> QED BY <1>0, <1>1, <1>2, <1>3, <1>5, <3>1 DEF SessionOK, Phase
  <2>2. SessionOK("server", p)'
    <3>1. RecordOK(session["server"][p], open'["server"][p])
      BY <1>0, <1>1, SessionFacts DEF RecordOK, Fresh
    <3> QED BY <1>0, <1>1, <1>3, <1>5, <3>1 DEF SessionOK, Phase
  <2>3. BatchesOK(p)'
    <3>1. BatchesOK(p)
      BY <1>0, SessionFacts
    <3>2. Ahead(p) = 0 /\ Ahead(p)' = 0
      BY <1>0, <1>1, <1>2, <1>3 DEF Ahead, Phase, Fresh
    <3> QED BY <1>2, <1>3, <1>5, <3>1, <3>2 DEF BatchesOK
  <2> QED BY <1>5, <2>1, <2>2, <2>3 DEF PairOK, UndialedOK, Sides
<1>9. ASSUME NEW t \in Sides PROVE JoinOK(t)'
  <2>1. \A q \in Pairs : cont[t][q] # "none" => session'[t][q] = session[t][q]
    BY <1>1, <1>3
  <2>2. Passed(t)' = Passed(t) /\ \A q \in Passed(t) : session'[t][q] = session[t][q]
    BY <1>5, <2>1 DEF Passed
  <2>3. JoinOK(t) /\ cont' = cont /\ completed' = completed /\ fired' = fired /\ future' = future
    BY <1>5 DEF BInv, joinVars
  <2> QED BY <2>1, <2>2, <2>3 DEF JoinOK
<1>10. MainOK'
  BY <1>5 DEF BInv, MainOK
<1> QED BY <1>6, <1>7, <1>8, <1>9, <1>10, OtherPairs DEF BInv

\* A step of the calling thread alone leaves the sessions and the counters.
LEMMA MainStepKeeps ==
    ASSUME BInv, UNCHANGED <<session, open, inflight, cont, joinVars, dialed>>, TypeOK', MainOK'
    PROVE  BInv'
<1>1. \A p \in Pairs : PairOK(p)'
  BY DEF BInv, PairOK, SessionOK, BatchesOK, Ahead, UndialedOK, Phase
<1>2. ASSUME NEW s \in Sides PROVE JoinOK(s)'
  <2>1. /\ JoinOK(s) /\ session' = session /\ cont' = cont
        /\ completed' = completed /\ fired' = fired /\ future' = future
    BY DEF BInv, joinVars
  <2>2. Passed(s)' = Passed(s)
    BY <2>1 DEF Passed
  <2> QED BY <2>1, <2>2 DEF JoinOK
<1> QED BY <1>1, <1>2 DEF BInv

\* Its own steps, from the first failure to the join.
LEMMA MainKeeps ==
    ASSUME BInv, DialFails \/ Wait("server") \/ Wait("client") \/ StopAccepting \/ AcceptStopped
                 \/ DeleteAcceptor \/ Join
    PROVE  BInv'
<1>1. TypeOK /\ MainOK
  BY DEF BInv
<1>2. CASE DialFails
  BY <1>1, <1>2, MainStepKeeps, FaultCounted DEF DialFails, TypeOK, MainOK, joinVars
<1>3. CASE Wait("server") \/ Wait("client")
  <2>1. /\ UNCHANGED <<session, open, inflight, cont, joinVars, dialed>> /\ UNCHANGED <<baton, acceptor, faults>>
        /\ main \in {"server", "client"}
        /\ \/ main' = "terminated"
           \/ main = "server" /\ main' = "client" /\ future["server"] = "value"
           \/ main = "client" /\ main' = "stopping" /\ future["client"] = "value"
    <3>1. future["server"] \in {"none", "value", "exception"} /\ future["client"] \in {"none", "value", "exception"}
      BY <1>1 DEF TypeOK, Sides
    <3>2. CASE Wait("server")
      BY <3>1, <3>2 DEF Wait
    <3>3. CASE Wait("client")
      BY <3>1, <3>3 DEF Wait
    <3> QED BY <1>3, <3>2, <3>3
  <2>2. TypeOK'
    BY <1>1, <2>1 DEF TypeOK, joinVars
  <2>3. MainOK'
    <3>1. UNCHANGED <<future, baton, acceptor>>
      BY <2>1 DEF joinVars
    <3> QED BY <1>1, <2>1, <3>1 DEF MainOK
  <2> QED BY <2>1, <2>2, <2>3, MainStepKeeps
<1>4. CASE StopAccepting
  BY <1>1, <1>4, MainStepKeeps DEF StopAccepting, TypeOK, MainOK, joinVars
<1>5. CASE AcceptStopped
  BY <1>1, <1>5, MainStepKeeps DEF AcceptStopped, TypeOK, MainOK, joinVars
<1>6. CASE DeleteAcceptor
  BY <1>1, <1>6, MainStepKeeps DEF DeleteAcceptor, WaitForStopped, TypeOK, MainOK, joinVars
<1>7. CASE Join
  BY <1>1, <1>7, MainStepKeeps DEF Join, TypeOK, MainOK, joinVars
<1> QED BY <1>2, <1>3, <1>4, <1>5, <1>6, <1>7

-----------------------------------------------------------------------------
(***************************************************************************)
(* The theorems.                                                           *)
(***************************************************************************)
\* Before the first connection the invariant holds.
LEMMA BInvInit == Init => BInv
<1> SUFFICES ASSUME Init PROVE BInv
  OBVIOUS
<1>1. TypeOK
  <2>1. [phase |-> "none", reads |-> Rounds, writes |-> 0,
         stopped |-> FALSE, failed |-> FALSE, shook |-> FALSE, reading |-> FALSE] \in Session
    BY EchoBenchAssumption DEF Session
  <2>2. Cardinality(Pairs) \in Nat /\ MaxFaults \in Nat
    BY EchoBenchAssumption, FS_CardinalityType
  <2>3. session \in [Sides -> [Pairs -> Session]]
    BY <2>1 DEF Init
  <2>4. completed \in [Sides -> 0..Cardinality(Pairs)] /\ faults \in 0..MaxFaults
    BY <2>2 DEF Init
  <2>5. /\ inflight \in [Sides -> [Pairs -> 0..1]] /\ open \in [Sides -> [Pairs -> BOOLEAN]]
        /\ cont \in [Sides -> [Pairs -> {"none", "value", "exception", "counted", "last", "over"}]]
        /\ fired \in [Sides -> BOOLEAN] /\ future \in [Sides -> {"none", "value", "exception"}]
    BY DEF Init
  <2>6. /\ dialed \subseteq Pairs /\ baton \in BOOLEAN /\ acceptor \in BOOLEAN
        /\ main \in {"dialing", "server", "client", "stopping", "stopped", "joining", "returned", "terminated"}
    BY DEF Init
  <2> QED BY <2>3, <2>4, <2>5, <2>6 DEF TypeOK
<1>2. ASSUME NEW p \in Pairs PROVE PairOK(p)
  <2>1. \A s \in Sides : SessionOK(s, p)
    BY DEF Init, SessionOK, RecordOK, Phase, Fresh
  <2>2. BatchesOK(p) /\ UndialedOK(p)
    BY EchoBenchAssumption DEF Init, BatchesOK, Ahead, UndialedOK, Phase, Fresh, Sides
  <2> QED BY <2>1, <2>2 DEF PairOK
<1>3. ASSUME NEW s \in Sides PROVE JoinOK(s)
  <2>1. completed[s] = 0 /\ ~fired[s] /\ future[s] = "none" /\ \A p \in Pairs : cont[s][p] = "none"
    BY DEF Init
  <2>2. Passed(s) = {}
    BY <2>1 DEF Passed
  <2> QED BY <2>1, <2>2, FS_EmptySet DEF JoinOK
<1>4. MainOK
  BY DEF Init, MainOK
<1> QED BY <1>1, <1>2, <1>3, <1>4 DEF BInv

\* Every step preserves it.
LEMMA BInvStep == BInv /\ [Next]_vars => BInv'
<1> SUFFICES ASSUME BInv, [Next]_vars PROVE BInv'
  OBVIOUS
<1>1. CASE MainStep
  BY <1>1, MainKeeps DEF MainStep
<1>2. ASSUME NEW p \in Pairs, PairStep(p) PROVE BInv'
  BY <1>2, DialKeeps, ConnectionAcceptedKeeps, ClientHandshakeKeeps, ServerHandshakeKeeps,
     ServerReadKeeps, ClientReadKeeps DEF PairStep
<1>3. ASSUME NEW p \in Pairs, NEW s \in Sides, Step(s, p) PROVE BInv'
  BY <1>3, SetUpKeeps, WriteSuccessKeeps, FinishKeeps, ContinueKeeps, CompareKeeps, ReadEOFKeeps,
     HandshakeErrorKeeps, WriteErrKeeps DEF Step
<1>4. CASE FaultStep
  BY <1>4, MainKeeps, AcceptFailsKeeps, ClientRefusesKeeps, SetUpFailsKeeps, ReadErrKeeps DEF FaultStep
<1>5. CASE UNCHANGED vars
  <2>1. UNCHANGED <<session, open, inflight, cont, joinVars, dialed>> /\ TypeOK' /\ MainOK'
    BY <1>5 DEF BInv, vars, joinVars, TypeOK, MainOK
  <2> QED BY <2>1, MainStepKeeps
<1> QED BY <1>1, <1>2, <1>3, <1>4, <1>5 DEF Next, Progress, Ended

\* The inductive invariant of the benchmark holds in every reachable state.
THEOREM BInvHolds == Spec => []BInv
  BY BInvInit, BInvStep, PTL DEF Spec

\* Every counter of the benchmark stays in its range: no more than one batch of a
\* connection is on its way in each direction, no more writes are unanswered than
\* there are rounds, and completed never passes the number of pairs.
THEOREM BenchTypes == Spec => []TypeOK
<1>1. BInv => TypeOK
  BY DEF BInv
<1> QED BY BInvHolds, <1>1, PTL

\* A session that has queued its own deletion has no write outstanding, whatever
\* order read, write, error and end-of-file callbacks come in.
THEOREM NoCallbackAfterDestroyHolds == Spec => []NoCallbackAfterDestroy
<1>1. BInv => NoCallbackAfterDestroy
  BY DEF BInv, PairOK, SessionOK, RecordOK, NoCallbackAfterDestroy, Phase
<1> QED BY BInvHolds, <1>1, PTL

\* A side whose promise holds a value has echoed everything and is torn down.
LEMMA ValueMeansEchoed ==
    ASSUME BInv, NEW s \in Sides, future[s] = "value", NEW p \in Pairs
    PROVE  /\ session[s][p].phase = "gone" /\ ~session[s][p].failed /\ session[s][p].reads = 0
           /\ ~open[s][p] /\ cont[s][p] \in {"counted", "over"}
<1>1. cont[s][p] \in {"counted", "over"} /\ ~session[s][p].failed
  BY DEF BInv, JoinOK
<1>2. SessionOK(s, p)
  BY DEF BInv, PairOK
<1> QED BY <1>1, <1>2 DEF SessionOK, RecordOK, Phase

\* The calling thread takes the wall time, and begins to tear down, only behind
\* the last echo of the last session of both sides.
THEOREM TeardownAfterEchoHolds == Spec => []TeardownAfterEcho
<1>1. BInv => TeardownAfterEcho
  <2> SUFFICES ASSUME BInv, main \in {"stopping", "stopped", "joining", "returned"}
               PROVE  \A s \in Sides, p \in Pairs :
                          /\ session[s][p].phase = "gone" /\ ~session[s][p].failed /\ session[s][p].reads = 0
                          /\ inflight[s][p] = 0 /\ ~open[s][p]
                          /\ cont[s][p] \in {"counted", "last", "over"}
    BY DEF TeardownAfterEcho
  <2>1. \A s \in Sides : future[s] = "value"
    BY DEF BInv, MainOK, Sides
  <2>2. ASSUME NEW p \in Pairs PROVE inflight["client"][p] = 0 /\ inflight["server"][p] = 0
    <3>1. session["client"][p].reads = 0 /\ session["server"][p].reads = 0
      BY <2>1, ValueMeansEchoed DEF Sides
    <3>2. Ahead(p) = 0
      BY <3>1 DEF Ahead
    <3> QED BY <3>1, <3>2, Account
  <2> QED BY <2>1, <2>2, ValueMeansEchoed DEF Sides
<1> QED BY BInvHolds, <1>1, PTL

\* When the acceptor is deleted no acceptStopped and no continuation of a server
\* session is to come, but for a comparison.
THEOREM AcceptorOutlivesHolds == Spec => []AcceptorOutlives
<1>1. BInv => AcceptorOutlives
  <2> SUFFICES ASSUME BInv, ~acceptor
               PROVE  baton /\ \A p \in Pairs : /\ Phase("server", p) = "gone"
                                                /\ cont["server"][p] \in {"counted", "over"}
    BY DEF AcceptorOutlives
  <2>1. baton /\ future["server"] = "value" /\ "server" \in Sides
    BY DEF BInv, MainOK, Sides
  <2> QED BY <2>1, ValueMeansEchoed DEF Phase
<1> QED BY BInvHolds, <1>1, PTL

\* No step sets the promise of a side a second time: neither two continuations
\* nor a continuation and a failing set-up or accept get past fired together.
THEOREM PromiseSetOnceHolds == Spec => PromiseSetOnce
<1>1. ASSUME BInv, [Next]_vars PROVE \A s \in Sides : future[s] # "none" => future'[s] = future[s]
  <2>1. future \in [Sides -> {"none", "value", "exception"}] /\ \A s \in Sides : fired[s] <=> future[s] # "none"
    BY <1>1 DEF BInv, TypeOK, JoinOK
  <2>2. ASSUME NEW s \in Sides, NEW x, Fire(s, x)
        PROVE  \A t \in Sides : future[t] # "none" => future'[t] = future[t]
    BY <2>1, <2>2 DEF Fire
  <2>3. ASSUME UNCHANGED future PROVE \A t \in Sides : future[t] # "none" => future'[t] = future[t]
    BY <2>3
  <2>4. CASE MainStep \/ DialFails \/ UNCHANGED vars
    BY <2>3, <2>4 DEF MainStep, Wait, StopAccepting, AcceptStopped, DeleteAcceptor, Join, DialFails, vars, joinVars
  <2>5. CASE AcceptFails
    BY <2>2, <2>5 DEF AcceptFails, Sides
  <2>6. ASSUME NEW p \in Pairs, PairStep(p) \/ ClientRefuses(p) PROVE UNCHANGED future
    BY <2>6 DEF PairStep, Dial, ConnectionAccepted, ClientHandshakeSuccess, ServerHandshakeSuccess,
                ServerReadDataAvailable, ClientReadDataAvailable, ClientRefuses, joinVars
  <2>7. ASSUME NEW s \in Sides, NEW p \in Pairs, Step(s, p) \/ SetUpFails(s, p) \/ ReadErr(s, p)
        PROVE  UNCHANGED future \/ Fire(s, "exception") \/ Fire(s, "value")
    BY <2>7 DEF Step, SetUp, WriteSuccess, Finish, Continue, Compare, ReadEOF, HandshakeError, WriteErr,
                SetUpFails, ReadErr, joinVars
  <2> QED BY <1>1, <2>2, <2>3, <2>4, <2>5, <2>6, <2>7 DEF Next, Progress, FaultStep, Ended
<1>2. BInv /\ [Next]_vars => [\A s \in Sides : future[s] # "none" => future'[s] = future[s]]_vars
  BY <1>1
<1> QED BY BInvHolds, <1>2, PTL DEF Spec, PromiseSetOnce
=============================================================================
