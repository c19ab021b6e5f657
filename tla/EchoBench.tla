----------------------------- MODULE EchoBench -----------------------------
(***************************************************************************)
(* run_fizz_cpp_bench of src/ffi/cpp_bench.cpp: one session object per     *)
(* side and connection, each on its own EventBase thread; the continuation *)
(* of each session, which counts it; and the calling thread, which dials,  *)
(* waits for the server's and then the clients' future, and tears down.    *)
(*                                                                         *)
(* Bytes are whole batches.  A write is answered by a later callback, also *)
(* where folly may answer within writeChain: the handlers leave the same   *)
(* state.  Zero pairs, rounds or bytes return at once and are left out.    *)
(***************************************************************************)
EXTENDS Naturals, FiniteSets

CONSTANTS
    Pairs,      \* the connections
    Rounds,     \* batches echoed on each
    MaxFaults   \* bound: failures of calls into the system or into fizz

ASSUME EchoBenchAssumption == IsFiniteSet(Pairs) /\ Rounds \in Nat \ {0} /\ MaxFaults \in Nat

VARIABLES
    session,    \* Echo{Client,Server}Session of each side and pair
    open,       \* the transport of each side is good()
    inflight,   \* batches on their way to each side
    cont,       \* the thenTry continuation of each session's promise
    completed, fired, future,   \* per side: the counter, the flag, the promise of all
    dialed,     \* pairs the calling thread has connected
    main,       \* where the calling thread is
    baton,      \* stoppedBaton_ is posted
    acceptor,   \* the BenchAcceptor object exists
    faults

vars == <<session, open, inflight, cont, completed, fired, future, dialed, main, baton, acceptor, faults>>
joinVars == <<completed, fired, future>>
mainVars == <<dialed, main, baton, acceptor>>

Sides == {"client", "server"}
Peer(s) == IF s = "client" THEN "server" ELSE "client"

\* phase: no EventBase yet; set-up queued on it; set-up threw; start() called;
\* read callback installed; finished_, with the deferred closure queued; deleted.
Session == [phase : {"none", "queued", "broken", "handshake", "open", "finishing", "gone"},
            reads : 0..Rounds,      \* reads_remaining_
            writes : 0..Rounds,     \* writes_in_flight_
            stopped : BOOLEAN,
            failed : BOOLEAN,       \* error_msg_ is set
            shook : BOOLEAN,        \* fizz has completed the handshake
            reading : BOOLEAN]      \* setReadCB(this)

TypeOK ==
    /\ session \in [Sides -> [Pairs -> Session]]
    /\ open \in [Sides -> [Pairs -> BOOLEAN]] /\ inflight \in [Sides -> [Pairs -> 0..1]]
    /\ cont \in [Sides -> [Pairs -> {"none", "value", "exception", "counted", "last", "over"}]]
    /\ completed \in [Sides -> 0..Cardinality(Pairs)] /\ fired \in [Sides -> BOOLEAN]
    /\ future \in [Sides -> {"none", "value", "exception"}]
    /\ dialed \subseteq Pairs /\ baton \in BOOLEAN /\ acceptor \in BOOLEAN
    /\ main \in {"dialing", "server", "client", "stopping", "stopped", "joining", "returned", "terminated"}
    /\ faults \in 0..MaxFaults

Init ==
    /\ session = [s \in Sides |-> [p \in Pairs |->
         [phase |-> "none", reads |-> Rounds, writes |-> 0,
          stopped |-> FALSE, failed |-> FALSE, shook |-> FALSE, reading |-> FALSE]]]
    /\ open = [s \in Sides |-> [p \in Pairs |-> FALSE]]
    /\ inflight = [s \in Sides |-> [p \in Pairs |-> 0]]
    /\ cont = [s \in Sides |-> [p \in Pairs |-> "none"]]
    /\ completed = [s \in Sides |-> 0] /\ fired = [s \in Sides |-> FALSE]
    /\ future = [s \in Sides |-> "none"]
    /\ dialed = {} /\ main = "dialing" /\ baton = FALSE /\ acceptor = TRUE /\ faults = 0

Fault == faults < MaxFaults /\ faults' = faults + 1

-----------------------------------------------------------------------------
\* A mutated form: a session finishes with a write unanswered.
FinishWithWrites(r) == IF r.stopped /\ r.phase # "gone" THEN [r EXCEPT !.phase = "finishing"] ELSE r

\* maybeFinish: the deferred closure is queued once, with nothing in flight.
MaybeFinish(r) ==
    IF r.stopped /\ r.writes = 0 /\ r.phase # "gone" THEN [r EXCEPT !.phase = "finishing"] ELSE r

SetError(r) == MaybeFinish([r EXCEPT !.failed = TRUE, !.stopped = TRUE])

\* A mutated form: whoever comes sets the promise, without asking `fired`.
FireAgain(s, outcome) == fired' = [fired EXCEPT ![s] = TRUE] /\ future' = [future EXCEPT ![s] = outcome]

\* if (!fired.exchange(true)) allDone.set...(outcome)
Fire(s, outcome) ==
    IF fired[s] THEN UNCHANGED <<fired, future>>
    ELSE fired' = [fired EXCEPT ![s] = TRUE] /\ future' = [future EXCEPT ![s] = outcome]

SetSession(s, p, r) == session' = [session EXCEPT ![s][p] = r]
Phase(s, p) == session[s][p].phase

Live == {"handshake", "open", "finishing"}

-----------------------------------------------------------------------------
\* The calling thread: blocking_tcp_connect, an EventBase with its thread, and
\* the set-up queued on it; after the last pair it waits for the server.
Dial(p) ==
    /\ main = "dialing" /\ p \notin dialed
    /\ dialed' = dialed \union {p}
    /\ main' = IF dialed' = Pairs THEN "server" ELSE main
    /\ SetSession("client", p, [session["client"][p] EXCEPT !.phase = "queued"])
    /\ open' = [s \in Sides |-> [open[s] EXCEPT ![p] = TRUE]]
    /\ UNCHANGED <<inflight, cont, joinVars, baton, acceptor, faults>>

\* An exception leaves the function while acceptThread, or a thread of a
\* PerConnEvb, is joinable: its destructor calls std::terminate.
DialFails ==
    /\ main = "dialing" /\ Fault /\ main' = "terminated"
    /\ UNCHANGED <<session, open, inflight, cont, joinVars, dialed, baton, acceptor>>

\* connectionAccepted, on the accept EventBase.
ConnectionAccepted(p) ==
    /\ p \in dialed /\ Phase("server", p) = "none" /\ main \in {"dialing", "server", "client"}
    /\ SetSession("server", p, [session["server"][p] EXCEPT !.phase = "queued"])
    /\ UNCHANGED <<open, inflight, cont, joinVars, mainVars, faults>>

\* Its catch block, and acceptError.
AcceptFails ==
    /\ main \in {"dialing", "server", "client"} /\ Fault
    /\ Fire("server", "exception")
    /\ UNCHANGED <<session, open, inflight, cont, completed, mainVars>>

\* The closure queued on the connection's EventBase, up to start().
SetUp(s, p) ==
    /\ Phase(s, p) = "queued"
    /\ SetSession(s, p, [session[s][p] EXCEPT !.phase = "handshake"])
    /\ UNCHANGED <<open, inflight, cont, joinVars, mainVars, faults>>

\* Its catch block.  The descriptor is closed if a socket already owned it.
SetUpFails(s, p) ==
    /\ Phase(s, p) = "queued" /\ Fault
    /\ SetSession(s, p, [session[s][p] EXCEPT !.phase = "broken"])
    /\ \E kept \in BOOLEAN : open' = [open EXCEPT ![s][p] = kept]
    /\ Fire(s, "exception")
    /\ UNCHANGED <<inflight, cont, completed, mainVars>>

-----------------------------------------------------------------------------
\* fizzHandshakeSuccess of the client, with the credential expected; sendOne.
ClientHandshakeSuccess(p) ==
    /\ Phase("client", p) = "handshake" /\ Phase("server", p) = "handshake"
    /\ open["client"][p] /\ open["server"][p]
    /\ SetSession("client", p, [session["client"][p] EXCEPT
                                   !.phase = "open", !.shook = TRUE, !.reading = TRUE, !.writes = 1])
    /\ inflight' = [inflight EXCEPT !["server"][p] = @ + 1]
    /\ UNCHANGED <<open, cont, joinVars, mainVars, faults>>

\* The same without a delegated credential, or with another one, which closes
\* the transport at once.
ClientRefuses(p) ==
    /\ Phase("client", p) = "handshake" /\ Phase("server", p) = "handshake"
    /\ open["client"][p] /\ open["server"][p] /\ Fault
    /\ SetSession("client", p, SetError([session["client"][p] EXCEPT !.shook = TRUE]))
    /\ \E kept \in BOOLEAN : open' = [open EXCEPT !["client"][p] = kept]
    /\ UNCHANGED <<inflight, cont, joinVars, mainVars>>

\* fizzHandshakeSuccess of the server: the client's last flight has arrived.
ServerHandshakeSuccess(p) ==
    /\ Phase("server", p) = "handshake" /\ open["server"][p] /\ session["client"][p].shook
    /\ SetSession("server", p, [session["server"][p] EXCEPT
                                   !.phase = "open", !.shook = TRUE, !.reading = TRUE])
    /\ UNCHANGED <<open, inflight, cont, joinVars, mainVars, faults>>

\* fizzHandshakeError and fizzHandshakeAttemptFallback: by itself, a timeout
\* included, or because the peer closed in mid-handshake.
HandshakeError(s, p) ==
    /\ Phase(s, p) = "handshake"
    /\ \/ ~open[Peer(s)][p] /\ ~session[Peer(s)][p].shook /\ UNCHANGED faults
       \/ Fault
    /\ SetSession(s, p, SetError(session[s][p]))
    /\ open' = [open EXCEPT ![s][p] = FALSE]
    /\ UNCHANGED <<inflight, cont, joinVars, mainVars>>

-----------------------------------------------------------------------------
\* readDataAvailable of the server: the batch is written back.
ServerReadDataAvailable(p) ==
    LET r == session["server"][p] IN
    /\ r.reading /\ r.phase \in Live /\ open["server"][p] /\ inflight["server"][p] > 0 /\ r.reads > 0
    /\ SetSession("server", p,
         MaybeFinish([r EXCEPT !.reads = @ - 1, !.writes = @ + 1, !.stopped = @ \/ r.reads = 1]))
    /\ inflight' = [inflight EXCEPT !["server"][p] = @ - 1, !["client"][p] = @ + 1]
    /\ UNCHANGED <<open, cont, joinVars, mainVars, faults>>

\* A mutated form: the loop sends before it looks whether it is done.
SendsAlways(r) == 1

\* The last echo ends the loop, any other sends the next batch.
Sends(r) == IF r.reads = 1 THEN 0 ELSE 1

\* readDataAvailable of the client: the echo is dropped, the next batch sent.
ClientReadDataAvailable(p) ==
    LET r == session["client"][p] IN
    /\ r.reading /\ r.phase \in Live /\ open["client"][p] /\ inflight["client"][p] > 0 /\ r.reads > 0
    /\ SetSession("client", p,
         MaybeFinish([r EXCEPT !.reads = @ - 1, !.writes = @ + Sends(r), !.stopped = @ \/ r.reads = 1]))
    /\ inflight' = [inflight EXCEPT !["client"][p] = @ - 1, !["server"][p] = @ + Sends(r)]
    /\ UNCHANGED <<open, cont, joinVars, mainVars, faults>>

\* readEOF, which folly calls once.
ReadEOF(s, p) ==
    LET r == session[s][p] IN
    /\ r.reading /\ r.phase \in Live /\ open[s][p] /\ ~open[Peer(s)][p] /\ inflight[s][p] = 0
    /\ SetSession(s, p, [(IF r.reads > 0 THEN SetError(r) ELSE MaybeFinish([r EXCEPT !.stopped = TRUE]))
                            EXCEPT !.reading = FALSE])
    /\ UNCHANGED <<open, inflight, cont, joinVars, mainVars, faults>>

\* readErr: the transport has failed, and folly calls it no more.
ReadErr(s, p) ==
    /\ session[s][p].reading /\ Phase(s, p) \in Live /\ open[s][p] /\ Fault
    /\ SetSession(s, p, [SetError(session[s][p]) EXCEPT !.reading = FALSE])
    /\ open' = [open EXCEPT ![s][p] = FALSE]
    /\ UNCHANGED <<inflight, cont, joinVars, mainVars>>

\* A mutated form: the write is not counted off.
AnsweredStays(r) == r

\* --writes_in_flight_
Answered(r) == [r EXCEPT !.writes = @ - 1]

WriteSuccess(s, p) ==
    /\ session[s][p].writes > 0 /\ open[s][p]
    /\ SetSession(s, p, MaybeFinish(Answered(session[s][p])))
    /\ UNCHANGED <<open, inflight, cont, joinVars, mainVars, faults>>

\* writeErr, by itself or because the transport has failed.  A batch still on
\* its way may be lost.
WriteErr(s, p) ==
    /\ session[s][p].writes > 0
    /\ (open[s][p] /\ Fault) \/ (~open[s][p] /\ UNCHANGED faults)
    /\ SetSession(s, p, SetError(Answered(session[s][p])))
    /\ open' = [open EXCEPT ![s][p] = FALSE]
    /\ \E left \in 0..inflight[Peer(s)][p] : inflight' = [inflight EXCEPT ![Peer(s)][p] = left]
    /\ UNCHANGED <<cont, joinVars, mainVars>>

\* The closure maybeFinish queued: close, the session's promise, destroy.
Finish(s, p) ==
    /\ Phase(s, p) = "finishing"
    /\ open' = [open EXCEPT ![s][p] = FALSE]
    /\ cont' = [cont EXCEPT ![s][p] = IF session[s][p].failed THEN "exception" ELSE "value"]
    /\ SetSession(s, p, [session[s][p] EXCEPT !.phase = "gone", !.reading = FALSE])
    /\ UNCHANGED <<inflight, joinVars, mainVars, faults>>

-----------------------------------------------------------------------------
\* A mutated form: the first session to end is taken for the last.
AnyIsLast(s) == TRUE

\* fetch_add(1) + 1 == pairs
IsLast(s) == completed[s] + 1 = Cardinality(Pairs)

\* The continuation of a session's promise, up to completed.fetch_add(1).
Continue(s, p) ==
    \/ /\ cont[s][p] \in {"value", "exception"} /\ fired[s]
       /\ cont' = [cont EXCEPT ![s][p] = "over"] /\ UNCHANGED joinVars
       /\ UNCHANGED <<session, open, inflight, mainVars, faults>>
    \/ /\ cont[s][p] = "exception" /\ ~fired[s]
       /\ cont' = [cont EXCEPT ![s][p] = "over"]
       /\ Fire(s, "exception")
       /\ UNCHANGED <<session, open, inflight, completed, mainVars, faults>>
    \/ /\ cont[s][p] = "value" /\ ~fired[s]
       /\ cont' = [cont EXCEPT ![s][p] = IF IsLast(s) THEN "last" ELSE "counted"]
       /\ completed' = [completed EXCEPT ![s] = @ + 1]
       /\ UNCHANGED <<session, open, inflight, fired, future, mainVars, faults>>

\* The comparison with the number of pairs, which the server's continuation
\* reads from the acceptor, and what follows it.
Compare(s, p) ==
    /\ cont[s][p] \in {"counted", "last"}
    /\ cont' = [cont EXCEPT ![s][p] = "over"]
    /\ IF cont[s][p] = "last" THEN Fire(s, "value") ELSE UNCHANGED <<fired, future>>
    /\ UNCHANGED <<session, open, inflight, completed, mainVars, faults>>

-----------------------------------------------------------------------------
\* serverAllFut.get(), then clientAllFut.get(): an exception leaves the function.
Wait(s) ==
    /\ main = s /\ future[s] # "none"
    /\ main' = IF future[s] = "exception" THEN "terminated"
               ELSE IF s = "server" THEN "client" ELSE "stopping"
    /\ UNCHANGED <<session, open, inflight, cont, joinVars, dialed, baton, acceptor, faults>>

\* stopAccepting and listener.reset(), which queue acceptStopped.
StopAccepting ==
    /\ main = "stopping" /\ main' = "stopped"
    /\ UNCHANGED <<session, open, inflight, cont, joinVars, dialed, baton, acceptor, faults>>

AcceptStopped ==
    /\ main \in {"stopped", "joining"} /\ ~baton /\ baton' = TRUE
    /\ UNCHANGED <<session, open, inflight, cont, joinVars, dialed, main, acceptor, faults>>

\* A mutated form: no waitForStopped.
NoWaitForStopped == TRUE

\* acceptor->waitForStopped()
WaitForStopped == baton

\* waitForStopped; delete acceptor.
DeleteAcceptor ==
    /\ main = "stopped" /\ WaitForStopped
    /\ main' = "joining" /\ acceptor' = FALSE
    /\ UNCHANGED <<session, open, inflight, cont, joinVars, dialed, baton, faults>>

\* Every loop told to end, every thread joined: the callback a loop is in ends.
Join ==
    /\ main = "joining" /\ \A s \in Sides, p \in Pairs : cont[s][p] \notin {"counted", "last"}
    /\ main' = "returned"
    /\ UNCHANGED <<session, open, inflight, cont, joinVars, dialed, baton, acceptor, faults>>

Ended == main \in {"returned", "terminated"} /\ UNCHANGED vars

Step(s, p) ==
    \/ SetUp(s, p) \/ WriteSuccess(s, p) \/ Finish(s, p) \/ Continue(s, p) \/ Compare(s, p)
    \/ ReadEOF(s, p) \/ HandshakeError(s, p) \/ WriteErr(s, p)

PairStep(p) ==
    \/ Dial(p) \/ ConnectionAccepted(p) \/ ClientHandshakeSuccess(p) \/ ServerHandshakeSuccess(p)
    \/ ServerReadDataAvailable(p) \/ ClientReadDataAvailable(p)

MainStep == Wait("server") \/ Wait("client") \/ StopAccepting \/ AcceptStopped \/ DeleteAcceptor \/ Join

FaultStep ==
    \/ DialFails \/ AcceptFails
    \/ \E p \in Pairs : ClientRefuses(p) \/ \E s \in Sides : SetUpFails(s, p) \/ ReadErr(s, p)

Progress == MainStep \/ \E p \in Pairs : PairStep(p) \/ \E s \in Sides : Step(s, p)

Next == (main \notin {"returned", "terminated"} /\ (Progress \/ FaultStep)) \/ Ended

Spec == Init /\ [][Next]_vars

\* Every EventBase has a thread of its own and nothing else to do; faults are
\* few, so that some step other than a fault is always taken.
FairSpec == Spec /\ WF_vars(main \notin {"returned", "terminated"} /\ Progress)

-----------------------------------------------------------------------------
\* maybeFinish's promise: a session that has queued its own deletion has no
\* write outstanding, whose callback would then run on the deleted object, and
\* starts none, although its read callback stays installed until the closure runs.
NoCallbackAfterDestroy ==
    \A s \in Sides, p \in Pairs : Phase(s, p) \in {"finishing", "gone"} => session[s][p].writes = 0

\* The wall time is taken, and the teardown begins, only when every session of
\* both sides has echoed all its rounds without an error and is deleted, so that
\* no loop told to end has anything left to do.
TeardownAfterEcho ==
    main \in {"stopping", "stopped", "joining", "returned"} =>
        \A s \in Sides, p \in Pairs :
            /\ session[s][p].phase = "gone" /\ ~session[s][p].failed /\ session[s][p].reads = 0
            /\ inflight[s][p] = 0 /\ ~open[s][p]
            /\ cont[s][p] \in {"counted", "last", "over"}

\* The promise of a side is set at most once: folly throws on the second time,
\* in a noexcept callback.
PromiseSetOnce == [][\A s \in Sides : future[s] # "none" => future'[s] = future[s]]_vars

\* The acceptor outlives its acceptStopped and every continuation up to the
\* increment of completed_.  (The comparison after it may still be to come: it
\* reads expectedConns_ from the acceptor.)
AcceptorOutlives ==
    ~acceptor => baton /\ \A p \in Pairs : /\ Phase("server", p) = "gone"
                                           /\ cont["server"][p] \in {"counted", "over"}

\* Whatever fails, the call ends: it returns, or the process is terminated.
\* The exception is a client whose set-up throws without closing its socket:
\* the server waits for that client and the calling thread for the server.
BenchEnds ==
    <>(main \in {"returned", "terminated"} \/
       \E p \in Pairs : Phase("client", p) = "broken" /\ open["client"][p])
=============================================================================
