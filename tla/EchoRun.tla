------------------------------ MODULE EchoRun ------------------------------
(***************************************************************************)
(* One call of run_tcp, run_rustls or run_fizz of                          *)
(* crates/tls_bench_ablation/src/main.rs: a server task that accepts the   *)
(* connections and joins its serving tasks, client tasks joined by the     *)
(* main thread, and the echo over their connections.  The three functions  *)
(* differ in the handshake and in what dropping a stream does.             *)
(***************************************************************************)
EXTENDS Naturals, FiniteSets

CONSTANTS
    Pairs,      \* the connections there may be
    Rounds,     \* --rounds
    MaxFaults   \* bound: failures of calls into the system, and lost echoes, per execution

ASSUME EchoRunAssumption == Rounds \in Nat /\ MaxFaults \in Nat

VARIABLES
    backend,        \* the backend of the run in progress
    active,         \* its pairs
    client, serve,  \* the task of each client and of each accepted connection
    crounds, srounds,   \* loop counters of echo_client and echo_serve
    toServer, toClient, \* batches in flight
    cOpen, sOpen,   \* the two ends of each connection
    backlog,        \* connections the listener has not accepted
    listening,      \* the listener exists
    server,         \* the server task: "accepting", "joining", "ok", "err"
    clients,        \* block_on of the client runtime: "joining", "ok", "err"
    cJoined, sJoined,   \* tasks taken out of the two JoinSets
    result,         \* "none" while the run goes on, "ok", "err"; "idle" between runs;
                    \* "terminated": the process is gone
    faults

taskVars == <<client, serve, crounds, srounds, toServer, toClient, cOpen, sOpen>>
joinVars == <<backlog, listening, server, clients, cJoined, sJoined>>
runVars == <<backend, active, taskVars, joinVars, result, faults>>

BackendNames == {"tcp", "rustls", "fizz", "fizz_cpp"}
ClientStates == {"none", "dial", "handshake", "write", "read", "done", "failed", "aborted"}
ServeStates == {"none", "handshake", "read", "write", "done", "failed", "aborted"}
Final == {"done", "failed", "aborted"}

EchoTypeOK ==
    /\ backend \in BackendNames \union {"none"} /\ active \subseteq Pairs
    /\ client \in [Pairs -> ClientStates] /\ serve \in [Pairs -> ServeStates]
    /\ crounds \in [Pairs -> 0..Rounds] /\ srounds \in [Pairs -> 0..Rounds]
    /\ toServer \in [Pairs -> 0..1] /\ toClient \in [Pairs -> 0..1]
    /\ cOpen \in [Pairs -> BOOLEAN] /\ sOpen \in [Pairs -> BOOLEAN]
    /\ backlog \subseteq active /\ listening \in BOOLEAN
    /\ server \in {"accepting", "joining", "ok", "err"} /\ clients \in {"joining", "ok", "err"}
    /\ cJoined \subseteq active /\ sJoined \subseteq active
    /\ result \in {"idle", "none", "ok", "err", "terminated"} /\ faults \in 0..MaxFaults

EchoInit ==
    /\ backend = "none" /\ active = {} /\ result = "idle" /\ faults = 0
    /\ client = [p \in Pairs |-> "none"] /\ serve = [p \in Pairs |-> "none"]
    /\ crounds = [p \in Pairs |-> 0] /\ srounds = [p \in Pairs |-> 0]
    /\ toServer = [p \in Pairs |-> 0] /\ toClient = [p \in Pairs |-> 0]
    /\ cOpen = [p \in Pairs |-> FALSE] /\ sOpen = [p \in Pairs |-> FALSE]
    /\ backlog = {} /\ listening = FALSE /\ server = "ok" /\ clients = "ok"
    /\ cJoined = {} /\ sJoined = {}

Running == result = "none"
Returned == result \in {"idle", "ok", "err"}

-----------------------------------------------------------------------------
\* bind_listener, the spawn of the server task, and the spawn of all clients.
StartRun(b, P) ==
    /\ Returned
    /\ backend' = b /\ active' = P /\ result' = "none"
    /\ client' = [p \in Pairs |-> IF p \in P THEN "dial" ELSE "none"]
    /\ serve' = [p \in Pairs |-> "none"]
    /\ crounds' = [p \in Pairs |-> 0] /\ srounds' = [p \in Pairs |-> 0]
    /\ toServer' = [p \in Pairs |-> 0] /\ toClient' = [p \in Pairs |-> 0]
    /\ cOpen' = [p \in Pairs |-> p \in P] /\ sOpen' = [p \in Pairs |-> p \in P]
    /\ backlog' = {} /\ listening' = TRUE /\ server' = "accepting" /\ clients' = "joining"
    /\ cJoined' = {} /\ sJoined' = {}
    /\ UNCHANGED faults

\* bind_listener()? fails: nothing is spawned.
BindFails(b) ==
    /\ Returned /\ b # "fizz_cpp" /\ faults < MaxFaults
    /\ faults' = faults + 1 /\ backend' = b /\ result' = "err"
    /\ UNCHANGED <<active, taskVars, joinVars>>

\* What a task does first with a connection: its handshake, or the echo loop.
Tls == backend # "tcp"
FirstRead == IF Rounds = 0 THEN "done" ELSE "read"
FirstWrite == IF Rounds = 0 THEN "done" ELSE "write"

\* A mutated form: no drop closes a server's end.
OnlyClientsClose(side, state) == side = "client"

\* Dropping the stream of a task in a state closes the connection: a TcpStream,
\* or a rustls stream around one, always does; a ClientConnection does; a
\* ServerConnection does not, and neither does a fizz handshake that is dropped.
ClosesOnDrop(side, state) ==
    \/ backend \in {"tcp", "rustls"}
    \/ side = "client" /\ state \in {"write", "read"}

\* The ends after the tasks of P have ended.
CAfter(P) == [p \in Pairs |-> cOpen[p] /\ ~(p \in P /\ ClosesOnDrop("client", client[p]))]
SAfter(P) == [p \in Pairs |-> sOpen[p] /\ ~(p \in P /\ ClosesOnDrop("server", serve[p]))]

\* A task moves on; when it ends, its stream is dropped.
ClientTo(p, state) ==
    /\ client' = [client EXCEPT ![p] = state]
    /\ cOpen' = CASE state = "done" -> [cOpen EXCEPT ![p] = ~ClosesOnDrop("client", "read")]
                  [] state = "failed" -> CAfter({p})
                  [] OTHER -> cOpen

ServeTo(p, state) ==
    /\ serve' = [serve EXCEPT ![p] = state]
    /\ sOpen' = IF state \in {"done", "failed"} THEN SAfter({p}) ELSE sOpen

-----------------------------------------------------------------------------
\* TcpStream::connect, refused once the listener is gone.
Dial(p) ==
    /\ Running /\ client[p] = "dial"
    /\ IF listening
       THEN /\ ClientTo(p, IF Tls THEN "handshake" ELSE FirstWrite)
            /\ backlog' = backlog \union {p}
       ELSE ClientTo(p, "failed") /\ UNCHANGED backlog
    /\ UNCHANGED <<backend, active, serve, crounds, srounds, toServer, toClient, sOpen, listening,
                   server, clients, cJoined, sJoined, result, faults>>

\* listener.accept and set.spawn, `pairs` times.
Accept(p) ==
    /\ Running /\ server = "accepting" /\ p \in backlog
    /\ backlog' = backlog \ {p}
    /\ ServeTo(p, IF Tls THEN "handshake" ELSE FirstRead)
    /\ server' = IF \A q \in active \ {p} : serve[q] # "none" THEN "joining" ELSE server
    /\ UNCHANGED <<backend, active, client, crounds, srounds, toServer, toClient, cOpen, listening,
                   clients, cJoined, sJoined, result, faults>>

\* connector.connect and ClientTlsContext::connect: the server answers.
ClientHandshake(p) ==
    /\ Running /\ client[p] = "handshake" /\ serve[p] = "handshake"
    /\ ClientTo(p, FirstWrite)
    /\ UNCHANGED <<backend, active, serve, crounds, srounds, toServer, toClient, sOpen, joinVars,
                   result, faults>>

\* acceptor.accept and accept_from_stream: the client has sent its last flight.
ServeHandshake(p) ==
    /\ Running /\ serve[p] = "handshake" /\ client[p] \in {"write", "read", "done"}
    /\ ServeTo(p, FirstRead)
    /\ UNCHANGED <<backend, active, client, crounds, srounds, toServer, toClient, cOpen, joinVars,
                   result, faults>>

\* echo_client: write_all and flush, then read_exact.
ClientWrite(p) ==
    /\ Running /\ client[p] = "write"
    /\ client' = [client EXCEPT ![p] = "read"]
    /\ toServer' = [toServer EXCEPT ![p] = @ + 1]
    /\ UNCHANGED <<backend, active, serve, crounds, srounds, toClient, cOpen, sOpen, joinVars,
                   result, faults>>

ClientRead(p) ==
    /\ Running /\ client[p] = "read" /\ toClient[p] > 0
    /\ toClient' = [toClient EXCEPT ![p] = @ - 1]
    /\ crounds' = [crounds EXCEPT ![p] = @ + 1]
    /\ ClientTo(p, IF crounds[p] + 1 = Rounds THEN "done" ELSE "write")
    /\ UNCHANGED <<backend, active, serve, srounds, toServer, sOpen, joinVars, result, faults>>

\* echo_serve: read_exact, then write_all and flush.
ServeRead(p) ==
    /\ Running /\ serve[p] = "read" /\ toServer[p] > 0
    /\ serve' = [serve EXCEPT ![p] = "write"]
    /\ toServer' = [toServer EXCEPT ![p] = @ - 1]
    /\ UNCHANGED <<backend, active, client, crounds, srounds, toClient, cOpen, sOpen, joinVars,
                   result, faults>>

ServeWrite(p) ==
    /\ Running /\ serve[p] = "write"
    /\ toClient' = [toClient EXCEPT ![p] = @ + 1]
    /\ srounds' = [srounds EXCEPT ![p] = @ + 1]
    /\ ServeTo(p, IF srounds[p] + 1 = Rounds THEN "done" ELSE "read")
    /\ UNCHANGED <<backend, active, client, crounds, toServer, cOpen, joinVars, result, faults>>

-----------------------------------------------------------------------------
\* The peer's end is closed and nothing it sent is left: the call in progress
\* fails.  A connection nobody accepted is closed with the listener.
ClientSeesEnd(p) ==
    /\ Running /\ client[p] \in {"handshake", "write", "read"} /\ ~sOpen[p] /\ toClient[p] = 0
    /\ ClientTo(p, "failed")
    /\ UNCHANGED <<backend, active, serve, crounds, srounds, toServer, toClient, sOpen, joinVars,
                   result, faults>>

ServeSeesEnd(p) ==
    /\ Running /\ ~cOpen[p]
    /\ \/ serve[p] = "read" /\ toServer[p] = 0
       \/ serve[p] = "handshake" /\ client[p] \in {"failed", "aborted"}
    /\ ServeTo(p, "failed")
    /\ UNCHANGED <<backend, active, client, crounds, srounds, toServer, toClient, cOpen, joinVars,
                   result, faults>>

\* A call fails by itself.  What fizz does with the transport of a handshake
\* that failed is a choice.
ClientFails(p) ==
    /\ Running /\ client[p] \in {"dial", "handshake", "write", "read"} /\ faults < MaxFaults
    /\ faults' = faults + 1
    /\ client' = [client EXCEPT ![p] = "failed"]
    /\ cOpen' \in {CAfter({p})} \union
         (IF client[p] = "handshake" THEN {[cOpen EXCEPT ![p] = FALSE]} ELSE {})
    /\ UNCHANGED <<backend, active, serve, crounds, srounds, toServer, toClient, sOpen, joinVars, result>>

ServeFails(p) ==
    /\ Running /\ serve[p] \in {"handshake", "read", "write"} /\ faults < MaxFaults
    /\ faults' = faults + 1
    /\ serve' = [serve EXCEPT ![p] = "failed"]
    /\ sOpen' \in {SAfter({p})} \union
         (IF serve[p] = "handshake" THEN {[sOpen EXCEPT ![p] = FALSE]} ELSE {})
    /\ UNCHANGED <<backend, active, client, crounds, srounds, toServer, toClient, cOpen, joinVars, result>>

\* ~FizzServerConnection: poll_write has only queued the echo, and the drop stops
\* the loop.  The drain of ~EventBase hands it to the socket; what the socket's
\* buffer does not take at once is never sent.  The client reads on.
LastEchoLost(p) ==
    /\ Running /\ backend = "fizz" /\ serve[p] \in Final /\ toClient[p] > 0 /\ faults < MaxFaults
    /\ faults' = faults + 1
    /\ toClient' = [toClient EXCEPT ![p] = 0]
    /\ UNCHANGED <<backend, active, client, serve, crounds, srounds, toServer, cOpen, sOpen, joinVars, result>>

-----------------------------------------------------------------------------
\* The server task ends: its JoinSet is dropped, which aborts the tasks left in
\* it, and so is the listener, with the connections it had not accepted.
ServerEnds(outcome) ==
    LET left == {p \in active : serve[p] \notin Final \union {"none"}} IN
    /\ server' = outcome
    /\ serve' = [p \in Pairs |-> IF p \in left THEN "aborted" ELSE serve[p]]
    /\ sOpen' = [p \in Pairs |-> SAfter(left)[p] /\ p \notin backlog]
    /\ listening' = FALSE /\ backlog' = {}

\* accept().await? or nodelay()? fails.
AcceptFails ==
    /\ Running /\ server = "accepting" /\ faults < MaxFaults
    /\ faults' = faults + 1
    /\ ServerEnds("err")
    /\ UNCHANGED <<backend, active, client, crounds, srounds, toServer, toClient, cOpen, clients,
                   cJoined, sJoined, result>>

\* A mutated form: the first finished task ends the loop.
JoinFirst(S, p) == TRUE

\* set.join_next returned the last task.
JoinedAll(S, p) == S \union {p} = active

\* while let Some(r) = set.join_next().await { r??; }
ServerJoins(p) ==
    /\ Running /\ server = "joining" /\ serve[p] \in {"done", "failed"} /\ p \notin sJoined
    /\ sJoined' = sJoined \union {p}
    /\ IF serve[p] = "failed" THEN ServerEnds("err")
       ELSE IF JoinedAll(sJoined, p) THEN ServerEnds("ok")
       ELSE UNCHANGED <<server, serve, sOpen, listening, backlog>>
    /\ UNCHANGED <<backend, active, client, crounds, srounds, toServer, toClient, cOpen, clients,
                   cJoined, result, faults>>

\* The future given to client_rt.block_on ends; its JoinSet aborts the rest.
ClientsEnd(outcome) ==
    LET left == {p \in active : client[p] \notin Final} IN
    /\ clients' = outcome
    /\ client' = [p \in Pairs |-> IF p \in left THEN "aborted" ELSE client[p]]
    /\ cOpen' = CAfter(left)

ClientsJoin(p) ==
    /\ Running /\ clients = "joining" /\ client[p] \in {"done", "failed"} /\ p \notin cJoined
    /\ cJoined' = cJoined \union {p}
    /\ IF client[p] = "failed" THEN ClientsEnd("err")
       ELSE IF JoinedAll(cJoined, p) THEN ClientsEnd("ok")
       ELSE UNCHANGED <<clients, client, cOpen>>
    /\ UNCHANGED <<backend, active, serve, crounds, srounds, toServer, toClient, sOpen, backlog,
                   listening, server, sJoined, result, faults>>

\* client_result?; server_result??.
Outcome == IF clients = "ok" /\ server = "ok" THEN "ok" ELSE "err"

\* server_rt.block_on(server_handle) comes back, after the clients'.
Return ==
    /\ Running /\ clients \in {"ok", "err"} /\ server \in {"ok", "err"}
    /\ result' = Outcome
    /\ UNCHANGED <<backend, active, taskVars, joinVars, faults>>

\* cpp_bench::run, which EchoBench models.  An error is returned only if the CA
\* certificate cannot be loaded; any later one terminates the process.
CppBenchReturns ==
    /\ Running /\ backend = "fizz_cpp" /\ result' = "ok"
    /\ UNCHANGED <<backend, active, taskVars, joinVars, faults>>

CppBenchFails ==
    /\ Running /\ backend = "fizz_cpp" /\ result' \in {"err", "terminated"}
    /\ faults < MaxFaults /\ faults' = faults + 1
    /\ UNCHANGED <<backend, active, taskVars, joinVars>>

\* The caller of run_backend has taken the result.
Collect ==
    /\ Returned /\ result' = "idle"
    /\ UNCHANGED <<backend, active, taskVars, joinVars, faults>>

EchoStep ==
    \/ backend # "fizz_cpp" /\ \E p \in active :
         \/ Dial(p) \/ Accept(p) \/ ClientHandshake(p) \/ ServeHandshake(p)
         \/ ClientWrite(p) \/ ClientRead(p) \/ ServeRead(p) \/ ServeWrite(p)
         \/ ClientSeesEnd(p) \/ ServeSeesEnd(p) \/ ServerJoins(p) \/ ClientsJoin(p)
    \/ backend # "fizz_cpp" /\ Return
    \/ CppBenchReturns

EchoFault ==
    \/ backend # "fizz_cpp" /\ AcceptFails
    \/ backend # "fizz_cpp" /\ \E p \in active : ClientFails(p) \/ ServeFails(p) \/ LastEchoLost(p)
    \/ CppBenchFails

EchoNext ==
    \/ EchoStep \/ EchoFault \/ Collect
    \/ \E b \in BackendNames : BindFails(b) \/ \E P \in SUBSET Pairs : StartRun(b, P)

EchoSpec == EchoInit /\ [][EchoNext]_runVars

-----------------------------------------------------------------------------
\* A run returns Ok only if every round of every pair went there and back, and
\* then nothing is in flight or unread.
OkMeansEchoed ==
    result = "ok" /\ backend # "fizz_cpp" =>
        \A p \in active : /\ crounds[p] = Rounds /\ srounds[p] = Rounds
                          /\ toServer[p] = 0 /\ toClient[p] = 0

\* Over TCP and rustls a failure on either side ends both: once every connection
\* is accepted the run returns, because dropping a stream closes it.
FailuresReachBothSides ==
    Running /\ backend \in {"tcp", "rustls"} /\ (\A p \in active : serve[p] # "none") ~> ~Running
=============================================================================
